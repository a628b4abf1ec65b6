------------------------------- MODULE EosSync ------------------------------
(***************************************************************************)
(* Deposits in EOS.  All users pay to one account and name themselves in   *)
(* the memo.  EosService.getActions reads the account's action list a page *)
(* at a time and keeps its place in the list, not a block height; users    *)
(* get their memo from getAccountAddress, which makes the t_user_coin row  *)
(* the scanner looks the memo up in.                                       *)
(*                                                                         *)
(* That row is made without a lock: UserCoinService selects it and inserts *)
(* it if it is missing, and so does changeUserCoin when it credits a user  *)
(* without a row.  Two rows of one user make every query for one of them   *)
(* throw, in the scanner too.  A second row is refused or not: the schema, *)
(* which would say whether user and coin are a unique key, is not in the   *)
(* repository.                                                             *)
(*                                                                         *)
(* Every payment is of one unit.  There is one coin, and the scanner is    *)
(* one thread.                                                             *)
(***************************************************************************)
EXTENDS Integers, Sequences, FiniteSets, FiniteSetsExt

CONSTANTS
  Users,
  Nobody,       \* an action that is no deposit: another contract, receiver or memo
  Threads,      \* server threads that ask for a memo or credit a user
  Page,         \* EOS_TOTLE, the actions asked for at a time
  MaxActions,   \* bound: the length of the account's action list
  MaxRequests,  \* bound: requests for a memo and credits by other services
  MaxFaults     \* bound: exceptions, deaths of the process and forks

ASSUME EosAssumption ==
  /\ Nobody \notin Users
  /\ Page \in Nat \ {0}
  /\ MaxActions \in Nat /\ MaxRequests \in Nat /\ MaxFaults \in Nat

VARIABLES
  actions,  \* the account's action list, on chain
  row,      \* row[u], the t_user_coin rows of u with and without the memo
  balance,  \* balance[u], the sum of the available balances of these rows
  posted,   \* posted[u], what other services credited to u
  received, \* the table t_received_coin: the transactions, and whose they are
  cursor,   \* the configuration value bc.last.sync.block of the coin
  scan,     \* the scanner: at rest, or what is left of its page
  ask,      \* ask[t], the request of thread t
  requests, \* the number of requests so far
  unknown,  \* places in the list whose user had no memo when they were scanned
  forked,   \* whether actions ever disappeared from the list
  faults

vars == <<actions, row, balance, posted, received, cursor, scan, ask, requests,
          unknown, forked, faults>>

\* Transactions are named in the order in which they appear.
Trx == 1 .. MaxActions
Action == [trx : Trx, user : Users \cup {Nobody}]
AtRest == [at |-> "rest"]
Idle == [at |-> "idle"]
Total(u) == row[u].bound + row[u].free

TypeOK ==
  /\ actions \in Seq(Action) /\ Len(actions) <= MaxActions
  /\ row \in [Users -> [bound : Nat, free : Nat]]
  /\ balance \in [Users -> Nat]
  /\ posted \in [Users -> Nat]
  /\ DOMAIN received \subseteq Trx /\ received \in [DOMAIN received -> Users]
  /\ cursor \in 0 .. MaxActions /\ (~forked => cursor <= Len(actions))
  /\ scan.at \in {"rest", "page"}
  /\ scan # AtRest => scan.last \in cursor + 1 .. cursor + Page
  /\ \A t \in Threads : ask[t].at \in {"idle", "addUserCoin", "insertAndChange"}
  /\ requests \in 0 .. MaxRequests
  /\ unknown \subseteq 1 .. MaxActions
  /\ forked \in BOOLEAN
  /\ faults \in 0 .. MaxFaults

Init ==
  /\ actions = << >>
  /\ row = [u \in Users |-> [bound |-> 0, free |-> 0]]
  /\ balance = [u \in Users |-> 0]
  /\ posted = [u \in Users |-> 0]
  /\ received = [x \in {} |-> Nobody]
  /\ cursor = 0
  /\ scan = AtRest
  /\ ask = [t \in Threads |-> Idle]
  /\ requests = 0
  /\ unknown = {}
  /\ forked = FALSE
  /\ faults = 0

-----------------------------------------------------------------------------
(***************************************************************************)
(* The rows of t_user_coin.                                                *)
(***************************************************************************)

\* Any thread that is free may take a request.
Request(t) ==
  /\ ask[t] = Idle
  /\ requests < MaxRequests
  /\ requests' = requests + 1

\* EosService.getAccountAddress: a missing row is made by addUserCoin, a row
\* without a memo gets one (updateUserCoinAddress); two rows throw.
getAccountAddress(t, u) ==
  /\ Request(t)
  /\ \/ /\ Total(u) = 0
        /\ ask' = [ask EXCEPT ![t] = [at |-> "addUserCoin", user |-> u]]
        /\ UNCHANGED row
     \/ /\ Total(u) = 1 /\ row[u].free = 1
        /\ row' = [row EXCEPT ![u] = [bound |-> 1, free |-> 0]]
        /\ UNCHANGED ask
  /\ UNCHANGED <<actions, balance, posted, received, cursor, scan, unknown,
                 forked, faults>>

\* The insert, some time after the row was found missing.
addUserCoin(t) ==
  /\ ask[t].at = "addUserCoin"
  /\ \/ row' = [row EXCEPT ![ask[t].user].bound = row[ask[t].user].bound + 1]
     \/ Total(ask[t].user) > 0 /\ UNCHANGED row
  /\ ask' = [ask EXCEPT ![t] = Idle]
  /\ UNCHANGED <<actions, balance, posted, received, cursor, scan,
                 unknown, forked, requests, faults>>

\* The UPDATE of changeUserCoin adds to every row of the user, and the
\* transaction is rolled back unless that was exactly one.
ChangeOneRow(u) ==
  /\ Total(u) = 1
  /\ balance' = [balance EXCEPT ![u] = balance[u] + Total(u)]

\* Another service credits u.
changeUserCoin(t, u) ==
  /\ Request(t)
  /\ \/ /\ Total(u) = 0
        /\ ask' = [ask EXCEPT ![t] = [at |-> "insertAndChange", user |-> u]]
        /\ UNCHANGED <<balance, posted>>
     \/ /\ Total(u) > 0
        /\ ChangeOneRow(u)
        /\ posted' = [posted EXCEPT ![u] = posted[u] + 1]
        /\ UNCHANGED ask
  /\ UNCHANGED <<actions, row, received, cursor, scan, unknown, forked, faults>>

\* The insert committed before the UPDATE is counted.
InsertCommitted(t) ==
  /\ ask[t].at = "insertAndChange"
  /\ row' = [row EXCEPT ![ask[t].user].free = row[ask[t].user].free + 1]
  /\ ask' = [ask EXCEPT ![t] = Idle]
  /\ UNCHANGED <<actions, balance, posted, received, cursor, scan, unknown,
                 forked, requests, faults>>

\* The row is inserted and the UPDATE repeated, one transaction.  If another
\* row has appeared meanwhile, the insert is refused, or the UPDATE finds two
\* rows: either way all is rolled back.
insertAndChange(t) ==
  /\ ask[t].at = "insertAndChange"
  /\ LET u == ask[t].user
     IN  \/ /\ Total(u) = 0
            /\ row' = [row EXCEPT ![u].free = 1]
            /\ balance' = [balance EXCEPT ![u] = balance[u] + 1]
            /\ posted' = [posted EXCEPT ![u] = posted[u] + 1]
         \/ Total(u) > 0 /\ UNCHANGED <<row, balance, posted>>
  /\ ask' = [ask EXCEPT ![t] = Idle]
  /\ UNCHANGED <<actions, received, cursor, scan, unknown, forked,
                 requests, faults>>

-----------------------------------------------------------------------------
(***************************************************************************)
(* The scanner.                                                            *)
(***************************************************************************)

\* The first action of every transaction of the page (removeDuplicate).
removeDuplicate(page) ==
  {i \in page : \A j \in page : j < i => actions[j].trx # actions[i].trx}

\* eosJob and getActions: a page of at least one action, as long as the node
\* sees fit, is read and kept.
getActions ==
  /\ scan = AtRest
  /\ \E last \in cursor + 1 .. cursor + Page :
       /\ last <= Len(actions)
       /\ scan' = [at |-> "page", last |-> last,
                   todo |-> [i \in removeDuplicate(cursor + 1 .. last) |-> actions[i]]]
  /\ UNCHANGED <<actions, row, balance, posted, received, cursor, ask,
                 unknown, forked, requests, faults>>

NextInPage == Min(DOMAIN scan.todo)
Rest == [scan EXCEPT !.todo = [i \in DOMAIN scan.todo \ {NextInPage} |-> scan.todo[i]]]

\* A memo that is no user's throws.
SkipOthersOnly ==
  /\ scan # AtRest /\ DOMAIN scan.todo # {}
  /\ LET a == scan.todo[NextInPage]
     IN  /\ a.user # Nobody => row[a.user].bound = 0
         /\ scan' = IF a.user = Nobody THEN Rest ELSE AtRest
  /\ UNCHANGED <<actions, row, balance, posted, received, cursor, ask,
                 unknown, forked, requests, faults>>

\* No deposit, or a memo that is no user's: skipped for good.
skipAction ==
  /\ scan # AtRest /\ DOMAIN scan.todo # {}
  /\ LET a == scan.todo[NextInPage]
     IN  /\ a.user # Nobody => row[a.user].bound = 0
         /\ unknown' = IF a.user = Nobody THEN unknown ELSE unknown \cup {NextInPage}
  /\ scan' = Rest
  /\ UNCHANGED <<actions, row, balance, posted, received, cursor, ask,
                 forked, requests, faults>>

\* No look at the records.
NeverExists(x) == FALSE

\* A deposit that is recorded already.
isTransactionExist(x) == x \in DOMAIN received

\* ReceivedCoinService.addTransaction: the record and the credit, one
\* transaction.
addTransaction(a) ==
  /\ ChangeOneRow(a.user)
  /\ received' = [x \in DOMAIN received \cup {a.trx} |->
                    IF x = a.trx THEN a.user ELSE received[x]]

creditAction ==
  /\ scan # AtRest /\ DOMAIN scan.todo # {}
  /\ LET a == scan.todo[NextInPage]
     IN  /\ a.user # Nobody
         /\ row[a.user].bound = 1
         /\ IF isTransactionExist(a.trx) THEN UNCHANGED <<balance, received>>
            ELSE addTransaction(a)
  /\ scan' = Rest
  /\ UNCHANGED <<actions, row, posted, cursor, ask, unknown, forked,
                 requests, faults>>

\* Two rows: getUserIdByCoinNameAndAddress or changeUserCoin throws, the run is
\* over and the cursor stays.
twoRows ==
  /\ scan # AtRest /\ DOMAIN scan.todo # {}
  /\ LET a == scan.todo[NextInPage]
     IN  /\ a.user # Nobody
         /\ \/ row[a.user].bound > 1
            \/ row[a.user].bound = 1 /\ Total(a.user) > 1 /\ ~isTransactionExist(a.trx)
  /\ scan' = AtRest
  /\ UNCHANGED <<actions, row, balance, posted, received, cursor, ask,
                 unknown, forked, requests, faults>>

\* The cursor advanced by the actions asked for, not by those that came.
EndPageWhole ==
  /\ scan # AtRest /\ DOMAIN scan.todo = {}
  /\ cursor' = cursor + Page
  /\ scan' = AtRest
  /\ UNCHANGED <<actions, row, balance, posted, received, ask, unknown,
                 forked, requests, faults>>

\* The cursor is written once, after the last action of the page.
endPage ==
  /\ scan # AtRest /\ DOMAIN scan.todo = {}
  /\ cursor' = scan.last
  /\ scan' = AtRest
  /\ UNCHANGED <<actions, row, balance, posted, received, ask, unknown,
                 forked, requests, faults>>

\* Any other exception, or the death of the process: the page is read again.
Fault ==
  /\ faults < MaxFaults
  /\ faults' = faults + 1
  /\ scan' = AtRest
  /\ UNCHANGED <<actions, row, balance, posted, received, cursor, ask,
                 unknown, requests, forked>>

-----------------------------------------------------------------------------
(***************************************************************************)
(* The chain.                                                              *)
(***************************************************************************)

\* A transaction may carry several actions, one after the other.
Pay(a) ==
  /\ Len(actions) < MaxActions
  /\ \A i \in 1 .. Len(actions) : actions[i].trx = a.trx =>
       \A j \in i .. Len(actions) : actions[j].trx = a.trx
  /\ a.trx > 1 => \/ \E i \in 1 .. Len(actions) : actions[i].trx = a.trx - 1
                  \/ a.trx - 1 \in DOMAIN received
  /\ actions' = Append(actions, a)
  /\ UNCHANGED <<row, balance, posted, received, cursor, scan, ask,
                 unknown, forked, requests, faults>>

\* A fork takes the last action away again; the scanner reads reversible
\* actions too.
Fork ==
  /\ Len(actions) > 0 /\ ~forked
  /\ faults < MaxFaults
  /\ faults' = faults + 1
  /\ actions' = SubSeq(actions, 1, Len(actions) - 1)
  /\ forked' = TRUE
  /\ UNCHANGED <<row, balance, posted, received, cursor, scan, ask,
                 unknown, requests>>

Scan == getActions \/ skipAction \/ creditAction \/ twoRows \/ endPage

Next ==
  \/ Scan
  \/ \E t \in Threads :
       \/ \E u \in Users : getAccountAddress(t, u) \/ changeUserCoin(t, u)
       \/ addUserCoin(t)
       \/ insertAndChange(t)
  \/ \E a \in Action : Pay(a)
  \/ Fork
  \/ Fault

Spec == Init /\ [][Next]_vars

\* EosSync.run repeats eosJob for ever and catches every Throwable.
FairSpec == Spec /\ WF_vars(Scan)

-----------------------------------------------------------------------------
(***************************************************************************)
(* Properties.                                                             *)
(***************************************************************************)

\* Pages that are read again after an exception, in the middle or before the
\* cursor is written, transactions with several actions on one page or across
\* two, forks, and rows made twice: a user's balance is what other services
\* posted plus one payment per recorded transaction of his.
BalanceFollowsRecords ==
  \A u \in Users :
    balance[u] = posted[u] + Cardinality({x \in DOMAIN received : received[x] = u})

\* removeDuplicate drops an action after one of the same transaction, even if
\* that one turns out to be no deposit, or a deposit for nobody known.
Shadowed(i) ==
  \E j \in 1 .. i - 1 : /\ actions[j].trx = actions[i].trx
                        /\ actions[j].user = Nobody \/ j \in unknown

\* Without forks the cursor passes no deposit whose transaction was not
\* credited, however the pages are cut and however often a page fails halfway;
\* but for deposits whose user had no memo when they were scanned and those
\* behind another action of their transaction, which are lost.
CursorCovers ==
  ~forked => \A i \in 1 .. Len(actions) :
    i <= cursor /\ actions[i].user # Nobody /\ i \notin unknown /\ ~Shadowed(i)
      => actions[i].trx \in DOMAIN received

\* Credits race with each other for a missing row and leave one row: more than
\* one takes a getAccountAddress that found none.
Duplicate == \E u \in Users : Total(u) > 1
DuplicateNeedsMemo == \A u \in Users : Total(u) > 1 => row[u].bound > 0

\* Without forks every deposit is credited in the end, or is one of those that
\* are lost, unless some user, not only its payer, has two rows.
DepositsAreCredited ==
  \A i \in 1 .. MaxActions :
    (i <= Len(actions) /\ actions[i].user # Nobody)
      ~> \/ i <= Len(actions) /\ (actions[i].trx \in DOMAIN received \/ Shadowed(i))
         \/ i \in unknown \/ Duplicate \/ forked
=============================================================================
