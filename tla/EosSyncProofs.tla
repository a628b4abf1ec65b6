--------------------------- MODULE EosSyncProofs ----------------------------
(***************************************************************************)
(* The safety of the EOS scanner, for all users, threads, page lengths and *)
(* action lists.                                                           *)
(*                                                                         *)
(* That the cursor covers what it has passed is not inductive: the cursor  *)
(* jumps over a whole page that was worked off in many steps, and some     *)
(* actions of the page were dropped when it was read.  PageCovers says     *)
(* what becomes of every action of the page meanwhile: it is still to do,  *)
(* or it stands behind one of its transaction that is, or it is covered.   *)
(***************************************************************************)
EXTENDS EosSync, SumTheorems, SequenceTheorems, TLAPS

\* The scanner's page, and the requests of the threads.
PageShape ==
  scan # AtRest =>
    /\ scan = [at |-> "page", last |-> scan.last, todo |-> scan.todo]
    /\ scan.last \in cursor + 1 .. cursor + Page
    /\ scan.last <= MaxActions
    /\ ~forked => scan.last <= Len(actions)
    /\ DOMAIN scan.todo \subseteq cursor + 1 .. scan.last
    /\ scan.todo \in [DOMAIN scan.todo -> Action]

Waiting(a) ==
  \E u \in Users, op \in {"addUserCoin", "insertAndChange"} : a = [at |-> op, user |-> u]

AskShape ==
  /\ ask = [t \in Threads |-> ask[t]]
  /\ \A t \in Threads : ask[t] = Idle \/ Waiting(ask[t])

\* Nothing is owed for action i: it is no deposit, its user was unknown, it is
\* behind such an action of its transaction, or its transaction is recorded.
Covered(i) ==
  \/ actions[i].user = Nobody
  \/ i \in unknown
  \/ Shadowed(i)
  \/ actions[i].trx \in DOMAIN received

CursorCoversAll ==
  ~forked => \A i \in 1 .. Len(actions) : i <= cursor => Covered(i)

PageCovers ==
  ~forked /\ scan # AtRest =>
    /\ \A i \in DOMAIN scan.todo : scan.todo[i] = actions[i]
    /\ \A i \in cursor + 1 .. scan.last :
         \/ i \in DOMAIN scan.todo
         \/ Covered(i)
         \/ \E j \in DOMAIN scan.todo : j < i /\ actions[j].trx = actions[i].trx

\* The invariant, in one part for each table or process.
RowsInv ==
  /\ row \in [Users -> [bound : Nat, free : Nat]]
  /\ AskShape
  /\ DuplicateNeedsMemo

BooksInv ==
  /\ balance \in [Users -> Nat]
  /\ posted \in [Users -> Nat]
  /\ DOMAIN received \subseteq Trx /\ received \in [DOMAIN received -> Users]
  /\ BalanceFollowsRecords

PagesInv ==
  /\ actions \in Seq(Action) /\ Len(actions) <= MaxActions
  /\ cursor \in 0 .. MaxActions /\ (~forked => cursor <= Len(actions))
  /\ unknown \subseteq 1 .. MaxActions
  /\ forked \in BOOLEAN
  /\ PageShape
  /\ CursorCoversAll
  /\ PageCovers

CountsInv == requests \in 0 .. MaxRequests /\ faults \in 0 .. MaxFaults

Inv == RowsInv /\ BooksInv /\ PagesInv /\ CountsInv

LEMMA InvImplies ==
  ASSUME Inv
  PROVE  TypeOK /\ BalanceFollowsRecords /\ CursorCovers /\ DuplicateNeedsMemo
<1>1. scan.at \in {"rest", "page"}
  BY DEF Inv, PagesInv, PageShape, AtRest
<1>2. \A t \in Threads : ask[t].at \in {"idle", "addUserCoin", "insertAndChange"}
  BY DEF Inv, RowsInv, AskShape, Waiting, Idle
<1>3. scan # AtRest => scan.last \in cursor + 1 .. cursor + Page
  BY DEF Inv, PagesInv, PageShape
<1>4. TypeOK
  BY <1>1, <1>2, <1>3 DEF Inv, RowsInv, BooksInv, PagesInv, CountsInv, TypeOK
<1>5. CursorCovers
  BY DEF Inv, PagesInv, CursorCoversAll, CursorCovers, Covered
<1>. QED BY <1>4, <1>5 DEF Inv, RowsInv, BooksInv

-----------------------------------------------------------------------------
(***************************************************************************)
(* The rows of t_user_coin.                                                *)
(***************************************************************************)

LEMMA RowsSame == ASSUME RowsInv, UNCHANGED <<row, ask>> PROVE RowsInv'
  BY DEF RowsInv, AskShape, DuplicateNeedsMemo, Total

\* A thread returns to its rest, or starts to wait.
LEMMA AskStep ==
  ASSUME AskShape, NEW t \in Threads, NEW a, a = Idle \/ Waiting(a),
         ask' = [ask EXCEPT ![t] = a]
  PROVE  AskShape'
<1>1. ask' = [x \in Threads |-> IF x = t THEN a ELSE ask[x]]
  BY DEF AskShape
<1>2. ask' = [x \in Threads |-> ask'[x]]
  BY <1>1
<1>3. ASSUME NEW x \in Threads PROVE ask'[x] = Idle \/ Waiting(ask'[x])
  <2>1. ask'[x] = IF x = t THEN a ELSE ask[x]
    BY <1>1
  <2>. QED BY <2>1 DEF AskShape
<1>. QED BY <1>2, <1>3 DEF AskShape, Waiting

\* The rows of one user change.
LEMMA RowStep ==
  ASSUME RowsInv, NEW u \in Users, NEW b \in Nat, NEW f \in Nat,
         b + f > 1 => b > 0,
         row' = [row EXCEPT ![u] = [bound |-> b, free |-> f]]
  PROVE  row' \in [Users -> [bound : Nat, free : Nat]] /\ DuplicateNeedsMemo'
<1>1. row' \in [Users -> [bound : Nat, free : Nat]]
  BY DEF RowsInv
<1>2. ASSUME NEW v \in Users, row'[v].bound + row'[v].free > 1
      PROVE  row'[v].bound > 0
  <2>1. CASE v = u
    BY <1>2, <2>1 DEF RowsInv
  <2>2. CASE v # u
    BY <1>2, <2>2 DEF RowsInv, DuplicateNeedsMemo, Total
  <2>. QED BY <2>1, <2>2
<1>. QED BY <1>1, <1>2 DEF DuplicateNeedsMemo, Total

\* A thread that waits does so for a user.
LEMMA WaitingUser ==
  ASSUME RowsInv, NEW t \in Threads, ask[t] # Idle
  PROVE  ask[t].user \in Users
  BY DEF RowsInv, AskShape, Waiting

LEMMA IdleIsNotBusy ==
  Idle.at # "addUserCoin" /\ Idle.at # "insertAndChange"
  BY DEF Idle

LEMMA GetAccountAddressRows ==
  ASSUME RowsInv, NEW t \in Threads, NEW u \in Users, getAccountAddress(t, u)
  PROVE  RowsInv'
<1>1. CASE /\ ask' = [ask EXCEPT ![t] = [at |-> "addUserCoin", user |-> u]]
           /\ UNCHANGED row
  <2>1. Waiting([at |-> "addUserCoin", user |-> u])
    BY DEF Waiting
  <2>2. AskShape'
    BY <1>1, <2>1, AskStep DEF RowsInv
  <2>. QED BY <1>1, <2>2 DEF RowsInv, DuplicateNeedsMemo, Total
<1>2. CASE /\ row' = [row EXCEPT ![u] = [bound |-> 1, free |-> 0]]
           /\ UNCHANGED ask
  <2>1. PICK b \in Nat, f \in Nat : b = 1 /\ f = 0 /\ (b + f > 1 => b > 0)
    OBVIOUS
  <2>2. row' = [row EXCEPT ![u] = [bound |-> b, free |-> f]]
    BY <1>2, <2>1
  <2>3. row' \in [Users -> [bound : Nat, free : Nat]] /\ DuplicateNeedsMemo'
    BY <2>1, <2>2, RowStep
  <2>. QED BY <1>2, <2>3 DEF RowsInv, AskShape
<1>. QED BY <1>1, <1>2 DEF getAccountAddress

LEMMA AddUserCoinRows ==
  ASSUME RowsInv, NEW t \in Threads, addUserCoin(t)
  PROVE  RowsInv'
<1>1. ask[t].at = "addUserCoin" /\ ask' = [ask EXCEPT ![t] = Idle]
  BY DEF addUserCoin
<1>2. AskShape'
  BY <1>1, AskStep DEF RowsInv
<1>3. PICK u \in Users : ask[t].user = u
  BY <1>1, WaitingUser, IdleIsNotBusy
<1>4. CASE row' = [row EXCEPT ![u].bound = row[u].bound + 1]
  <2>1. row[u] \in [bound : Nat, free : Nat]
    BY DEF RowsInv
  <2>2. row' = [row EXCEPT ![u] = [row[u] EXCEPT !.bound = row[u].bound + 1]]
    BY <1>4
  <2>3. [row[u] EXCEPT !.bound = row[u].bound + 1]
          = [bound |-> row[u].bound + 1, free |-> row[u].free]
    BY <2>1
  <2>4. /\ row[u].bound + 1 \in Nat /\ row[u].free \in Nat
        /\ row[u].bound + 1 > 0
    BY <2>1
  <2>5. row' \in [Users -> [bound : Nat, free : Nat]] /\ DuplicateNeedsMemo'
    BY <2>2, <2>3, <2>4, RowStep
  <2>. QED BY <1>2, <2>5 DEF RowsInv
<1>5. CASE UNCHANGED row
  BY <1>2, <1>5 DEF RowsInv, DuplicateNeedsMemo, Total
<1>. QED BY <1>3, <1>4, <1>5 DEF addUserCoin

LEMMA ChangeUserCoinRows ==
  ASSUME RowsInv, NEW t \in Threads, NEW u \in Users, changeUserCoin(t, u)
  PROVE  RowsInv'
<1>1. CASE ask' = [ask EXCEPT ![t] = [at |-> "insertAndChange", user |-> u]]
  <2>1. Waiting([at |-> "insertAndChange", user |-> u])
    BY DEF Waiting
  <2>2. AskShape'
    BY <1>1, <2>1, AskStep DEF RowsInv
  <2>. QED BY <2>2 DEF changeUserCoin, RowsInv, DuplicateNeedsMemo, Total
<1>2. CASE UNCHANGED ask
  BY <1>2, RowsSame DEF changeUserCoin
<1>. QED BY <1>1, <1>2 DEF changeUserCoin

LEMMA InsertAndChangeRows ==
  ASSUME RowsInv, NEW t \in Threads, insertAndChange(t)
  PROVE  RowsInv'
<1>1. ask[t].at = "insertAndChange" /\ ask' = [ask EXCEPT ![t] = Idle]
  BY DEF insertAndChange
<1>2. AskShape'
  BY <1>1, AskStep DEF RowsInv
<1>3. PICK u \in Users : ask[t].user = u
  BY <1>1, WaitingUser, IdleIsNotBusy
<1>4. CASE Total(u) = 0 /\ row' = [row EXCEPT ![u].free = 1]
  <2>1. row[u] \in [bound : Nat, free : Nat] /\ row[u].bound = 0
    BY <1>4 DEF RowsInv, Total
  <2>2. row' = [row EXCEPT ![u] = [row[u] EXCEPT !.free = 1]]
    BY <1>4
  <2>3. [row[u] EXCEPT !.free = 1] = [bound |-> 0, free |-> 1]
    BY <2>1
  <2>4. PICK b \in Nat, f \in Nat : b = 0 /\ f = 1 /\ (b + f > 1 => b > 0)
    OBVIOUS
  <2>5. row' = [row EXCEPT ![u] = [bound |-> b, free |-> f]]
    BY <2>2, <2>3, <2>4
  <2>6. row' \in [Users -> [bound : Nat, free : Nat]] /\ DuplicateNeedsMemo'
    BY <2>4, <2>5, RowStep
  <2>. QED BY <1>2, <2>6 DEF RowsInv
<1>5. CASE UNCHANGED row
  BY <1>2, <1>5 DEF RowsInv, DuplicateNeedsMemo, Total
<1>. QED BY <1>3, <1>4, <1>5 DEF insertAndChange

-----------------------------------------------------------------------------
(***************************************************************************)
(* The balances and the records.                                           *)
(***************************************************************************)

LEMMA BooksSame ==
  ASSUME BooksInv, UNCHANGED <<balance, posted, received>> PROVE BooksInv'
  BY DEF BooksInv, BalanceFollowsRecords

LEMMA RecordsFinite ==
  ASSUME BooksInv, NEW u \in Users
  PROVE  /\ IsFiniteSet({x \in DOMAIN received : received[x] = u})
         /\ Cardinality({x \in DOMAIN received : received[x] = u}) \in Nat
<1>1. IsFiniteSet(Trx)
  BY EosAssumption, FS_Interval DEF Trx
<1>2. {x \in DOMAIN received : received[x] = u} \in SUBSET Trx
  BY DEF BooksInv
<1>. QED BY <1>1, <1>2, FS_Subset, FS_CardinalityType

\* Another service posts one unit.
LEMMA PostBooks ==
  ASSUME BooksInv, NEW u \in Users,
         balance' = [balance EXCEPT ![u] = balance[u] + 1],
         posted' = [posted EXCEPT ![u] = posted[u] + 1],
         UNCHANGED received
  PROVE  BooksInv'
<1>1. /\ balance' \in [Users -> Nat] /\ posted' \in [Users -> Nat]
  BY DEF BooksInv
<1>2. ASSUME NEW v \in Users
      PROVE  balance'[v] = posted'[v]
               + Cardinality({x \in DOMAIN received : received[x] = v})
  <2>1. PICK k \in Nat : k = Cardinality({x \in DOMAIN received : received[x] = v})
    BY RecordsFinite
  <2>2. balance[v] = posted[v] + k /\ balance[v] \in Nat /\ posted[v] \in Nat
    BY <2>1 DEF BooksInv, BalanceFollowsRecords
  <2>3. balance'[v] = posted'[v] + k
    BY <2>2 DEF BooksInv
  <2>. QED BY <2>1, <2>3
<1>. QED BY <1>1, <1>2 DEF BooksInv, BalanceFollowsRecords

\* The scanner records a transaction and credits its user with one unit.
LEMMA RecordBooks ==
  ASSUME BooksInv, NEW u \in Users, NEW n \in Trx \ DOMAIN received,
         balance' = [balance EXCEPT ![u] = balance[u] + 1],
         received' = [x \in DOMAIN received \cup {n} |->
                        IF x = n THEN u ELSE received[x]],
         UNCHANGED posted
  PROVE  BooksInv'
<1>1. /\ balance' \in [Users -> Nat]
      /\ DOMAIN received' \subseteq Trx /\ received' \in [DOMAIN received' -> Users]
  BY DEF BooksInv
<1>2. ASSUME NEW v \in Users
      PROVE  balance'[v] = posted[v]
               + Cardinality({x \in DOMAIN received' : received'[x] = v})
  <2>1. PICK R : R = {x \in DOMAIN received : received[x] = v}
    OBVIOUS
  <2>2. PICK k \in Nat : k = Cardinality(R)
    BY <2>1, RecordsFinite
  <2>3. IsFiniteSet(R)
    BY <2>1, RecordsFinite
  <2>4. balance[v] = posted[v] + k /\ balance[v] \in Nat /\ posted[v] \in Nat
    BY <2>1, <2>2 DEF BooksInv, BalanceFollowsRecords
  <2>5. CASE v = u
    <3>1. {x \in DOMAIN received' : received'[x] = v} = R \cup {n}
      BY <2>1, <2>5
    <3>2. n \notin R
      BY <2>1
    <3>3. Cardinality(R \cup {n}) = k + 1
      BY <2>2, <2>3, <3>2, FS_AddElement
    <3>4. balance'[v] = balance[v] + 1
      BY <2>5 DEF BooksInv
    <3>5. balance'[v] = posted[v] + (k + 1)
      BY <2>4, <3>4
    <3>. QED BY <3>1, <3>3, <3>5
  <2>6. CASE v # u
    <3>1. {x \in DOMAIN received' : received'[x] = v} = R
      BY <2>1, <2>6
    <3>2. balance'[v] = balance[v]
      BY <2>6 DEF BooksInv
    <3>. QED BY <2>2, <2>4, <3>1, <3>2
  <2>. QED BY <2>5, <2>6
<1>. QED BY <1>1, <1>2 DEF BooksInv, BalanceFollowsRecords

LEMMA ChangeUserCoinBooks ==
  ASSUME RowsInv, BooksInv, NEW t \in Threads, NEW u \in Users, changeUserCoin(t, u)
  PROVE  BooksInv'
<1>1. CASE UNCHANGED <<balance, posted>>
  BY <1>1, BooksSame DEF changeUserCoin
<1>2. CASE /\ ChangeOneRow(u)
           /\ posted' = [posted EXCEPT ![u] = posted[u] + 1]
  <2>1. balance' = [balance EXCEPT ![u] = balance[u] + 1]
    BY <1>2 DEF ChangeOneRow
  <2>. QED BY <1>2, <2>1, PostBooks DEF changeUserCoin
<1>. QED BY <1>1, <1>2 DEF changeUserCoin

LEMMA InsertAndChangeBooks ==
  ASSUME RowsInv, BooksInv, NEW t \in Threads, insertAndChange(t)
  PROVE  BooksInv'
<1>1. PICK u \in Users : ask[t].user = u
  BY WaitingUser, IdleIsNotBusy DEF insertAndChange
<1>2. CASE /\ balance' = [balance EXCEPT ![u] = balance[u] + 1]
           /\ posted' = [posted EXCEPT ![u] = posted[u] + 1]
  BY <1>2, PostBooks DEF insertAndChange
<1>3. CASE UNCHANGED <<balance, posted>>
  BY <1>3, BooksSame DEF insertAndChange
<1>. QED BY <1>1, <1>2, <1>3 DEF insertAndChange

-----------------------------------------------------------------------------
(***************************************************************************)
(* The list and the scanner.                                               *)
(***************************************************************************)

\* An action of a sequence of actions.
LEMMA ActionType ==
  ASSUME PagesInv, NEW i \in 1 .. Len(actions)
  PROVE  /\ actions[i].trx \in Trx /\ actions[i].user \in Users \cup {Nobody}
         /\ Len(actions) \in Nat
<1>1. actions[i] \in Action /\ Len(actions) \in Nat
  BY DEF PagesInv
<1>. QED BY <1>1 DEF Action

\* What is covered stays covered while the list only grows.
LEMMA CoveredStays ==
  ASSUME NEW i \in 1 .. Len(actions), Len(actions) \in Nat, Covered(i),
         \A j \in 1 .. Len(actions) : actions'[j] = actions[j],
         unknown \subseteq unknown', DOMAIN received \subseteq DOMAIN received'
  PROVE  Covered(i)'
<1>1. actions'[i] = actions[i]
  OBVIOUS
<1>2. ASSUME NEW j \in 1 .. i - 1 PROVE actions'[j] = actions[j]
  <2>1. j \in 1 .. Len(actions)
    OBVIOUS
  <2>. QED BY <2>1
<1>3. Shadowed(i) => Shadowed(i)'
  BY <1>1, <1>2 DEF Shadowed
<1>. QED BY <1>1, <1>3 DEF Covered

LEMMA PagesSame ==
  ASSUME PagesInv, UNCHANGED <<actions, cursor, scan, received, unknown, forked>>
  PROVE  PagesInv'
  BY DEF PagesInv, PageShape, CursorCoversAll, PageCovers, Covered, Shadowed

\* The scanner gives its page up and will read it again.
LEMMA PageGivenUp ==
  ASSUME PagesInv, scan' = AtRest,
         UNCHANGED <<actions, cursor, received, unknown, forked>>
  PROVE  PagesInv'
  BY DEF PagesInv, PageShape, CursorCoversAll, PageCovers, Covered, Shadowed

\* An action that is not kept stands behind a kept one of its transaction.
LEMMA RemoveDuplicate ==
  ASSUME PagesInv, NEW last \in Nat, last <= Len(actions),
         NEW i \in cursor + 1 .. last
  PROVE  \/ i \in removeDuplicate(cursor + 1 .. last)
         \/ \E j \in removeDuplicate(cursor + 1 .. last) :
              j < i /\ actions[j].trx = actions[i].trx
<1>. DEFINE page == cursor + 1 .. last
            T == {j \in page : actions[j].trx = actions[i].trx}
<1>1. cursor \in Nat
  BY EosAssumption DEF PagesInv
<1>2. T \subseteq Nat /\ i \in T
  BY <1>1
<1>3. PICK n \in T : \A m \in T : n <= m
  <2>. HIDE DEF T
  <2>. QED BY <1>2, LeastNumber
<1>4. n \in page /\ actions[n].trx = actions[i].trx
  BY <1>3
<1>5. ASSUME NEW j \in page, j < n
      PROVE  actions[j].trx # actions[n].trx
  <2>1. ~(n <= j)
    BY <1>1, <1>5
  <2>. QED BY <1>3, <1>4, <2>1
<1>6. n \in removeDuplicate(page)
  BY <1>4, <1>5 DEF removeDuplicate
<1>7. n <= i
  BY <1>2, <1>3
<1>8. n = i \/ n < i
  BY <1>1, <1>4, <1>7
<1>. QED BY <1>4, <1>6, <1>8

LEMMA GetActionsPages == ASSUME PagesInv, getActions PROVE PagesInv'
<1>1. PICK last \in cursor + 1 .. cursor + Page :
        /\ last <= Len(actions)
        /\ scan' = [at |-> "page", last |-> last,
                    todo |-> [i \in removeDuplicate(cursor + 1 .. last) |-> actions[i]]]
  BY DEF getActions
<1>2. /\ UNCHANGED <<actions, cursor, received, unknown, forked>>
      /\ cursor \in Nat /\ last \in Nat /\ last <= MaxActions
      /\ Len(actions) \in Nat /\ actions \in Seq(Action)
  BY <1>1, EosAssumption DEF getActions, PagesInv
<1>. DEFINE D == removeDuplicate(cursor + 1 .. last)
            todo == [i \in D |-> actions[i]]
<1>3. D \subseteq cursor + 1 .. last
  BY DEF removeDuplicate
<1>4. ASSUME NEW i \in cursor + 1 .. last
      PROVE  i \in D \/ \E j \in D : j < i /\ actions[j].trx = actions[i].trx
  BY <1>1, <1>2, RemoveDuplicate
<1>. HIDE DEF D
<1>5. ASSUME NEW i \in D PROVE actions[i] \in Action
  BY <1>1, <1>2, <1>3
<1>6. scan' = [at |-> "page", last |-> last, todo |-> todo]
  BY <1>1 DEF D
<1>7. /\ DOMAIN todo = D /\ todo \in [D -> Action]
      /\ \A i \in D : todo[i] = actions[i]
  BY <1>5
<1>. HIDE DEF todo
<1>8. PageShape'
  <2>1. scan'.last = last /\ scan'.todo = todo
    BY <1>6
  <2>2. ~forked' => last <= Len(actions')
    BY <1>1, <1>2
  <2>3. DOMAIN scan'.todo \subseteq cursor' + 1 .. last
    BY <1>2, <1>3, <1>7, <2>1
  <2>4. scan'.todo \in [DOMAIN scan'.todo -> Action]
    BY <1>7, <2>1
  <2>. QED BY <1>1, <1>2, <1>6, <2>1, <2>2, <2>3, <2>4 DEF PageShape
<1>9. PageCovers'
  BY <1>2, <1>4, <1>6, <1>7 DEF PageCovers
<1>10. CursorCoversAll'
  BY <1>2 DEF PagesInv, CursorCoversAll, Covered, Shadowed
<1>. QED BY <1>2, <1>8, <1>9, <1>10 DEF PagesInv

\* The next action of the page is one of it.
LEMMA NextOfPage ==
  ASSUME PagesInv, scan # AtRest, DOMAIN scan.todo # {}
  PROVE  /\ NextInPage \in DOMAIN scan.todo
         /\ NextInPage \in 1 .. MaxActions
         /\ ~forked => NextInPage \in 1 .. Len(actions)
         /\ scan.todo[NextInPage] \in Action
         /\ ~forked => scan.todo[NextInPage] = actions[NextInPage]
<1>1. /\ DOMAIN scan.todo \subseteq cursor + 1 .. scan.last
      /\ scan.last \in Int /\ scan.last <= MaxActions
      /\ ~forked => scan.last <= Len(actions)
      /\ cursor \in Nat /\ Len(actions) \in Nat
      /\ scan.todo \in [DOMAIN scan.todo -> Action]
  BY EosAssumption DEF PagesInv, PageShape
<1>2. DOMAIN scan.todo \subseteq Nat
  BY <1>1
<1>3. \E n \in DOMAIN scan.todo : \A m \in DOMAIN scan.todo : n <= m
  BY <1>2, LeastNumber
<1>4. NextInPage \in DOMAIN scan.todo
  BY <1>3 DEF NextInPage, Min
<1>5. ~forked => scan.todo[NextInPage] = actions[NextInPage]
  BY <1>4 DEF PagesInv, PageCovers
<1>. QED BY <1>1, <1>4, <1>5, EosAssumption

\* One action of the page is done with, and its transaction is owed nothing.
LEMMA PageTurn ==
  ASSUME PagesInv, scan # AtRest, DOMAIN scan.todo # {}, scan' = Rest,
         UNCHANGED <<actions, cursor, forked>>,
         unknown \subseteq unknown', unknown' \subseteq 1 .. MaxActions,
         DOMAIN received \subseteq DOMAIN received',
         ~forked => \/ actions[NextInPage].user = Nobody
                    \/ NextInPage \in unknown'
                    \/ actions[NextInPage].trx \in DOMAIN received'
  PROVE  PagesInv'
<1>. DEFINE n == NextInPage
            D == DOMAIN scan.todo \ {n}
            todo == [i \in D |-> scan.todo[i]]
<1>1. /\ n \in DOMAIN scan.todo /\ (~forked => n \in 1 .. Len(actions))
  BY NextOfPage
<1>2. scan' = [at |-> "page", last |-> scan.last, todo |-> todo]
  <2>1. scan' = [scan EXCEPT !.todo = todo]
    BY DEF Rest
  <2>2. PICK k, td : scan = [at |-> "page", last |-> k, todo |-> td]
    BY DEF PagesInv, PageShape
  <2>. HIDE DEF todo
  <2>. QED BY <2>1, <2>2
<1>3. DOMAIN todo = D /\ \A i \in D : todo[i] = scan.todo[i]
  OBVIOUS
<1>4. todo \in [D -> Action]
  BY DEF PagesInv, PageShape
<1>. HIDE DEF todo
<1>5. PageShape'
  BY <1>2, <1>3, <1>4 DEF PagesInv, PageShape
<1>6. Len(actions) \in Nat /\ cursor \in Nat
      /\ (~forked => scan.last \in 1 .. Len(actions))
      /\ (~forked => cursor <= Len(actions))
  BY EosAssumption DEF PagesInv, PageShape
<1>7. ASSUME NEW i \in 1 .. Len(actions), Covered(i) PROVE Covered(i)'
  BY <1>6, <1>7, CoveredStays
<1>8. CursorCoversAll'
  BY <1>6, <1>7 DEF PagesInv, CursorCoversAll
<1>. HIDE DEF n
<1>9. ASSUME ~forked, NEW i \in 1 .. Len(actions), i = n \/ n < i,
             actions[i].trx = actions[n].trx
      PROVE  Covered(i)'
  <2>1. CASE actions[n].trx \in DOMAIN received'
    BY <1>9, <2>1 DEF Covered
  <2>2. CASE actions[n].user = Nobody \/ n \in unknown'
    <3>1. CASE i = n
      BY <2>2, <3>1 DEF Covered
    <3>2. CASE n < i
      <4>1. n \in 1 .. i - 1
        BY <1>1, <1>6, <1>9, <3>2
      <4>. QED BY <1>9, <2>2, <4>1 DEF Covered, Shadowed
    <3>. QED BY <1>9, <3>1, <3>2
  <2>. QED BY <1>9, <2>1, <2>2 DEF n
<1>10. ASSUME ~forked, NEW i \in cursor + 1 .. scan.last
       PROVE  \/ i \in D
              \/ Covered(i)'
              \/ \E j \in D : j < i /\ actions[j].trx = actions[i].trx
  <2>1. i \in 1 .. Len(actions)
    BY <1>6, <1>10
  <2>2. CASE i \in DOMAIN scan.todo
    BY <1>9, <1>10, <2>1, <2>2
  <2>3. CASE Covered(i)
    BY <1>7, <2>1, <2>3
  <2>4. ASSUME NEW j \in DOMAIN scan.todo, j < i, actions[j].trx = actions[i].trx
        PROVE  \/ Covered(i)'
               \/ \E k \in D : k < i /\ actions[k].trx = actions[i].trx
    BY <1>9, <1>10, <2>1, <2>4
  <2>. QED BY <1>10, <2>2, <2>3, <2>4 DEF PagesInv, PageCovers
<1>11. PageCovers'
  <2>1. ASSUME ~forked, NEW i \in D PROVE todo[i] = actions[i]
    BY <1>3, <2>1 DEF PagesInv, PageCovers
  <2>. QED BY <1>2, <1>3, <1>10, <2>1 DEF PageCovers
<1>. QED BY <1>5, <1>8, <1>11 DEF PagesInv

LEMMA SkipActionPages == ASSUME PagesInv, skipAction PROVE PagesInv'
<1>1. /\ scan # AtRest /\ DOMAIN scan.todo # {} /\ scan' = Rest
      /\ UNCHANGED <<actions, cursor, forked, received>>
      /\ unknown' = IF scan.todo[NextInPage].user = Nobody THEN unknown
                    ELSE unknown \cup {NextInPage}
  BY DEF skipAction
<1>2. /\ NextInPage \in 1 .. MaxActions
      /\ ~forked => scan.todo[NextInPage] = actions[NextInPage]
  BY <1>1, NextOfPage
<1>3. /\ unknown \subseteq unknown' /\ unknown' \subseteq 1 .. MaxActions
      /\ ~forked => actions[NextInPage].user = Nobody \/ NextInPage \in unknown'
  BY <1>1, <1>2 DEF PagesInv
<1>. QED BY <1>1, <1>3, PageTurn

LEMMA CreditActionInv ==
  ASSUME RowsInv, BooksInv, PagesInv, creditAction
  PROVE  BooksInv' /\ PagesInv'
<1>1. PICK a : a = scan.todo[NextInPage]
  OBVIOUS
<1>2. /\ scan # AtRest /\ DOMAIN scan.todo # {} /\ scan' = Rest
      /\ UNCHANGED <<posted, cursor, actions, unknown, forked>>
      /\ a.user # Nobody
      /\ IF isTransactionExist(a.trx) THEN UNCHANGED <<balance, received>>
         ELSE addTransaction(a)
  BY <1>1 DEF creditAction
<1>3. /\ a \in Action
      /\ ~forked => a = actions[NextInPage]
  BY <1>1, <1>2, NextOfPage
<1>4. PICK u \in Users, n \in Trx : a.user = u /\ a.trx = n
  BY <1>2, <1>3 DEF Action
<1>5. ASSUME UNCHANGED <<balance, received>>
      PROVE  BooksInv'
  BY <1>2, <1>4, <1>5, BooksSame
<1>6. ASSUME addTransaction(a), n \notin DOMAIN received
      PROVE  BooksInv'
  <2>1. /\ balance' = [balance EXCEPT ![u] = balance[u] + 1]
        /\ received' = [x \in DOMAIN received \cup {n} |->
                          IF x = n THEN u ELSE received[x]]
    BY <1>4, <1>6 DEF addTransaction, ChangeOneRow
  <2>. QED BY <1>2, <1>6, <2>1, RecordBooks
<1>7. /\ BooksInv'
      /\ DOMAIN received \subseteq DOMAIN received' /\ n \in DOMAIN received'
  <2>1. \/ UNCHANGED <<balance, received>> /\ n \in DOMAIN received
        \/ addTransaction(a) /\ n \notin DOMAIN received
    BY <1>2, <1>4 DEF isTransactionExist
  <2>2. addTransaction(a) => DOMAIN received' = DOMAIN received \cup {n}
    BY <1>4 DEF addTransaction
  <2>. QED BY <1>5, <1>6, <2>1, <2>2
<1>8. ~forked => actions[NextInPage].trx \in DOMAIN received'
  BY <1>3, <1>4, <1>7
<1>9. unknown \subseteq unknown' /\ unknown' \subseteq 1 .. MaxActions
  BY <1>2 DEF PagesInv
<1>10. PagesInv'
  BY <1>2, <1>7, <1>8, <1>9, PageTurn
<1>. QED BY <1>7, <1>10

LEMMA EndPagePages == ASSUME PagesInv, endPage PROVE PagesInv'
<1>1. /\ scan # AtRest /\ DOMAIN scan.todo = {}
      /\ cursor' = scan.last /\ scan' = AtRest
      /\ UNCHANGED <<actions, received, unknown, forked>>
  BY DEF endPage
<1>2. /\ scan.last \in cursor + 1 .. cursor + Page /\ scan.last <= MaxActions
      /\ (~forked => scan.last <= Len(actions)) /\ cursor \in Nat
      /\ MaxActions \in Nat /\ Page \in Nat
  BY <1>1, EosAssumption DEF PagesInv, PageShape
<1>3. cursor' \in 0 .. MaxActions /\ (~forked => cursor' <= Len(actions))
  BY <1>1, <1>2
<1>4. ASSUME ~forked, NEW i \in 1 .. Len(actions), i <= cursor'
      PROVE  Covered(i)
  <2>1. CASE i <= cursor
    BY <1>4, <2>1 DEF PagesInv, CursorCoversAll
  <2>2. CASE ~(i <= cursor)
    <3>1. i \in cursor + 1 .. scan.last
      BY <1>1, <1>2, <1>4, <2>2
    <3>. QED BY <1>1, <1>4, <3>1 DEF PagesInv, PageCovers
  <2>. QED BY <2>1, <2>2
<1>5. CursorCoversAll'
  BY <1>1, <1>4 DEF CursorCoversAll, Covered, Shadowed
<1>6. PageShape' /\ PageCovers'
  BY <1>1 DEF PageShape, PageCovers
<1>. QED BY <1>1, <1>3, <1>5, <1>6 DEF PagesInv

LEMMA PayPages ==
  ASSUME PagesInv, NEW a \in Action, Pay(a)
  PROVE  PagesInv'
<1>1. /\ Len(actions) < MaxActions /\ actions' = Append(actions, a)
      /\ UNCHANGED <<received, cursor, scan, unknown, forked>>
  BY DEF Pay
<1>2. /\ actions \in Seq(Action) /\ Len(actions) \in Nat /\ cursor \in Nat
      /\ (~forked => cursor <= Len(actions))
      /\ scan # AtRest => scan.last \in Int /\ (~forked => scan.last <= Len(actions))
  BY EosAssumption DEF PagesInv, PageShape
<1>3. /\ actions' \in Seq(Action) /\ Len(actions') = Len(actions) + 1
      /\ \A j \in 1 .. Len(actions) : actions'[j] = actions[j]
  BY <1>1, <1>2, AppendProperties
<1>4. ASSUME NEW i \in 1 .. Len(actions), Covered(i) PROVE Covered(i)'
  BY <1>1, <1>2, <1>3, <1>4, CoveredStays
<1>5. CursorCoversAll'
  <2>. SUFFICES ASSUME ~forked, NEW i \in 1 .. Len(actions'), i <= cursor
                PROVE  Covered(i)'
    BY <1>1 DEF CursorCoversAll
  <2>1. i \in 1 .. Len(actions)
    BY <1>2, <1>3
  <2>2. Covered(i)
    BY <2>1 DEF PagesInv, CursorCoversAll
  <2>. QED BY <1>4, <2>1, <2>2
<1>6. PageCovers'
  <2>. SUFFICES ASSUME ~forked, scan # AtRest
                PROVE  /\ \A i \in DOMAIN scan.todo : scan.todo[i] = actions'[i]
                       /\ \A i \in cursor + 1 .. scan.last :
                            \/ i \in DOMAIN scan.todo
                            \/ Covered(i)'
                            \/ \E j \in DOMAIN scan.todo :
                                 j < i /\ actions'[j].trx = actions'[i].trx
    BY <1>1 DEF PageCovers
  <2>1. \A i \in cursor + 1 .. scan.last : i \in 1 .. Len(actions)
    BY <1>2
  <2>2. DOMAIN scan.todo \subseteq cursor + 1 .. scan.last
    BY DEF PagesInv, PageShape
  <2>3. \A i \in cursor + 1 .. scan.last : actions'[i] = actions[i]
    BY <1>3, <2>1
  <2>4. ASSUME NEW i \in DOMAIN scan.todo PROVE scan.todo[i] = actions'[i]
    BY <2>2, <2>3 DEF PagesInv, PageCovers
  <2>5. ASSUME NEW i \in cursor + 1 .. scan.last
        PROVE  \/ i \in DOMAIN scan.todo
               \/ Covered(i)'
               \/ \E j \in DOMAIN scan.todo :
                    j < i /\ actions'[j].trx = actions'[i].trx
    <3>1. \/ i \in DOMAIN scan.todo
          \/ Covered(i)
          \/ \E j \in DOMAIN scan.todo : j < i /\ actions[j].trx = actions[i].trx
      BY DEF PagesInv, PageCovers
    <3>. QED BY <1>4, <2>1, <2>2, <2>3, <3>1
  <2>. QED BY <2>4, <2>5
<1>7. PageShape'
  BY <1>1, <1>2, <1>3 DEF PagesInv, PageShape
<1>8. Len(actions') <= MaxActions /\ (~forked => cursor <= Len(actions'))
  BY <1>1, <1>2, <1>3, EosAssumption
<1>. QED BY <1>1, <1>3, <1>5, <1>6, <1>7, <1>8 DEF PagesInv

LEMMA ForkPages == ASSUME PagesInv, Fork PROVE PagesInv'
<1>1. /\ Len(actions) > 0
      /\ actions' = SubSeq(actions, 1, Len(actions) - 1) /\ forked' = TRUE
      /\ UNCHANGED <<received, cursor, scan, unknown>>
  BY DEF Fork
<1>2. actions \in Seq(Action) /\ Len(actions) \in Nat /\ Len(actions) <= MaxActions
  BY DEF PagesInv
<1>3. \A i \in 1 .. Len(actions) - 1 : actions[i] \in Action
  BY <1>2
<1>4. actions' \in Seq(Action) /\ Len(actions') <= Len(actions)
  BY <1>1, <1>2, <1>3, SubSeqProperties
<1>5. Len(actions') <= MaxActions
  BY <1>2, <1>4, EosAssumption
<1>6. PageShape' /\ CursorCoversAll' /\ PageCovers'
  BY <1>1 DEF PagesInv, PageShape, CursorCoversAll, PageCovers
<1>. QED BY <1>1, <1>4, <1>5, <1>6 DEF PagesInv

-----------------------------------------------------------------------------
(***************************************************************************)
(* The steps, together.                                                    *)
(***************************************************************************)

LEMMA InitInv == Init => Inv
<1>. SUFFICES ASSUME Init PROVE Inv
  OBVIOUS
<1>1. RowsInv
  BY DEF Init, RowsInv, AskShape, DuplicateNeedsMemo, Total
<1>2. PagesInv
  <2>1. actions \in Seq(Action) /\ Len(actions) = 0 /\ cursor = 0
    BY DEF Init
  <2>2. Len(actions) <= MaxActions /\ cursor \in 0 .. MaxActions
        /\ cursor <= Len(actions)
    BY <2>1, EosAssumption
  <2>3. CursorCoversAll
    BY <2>1 DEF CursorCoversAll
  <2>4. PageShape /\ PageCovers /\ unknown \subseteq 1 .. MaxActions
        /\ forked \in BOOLEAN
    BY DEF Init, PageShape, PageCovers
  <2>. QED BY <2>1, <2>2, <2>3, <2>4 DEF PagesInv
<1>3. BooksInv
  <2>1. ASSUME NEW u \in Users
        PROVE  Cardinality({x \in DOMAIN received : received[x] = u}) = 0
    <3>1. {x \in DOMAIN received : received[x] = u} = {}
      BY DEF Init
    <3>. QED BY <3>1, FS_EmptySet
  <2>2. BalanceFollowsRecords
    BY <2>1 DEF Init, BalanceFollowsRecords
  <2>. QED BY <2>2 DEF Init, BooksInv
<1>4. CountsInv
  BY EosAssumption DEF Init, CountsInv
<1>. QED BY <1>1, <1>2, <1>3, <1>4 DEF Inv

LEMMA ThreadInv ==
  ASSUME Inv, NEW t \in Threads,
         \/ \E u \in Users : getAccountAddress(t, u) \/ changeUserCoin(t, u)
         \/ addUserCoin(t)
         \/ insertAndChange(t)
  PROVE  Inv'
<1>1. UNCHANGED <<actions, cursor, scan, received, unknown, forked, faults>>
  BY DEF getAccountAddress, changeUserCoin, addUserCoin, insertAndChange
<1>2. PagesInv'
  BY <1>1, PagesSame DEF Inv
<1>3. CountsInv'
  BY <1>1, EosAssumption DEF Inv, CountsInv, getAccountAddress, changeUserCoin,
                         addUserCoin, insertAndChange, Request
<1>4. ASSUME NEW u \in Users, getAccountAddress(t, u)
      PROVE  RowsInv' /\ BooksInv'
  <2>1. UNCHANGED <<balance, posted, received>>
    BY <1>4 DEF getAccountAddress
  <2>. QED BY <1>4, <2>1, GetAccountAddressRows, BooksSame DEF Inv
<1>5. ASSUME NEW u \in Users, changeUserCoin(t, u)
      PROVE  RowsInv' /\ BooksInv'
  BY <1>5, ChangeUserCoinRows, ChangeUserCoinBooks DEF Inv
<1>6. ASSUME addUserCoin(t)
      PROVE  RowsInv' /\ BooksInv'
  <2>1. UNCHANGED <<balance, posted, received>>
    BY <1>6 DEF addUserCoin
  <2>. QED BY <1>6, <2>1, AddUserCoinRows, BooksSame DEF Inv
<1>7. ASSUME insertAndChange(t)
      PROVE  RowsInv' /\ BooksInv'
  BY <1>7, InsertAndChangeRows, InsertAndChangeBooks DEF Inv
<1>. QED BY <1>2, <1>3, <1>4, <1>5, <1>6, <1>7 DEF Inv

LEMMA ScanInv == ASSUME Inv, Scan PROVE Inv'
<1>1. UNCHANGED <<row, ask, requests, faults>>
  BY DEF Scan, getActions, skipAction, creditAction, twoRows, endPage
<1>2. RowsInv' /\ CountsInv'
  BY <1>1, RowsSame DEF Inv, CountsInv
<1>3. CASE creditAction
  BY <1>2, <1>3, CreditActionInv DEF Inv
<1>4. ASSUME getActions \/ skipAction \/ twoRows \/ endPage
      PROVE  UNCHANGED <<balance, posted, received>>
  BY <1>4 DEF getActions, skipAction, twoRows, endPage
<1>5. CASE getActions
  BY <1>2, <1>4, <1>5, GetActionsPages, BooksSame DEF Inv
<1>6. CASE skipAction
  BY <1>2, <1>4, <1>6, SkipActionPages, BooksSame DEF Inv
<1>7. CASE twoRows
  <2>1. PagesInv'
    BY <1>7, PageGivenUp DEF Inv, twoRows
  <2>. QED BY <1>2, <1>4, <1>7, <2>1, BooksSame DEF Inv
<1>8. CASE endPage
  BY <1>2, <1>4, <1>8, EndPagePages, BooksSame DEF Inv
<1>. QED BY <1>3, <1>5, <1>6, <1>7, <1>8 DEF Scan

LEMMA NextInv == Inv /\ [Next]_vars => Inv'
<1>. SUFFICES ASSUME Inv, [Next]_vars PROVE Inv'
  OBVIOUS
<1>1. CASE Scan
  BY <1>1, ScanInv
<1>2. ASSUME NEW t \in Threads,
             \/ \E u \in Users : getAccountAddress(t, u) \/ changeUserCoin(t, u)
             \/ addUserCoin(t)
             \/ insertAndChange(t)
      PROVE  Inv'
  BY <1>2, ThreadInv
<1>3. ASSUME NEW a \in Action, Pay(a)
      PROVE  Inv'
  <2>1. UNCHANGED <<row, ask, balance, posted, received, requests, faults>>
    BY <1>3 DEF Pay
  <2>. QED BY <1>3, <2>1, PayPages, RowsSame, BooksSame DEF Inv, CountsInv
<1>4. CASE Fork
  <2>1. UNCHANGED <<row, ask, balance, posted, received, requests>>
    BY <1>4 DEF Fork
  <2>2. CountsInv'
    BY <1>4, EosAssumption DEF Fork, Inv, CountsInv
  <2>. QED BY <1>4, <2>1, <2>2, ForkPages, RowsSame, BooksSame DEF Inv
<1>5. CASE Fault
  <2>1. /\ UNCHANGED <<row, ask, balance, posted, received, requests>>
        /\ scan' = AtRest
        /\ UNCHANGED <<actions, cursor, received, unknown, forked>>
    BY <1>5 DEF Fault
  <2>2. CountsInv'
    BY <1>5, EosAssumption DEF Fault, Inv, CountsInv
  <2>. QED BY <2>1, <2>2, PageGivenUp, RowsSame, BooksSame DEF Inv
<1>6. CASE UNCHANGED vars
  <2>1. /\ UNCHANGED <<row, ask>> /\ UNCHANGED <<balance, posted, received>>
        /\ UNCHANGED <<actions, cursor, scan, received, unknown, forked>>
        /\ UNCHANGED <<requests, faults>>
    BY <1>6 DEF vars
  <2>. QED BY <2>1, RowsSame, BooksSame, PagesSame DEF Inv, CountsInv
<1>. QED BY <1>1, <1>2, <1>3, <1>4, <1>5, <1>6 DEF Next

-----------------------------------------------------------------------------
(***************************************************************************)
(* The theorems.                                                           *)
(***************************************************************************)

\* The tables, the scanner and the requests keep their types; without forks
\* the cursor stays within the action list.
THEOREM TypeCorrect == Spec => []TypeOK
<1>1. Inv => TypeOK
  BY InvImplies
<1>. QED BY <1>1, InitInv, NextInv, PTL DEF Spec

\* A user's balance is what other services posted plus one payment per
\* recorded transaction of his: no page that is read again, no fork and no
\* second row credits a transaction twice, or one without a record.
THEOREM BalanceCorrect == Spec => []BalanceFollowsRecords
<1>1. Inv => BalanceFollowsRecords
  BY InvImplies
<1>. QED BY <1>1, InitInv, NextInv, PTL DEF Spec

\* Without forks the cursor passes no deposit whose transaction was not
\* credited, but for those whose user was unknown and those behind another
\* action of their transaction.
THEOREM CursorCorrect == Spec => []CursorCovers
<1>1. Inv => CursorCovers
  BY InvImplies
<1>. QED BY <1>1, InitInv, NextInv, PTL DEF Spec

\* changeUserCoin alone never leaves two rows of a user, however many threads
\* credit him at once: one of two rows always has a memo.
THEOREM DuplicateCorrect == Spec => []DuplicateNeedsMemo
<1>1. Inv => DuplicateNeedsMemo
  BY InvImplies
<1>. QED BY <1>1, InitInv, NextInv, PTL DEF Spec
=============================================================================
