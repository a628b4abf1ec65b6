-------------------------- MODULE PlatOrderProofs ---------------------------
(***************************************************************************)
(* Proofs about PlatOrder for every set of users, every set of order       *)
(* identifiers, every bound on the amounts and every start balance.        *)
(***************************************************************************)
EXTENDS PlatOrder, SumTheorems, TLAPS

\* What changeUserCoin leaves behind is again three non-negative balances.
LEMMA ChangeKeepsBalance ==
  ASSUME NEW b \in Balance, NEW dA \in Int, NEW dF \in Int, NEW dW \in Int,
         CanChange(b, dA, dF, dW)
  PROVE  Change(b, dA, dF, dW) \in Balance
BY DEF Balance, CanChange, Change

\* The ledger part of a step for one order keeps the types of the ledger.
LEMMA ChangeForType ==
  ASSUME TypeOK, NEW o \in Orders, NEW u \in Users,
         NEW dA \in Int, NEW dF \in Int, ChangeFor(o, u, dA, dF)
  PROVE  /\ coin' \in [Users -> Balance]
         /\ bill' \in [Orders -> Bill]
         /\ bill'[o] = [available |-> bill[o].available + dA,
                        freeze |-> bill[o].freeze + dF]
         /\ \A x \in Orders : x # o => bill'[x] = bill[x]
<1>1. Change(coin[u], dA, dF, 0) \in Balance
  BY ChangeKeepsBalance DEF TypeOK, ChangeFor
<1>2. coin' \in [Users -> Balance]
  BY <1>1 DEF TypeOK, ChangeFor
<1>3. bill[o] \in Bill
  BY DEF TypeOK
<1>4. [available |-> bill[o].available + dA,
       freeze |-> bill[o].freeze + dF] \in Bill
  BY <1>3 DEF Bill
<1>. QED BY <1>2, <1>4 DEF TypeOK, ChangeFor

\* A status update keeps the table well formed and touches one row.
LEMMA SetStatusRow ==
  ASSUME TypeOK, NEW o \in DOMAIN order, NEW s \in Status, SetStatus(o, s)
  PROVE  /\ DOMAIN order' = DOMAIN order
         /\ order' \in [DOMAIN order' -> Row]
         /\ order'[o] = [order[o] EXCEPT !.status = s]
         /\ order'[o] \in Row
         /\ order'[o].status = s
         /\ order'[o].type = order[o].type
         /\ order'[o].amount = order[o].amount
         /\ \A x \in DOMAIN order : x # o => order'[x] = order[x]
<1>1. order[o] \in Row
  BY DEF TypeOK
<1>2. [order[o] EXCEPT !.status = s] \in Row
  BY <1>1 DEF Row
<1>3. order' = [order EXCEPT ![o] = [order[o] EXCEPT !.status = s]]
  BY DEF SetStatus
<1>. QED BY <1>1, <1>2, <1>3 DEF TypeOK, Row

\* An insertion adds one ACCEPTED row.
LEMMA InsertRow ==
  ASSUME TypeOK, NEW o, NEW u \in Users, NEW t \in {"BUY", "SELL"},
         NEW a \in 1 .. MaxAmount, Insert(o, u, t, a)
  PROVE  /\ o \in Orders \ DOMAIN order
         /\ DOMAIN order' = DOMAIN order \cup {o}
         /\ order' \in [DOMAIN order' -> Row]
         /\ order'[o] = [status |-> "ACCEPTED", type |-> t, user |-> u,
                         amount |-> a]
         /\ \A x \in DOMAIN order : order'[x] = order[x]
BY DEF TypeOK, Insert, Row, Status

\* The inductive invariant.
Inv == TypeOK /\ BillsMatchStatus

\* If a step leaves every order but o alone, the invariant after the step
\* is a statement about o only.
LEMMA OneOrder ==
  ASSUME Inv, NEW o \in Orders, TypeOK',
         o \in DOMAIN order',
         DOMAIN order \subseteq DOMAIN order',
         DOMAIN order' \subseteq DOMAIN order \cup {o},
         \A x \in DOMAIN order : x # o => order'[x] = order[x],
         \A x \in Orders : x # o => bill'[x] = bill[x],
         bill'[o] = Owed(order'[o])
  PROVE  Inv'
BY DEF Inv, BillsMatchStatus, TypeOK

LEMMA InitInv == Init => Inv
<1>. SUFFICES ASSUME Init PROVE Inv
  OBVIOUS
<1>1. EmptyRow \in Balance /\ [EmptyRow EXCEPT !.available = InitBalance] \in Balance
  BY PlatAssumption DEF EmptyRow, Balance
<1>2. DOMAIN order = {}
  BY DEF Init
<1>3. order \in [{} -> Row]
  BY DEF Init
<1>4. NoBill \in Bill
  BY DEF NoBill, Bill
<1>5. TypeOK
  BY <1>1, <1>2, <1>3, <1>4 DEF Init, TypeOK
<1>6. BillsMatchStatus
  BY <1>2 DEF Init, BillsMatchStatus
<1>. QED BY <1>5, <1>6 DEF Inv

-----------------------------------------------------------------------------
(***************************************************************************)
(* One lemma per operation: it keeps the invariant.                        *)
(***************************************************************************)

LEMMA DepositInv ==
  ASSUME Inv, NEW u \in Users, NEW o \in Orders, NEW a \in 0 .. MaxAmount,
         deposit(u, o, a)
  PROVE  Inv'
<1>1. a \in 1 .. MaxAmount /\ Insert(o, u, "BUY", a)
  BY PlatAssumption DEF deposit
<1>2. /\ o \in Orders \ DOMAIN order
      /\ DOMAIN order' = DOMAIN order \cup {o}
      /\ order' \in [DOMAIN order' -> Row]
      /\ order'[o] = [status |-> "ACCEPTED", type |-> "BUY", user |-> u,
                      amount |-> a]
      /\ \A x \in DOMAIN order : order'[x] = order[x]
  BY <1>1, InsertRow DEF Inv
<1>3. TypeOK'
  BY <1>2 DEF Inv, TypeOK, deposit
<1>4. bill'[o] = NoBill
  BY <1>2 DEF Inv, BillsMatchStatus, deposit
<1>5. Owed(order'[o]) = NoBill
  BY <1>2 DEF Owed, Open, NoBill
<1>6. \A x \in Orders : x # o => bill'[x] = bill[x]
  BY DEF deposit
<1>. QED BY <1>2, <1>3, <1>4, <1>5, <1>6, OneOrder

LEMMA WithdrawInv ==
  ASSUME Inv, NEW u \in Users, NEW o \in Orders, NEW a \in 0 .. MaxAmount,
         withdraw(u, o, a)
  PROVE  Inv'
<1>1. a \in 1 .. MaxAmount /\ Insert(o, u, "SELL", a)
  BY PlatAssumption DEF withdraw
<1>2. /\ o \in Orders \ DOMAIN order
      /\ DOMAIN order' = DOMAIN order \cup {o}
      /\ order' \in [DOMAIN order' -> Row]
      /\ order'[o] = [status |-> "ACCEPTED", type |-> "SELL", user |-> u,
                      amount |-> a]
      /\ \A x \in DOMAIN order : order'[x] = order[x]
  BY <1>1, InsertRow DEF Inv
<1>3. /\ coin' \in [Users -> Balance]
      /\ bill' \in [Orders -> Bill]
      /\ bill'[o] = [available |-> bill[o].available + (0 - a),
                     freeze |-> bill[o].freeze + a]
      /\ \A x \in Orders : x # o => bill'[x] = bill[x]
  BY <1>1, ChangeForType, PlatAssumption DEF Inv, withdraw
<1>4. TypeOK'
  BY <1>2, <1>3 DEF Inv, TypeOK, withdraw
<1>5. bill[o] = NoBill
  BY <1>2 DEF Inv, BillsMatchStatus
<1>6. bill'[o] = [available |-> 0 - a, freeze |-> a]
  BY <1>1, <1>3, <1>5 DEF NoBill
<1>7. Owed(order'[o]) = [available |-> 0 - a, freeze |-> a]
  BY <1>2 DEF Owed, Open, NoBill
<1>. QED BY <1>2, <1>3, <1>4, <1>6, <1>7, OneOrder

\* A change of status within the open ones owes the ledger nothing.
LEMMA OpenToOpenInv ==
  ASSUME Inv, NEW o \in DOMAIN order, NEW s \in Open,
         order[o].status \in Open, SetStatus(o, s),
         UNCHANGED <<coin, bill>>
  PROVE  Inv'
<1>1. s \in Status
  BY DEF Open, Status
<1>2. /\ DOMAIN order' = DOMAIN order
      /\ order' \in [DOMAIN order' -> Row]
      /\ order'[o].status = s
      /\ order'[o].type = order[o].type
      /\ order'[o].amount = order[o].amount
      /\ \A x \in DOMAIN order : x # o => order'[x] = order[x]
  BY <1>1, SetStatusRow DEF Inv
<1>3. TypeOK'
  BY <1>2 DEF Inv, TypeOK
<1>4. Owed(order'[o]) = Owed(order[o])
  BY <1>2 DEF Owed, Open, NoBill
<1>5. o \in Orders /\ bill'[o] = Owed(order[o])
  BY DEF Inv, TypeOK, BillsMatchStatus
<1>. QED BY <1>2, <1>3, <1>4, <1>5, OneOrder

LEMMA ConfirmInv ==
  ASSUME Inv, NEW u \in Users, NEW o \in Orders, confirm(u, o)
  PROVE  Inv'
BY OpenToOpenInv DEF confirm, Open

LEMMA ComplaintInv ==
  ASSUME Inv, NEW u \in Users, NEW o \in Orders, complaint(u, o)
  PROVE  Inv'
BY OpenToOpenInv DEF complaint, Open

\* The common part of both cancellations.
LEMMA GiveBackInv ==
  ASSUME Inv, NEW o \in DOMAIN order, order[o].status \in Open, GiveBack(o)
  PROVE  Inv'
<1>1. o \in Orders /\ order[o] \in Row /\ bill[o] = Owed(order[o])
  BY DEF Inv, TypeOK, BillsMatchStatus
<1>2. /\ DOMAIN order' = DOMAIN order
      /\ order' \in [DOMAIN order' -> Row]
      /\ order'[o].status = "CANCELED"
      /\ order'[o].type = order[o].type
      /\ \A x \in DOMAIN order : x # o => order'[x] = order[x]
  BY SetStatusRow DEF Inv, GiveBack, Status
<1>3. Owed(order'[o]) = NoBill
  BY <1>2 DEF Owed, Open, NoBill
<1>4. CASE order[o].type = "SELL"
  <2>1. /\ order[o].amount \in Int /\ 0 - order[o].amount \in Int
        /\ order[o].user \in Users
        /\ ChangeFor(o, order[o].user, order[o].amount, 0 - order[o].amount)
    BY <1>1, <1>4, PlatAssumption DEF Row, GiveBack
  <2>2. /\ coin' \in [Users -> Balance]
        /\ bill' \in [Orders -> Bill]
        /\ bill'[o] = [available |-> bill[o].available + order[o].amount,
                       freeze |-> bill[o].freeze + (0 - order[o].amount)]
        /\ \A x \in Orders : x # o => bill'[x] = bill[x]
    BY <1>1, <2>1, ChangeForType DEF Inv
  <2>3. TypeOK'
    BY <1>2, <2>2 DEF Inv, TypeOK, GiveBack
  <2>4. bill[o] = [available |-> 0 - order[o].amount,
                   freeze |-> order[o].amount]
    BY <1>1, <1>4 DEF Owed, Open, Row
  <2>5. bill'[o] = NoBill
    BY <2>1, <2>2, <2>4 DEF NoBill
  <2>. QED BY <1>1, <1>2, <1>3, <2>2, <2>3, <2>5, OneOrder
<1>5. CASE order[o].type # "SELL"
  <2>1. UNCHANGED <<coin, bill>>
    BY <1>5 DEF GiveBack
  <2>2. TypeOK'
    BY <1>2, <2>1 DEF Inv, TypeOK
  <2>3. bill[o] = NoBill
    BY <1>1, <1>5 DEF Owed, Open, NoBill, Row
  <2>. QED BY <1>1, <1>2, <1>3, <2>1, <2>2, <2>3, OneOrder
<1>. QED BY <1>4, <1>5

LEMMA AdminConfirmInv ==
  ASSUME Inv, NEW o \in Orders, adminConfirm(o)
  PROVE  Inv'
<1>1. o \in DOMAIN order /\ order[o] \in Row /\ bill[o] = Owed(order[o])
  BY DEF Inv, TypeOK, BillsMatchStatus, adminConfirm
<1>2. /\ DOMAIN order' = DOMAIN order
      /\ order' \in [DOMAIN order' -> Row]
      /\ order'[o].status = "DONE"
      /\ order'[o].type = order[o].type
      /\ order'[o].amount = order[o].amount
      /\ \A x \in DOMAIN order : x # o => order'[x] = order[x]
  BY <1>1, SetStatusRow DEF Inv, adminConfirm, Status
<1>3. order[o].amount \in Int /\ order[o].user \in Users
  BY <1>1, PlatAssumption DEF Row
<1>4. CASE order[o].type = "SELL"
  <2>1. ChangeFor(o, order[o].user, 0, 0 - order[o].amount)
    BY <1>4 DEF adminConfirm
  <2>2. /\ coin' \in [Users -> Balance]
        /\ bill' \in [Orders -> Bill]
        /\ bill'[o] = [available |-> bill[o].available + 0,
                       freeze |-> bill[o].freeze + (0 - order[o].amount)]
        /\ \A x \in Orders : x # o => bill'[x] = bill[x]
    BY <1>3, <2>1, ChangeForType DEF Inv
  <2>3. TypeOK'
    BY <1>2, <2>2 DEF Inv, TypeOK, adminConfirm
  <2>4. bill[o] = [available |-> 0 - order[o].amount,
                   freeze |-> order[o].amount]
    BY <1>1, <1>4 DEF Owed, Open, NoBill, adminConfirm
  <2>5. bill'[o] = [available |-> 0 - order[o].amount, freeze |-> 0]
    BY <1>3, <2>2, <2>4
  <2>6. Owed(order'[o]) = [available |-> 0 - order[o].amount, freeze |-> 0]
    BY <1>2, <1>4 DEF Owed, Open, NoBill
  <2>. QED BY <1>1, <1>2, <2>2, <2>3, <2>5, <2>6, OneOrder
<1>5. CASE order[o].type = "BUY"
  <2>1. ChangeFor(o, order[o].user, order[o].amount, 0)
    BY <1>5 DEF adminConfirm
  <2>2. /\ coin' \in [Users -> Balance]
        /\ bill' \in [Orders -> Bill]
        /\ bill'[o] = [available |-> bill[o].available + order[o].amount,
                       freeze |-> bill[o].freeze + 0]
        /\ \A x \in Orders : x # o => bill'[x] = bill[x]
    BY <1>3, <2>1, ChangeForType DEF Inv
  <2>3. TypeOK'
    BY <1>2, <2>2 DEF Inv, TypeOK, adminConfirm
  <2>4. bill[o] = NoBill
    BY <1>1, <1>5 DEF Owed, Open, NoBill, adminConfirm
  <2>5. bill'[o] = [available |-> order[o].amount, freeze |-> 0]
    BY <1>3, <2>2, <2>4 DEF NoBill
  <2>6. Owed(order'[o]) = [available |-> order[o].amount, freeze |-> 0]
    BY <1>2, <1>5 DEF Owed, Open, NoBill
  <2>. QED BY <1>1, <1>2, <2>2, <2>3, <2>5, <2>6, OneOrder
<1>. QED BY <1>1, <1>4, <1>5 DEF Row

\* The two cancellations.
LEMMA CancelInv ==
  ASSUME Inv, NEW o \in Orders,
         adminCancel(o) \/ \E u \in Users : cancel(u, o)
  PROVE  Inv'
BY GiveBackInv DEF adminCancel, cancel, Open

LEMMA NextInv == Inv /\ [Next]_vars => Inv'
<1>. SUFFICES ASSUME Inv, [Next]_vars PROVE Inv'
  OBVIOUS
<1>1. CASE Next
  <2>1. PICK o \in Orders : \/ \E u \in Users : UserStep(u, o)
                            \/ AdminStep(o)
    BY <1>1 DEF Next
  <2>2. CASE \E u \in Users : UserStep(u, o)
    BY <2>2, DepositInv, WithdrawInv, ConfirmInv, CancelInv, ComplaintInv
       DEF UserStep
  <2>3. CASE AdminStep(o)
    BY <2>3, AdminConfirmInv, CancelInv DEF AdminStep
  <2>. QED BY <2>1, <2>2, <2>3
<1>2. CASE UNCHANGED vars
  BY <1>2 DEF Inv, TypeOK, BillsMatchStatus, vars
<1>. QED BY <1>1, <1>2

\* The balances never go negative and every row stays well formed, whatever
\* users and admins do to the orders.
THEOREM TypeCorrect == Spec => []TypeOK
<1>1. Inv => TypeOK
  BY DEF Inv
<1>. QED BY InitInv, NextInv, <1>1, PTL DEF Spec

\* The bills of every order add up to what its type and status call for:
\* no order is paid out twice, refunded twice, or both.
THEOREM BillsCorrect == Spec => []BillsMatchStatus
<1>1. Inv => BillsMatchStatus
  BY DEF Inv
<1>. QED BY InitInv, NextInv, <1>1, PTL DEF Spec

-----------------------------------------------------------------------------
(***************************************************************************)
(* What a step may do to the orders, and the refinement.                   *)
(***************************************************************************)

\* A step rewrites at most one order, and that one is new or still open.
LEMMA OnlyOpenMoves ==
  ASSUME Inv, [Next]_vars
  PROVE  \/ UNCHANGED <<order, bill>>
         \/ \E o \in Orders :
              /\ o \in DOMAIN order => order[o].status \in Open
              /\ \A x \in DOMAIN order :
                   x # o => order'[x] = order[x] /\ bill'[x] = bill[x]
<1>1. CASE UNCHANGED vars
  BY <1>1 DEF vars
<1>2. ASSUME NEW o \in Orders, AdminStep(o) \/ \E u \in Users : UserStep(u, o)
      PROVE  /\ o \in DOMAIN order => order[o].status \in Open
             /\ \A x \in DOMAIN order : x # o => order'[x] = order[x]
             /\ \A x \in Orders : x # o => bill'[x] = bill[x]
  BY <1>2 DEF AdminStep, UserStep, deposit, withdraw, confirm, cancel, complaint,
              adminConfirm, adminCancel, GiveBack, ChangeFor, Insert, SetStatus,
              Open, Inv, TypeOK
<1>. QED BY <1>1, <1>2 DEF Next, Inv, TypeOK

\* A DONE or CANCELED order and its bills never change again.
THEOREM ClosedStaysClosed == Spec => ClosedIsFinal
<1>1. Inv /\ [Next]_vars =>
        [\A o \in DOMAIN order :
           order[o].status \notin Open =>
             order'[o] = order[o] /\ bill'[o] = bill[o]]_vars
  BY OnlyOpenMoves
<1>. QED BY InitInv, NextInv, <1>1, PTL DEF Spec, ClosedIsFinal

\* If a step leaves every order but o alone, the abstract phases change at
\* o only.
LEMMA PhasesAfter ==
  ASSUME NEW o \in Orders,
         DOMAIN order \subseteq DOMAIN order',
         DOMAIN order' \subseteq DOMAIN order \cup {o},
         \A x \in DOMAIN order : x # o => order'[x] = order[x]
  PROVE  Phases' = [Phases EXCEPT ![o] = PhaseOf(o)']
<1>1. \A x \in Orders : x # o => PhaseOf(x)' = PhaseOf(x)
  BY DEF PhaseOf
<1>. QED BY <1>1 DEF Phases

\* The ledger entry of o after changeUserCoin on its behalf.
LEMMA BillAfter ==
  ASSUME NEW o, NEW u, NEW dA, NEW dF, ChangeFor(o, u, dA, dF)
  PROVE  bill' = [bill EXCEPT ![o] = [available |-> bill[o].available + dA,
                                      freeze |-> bill[o].freeze + dF]]
BY DEF ChangeFor

\* Placing a sale holds the amount; placing a buy is invisible.
LEMMA PlaceRefines ==
  ASSUME Inv, NEW u \in Users, NEW o \in Orders, NEW a \in 0 .. MaxAmount,
         deposit(u, o, a) \/ withdraw(u, o, a)
  PROVE  E!Next \/ UNCHANGED E!evars
<1>1. a \in 1 .. MaxAmount
  BY PlatAssumption DEF deposit, withdraw
<1>2. PICK t \in {"BUY", "SELL"} :
        /\ Insert(o, u, t, a)
        /\ t = "BUY" => deposit(u, o, a)
        /\ t = "SELL" => withdraw(u, o, a)
  BY DEF deposit, withdraw
<1>3. /\ o \in Orders \ DOMAIN order
      /\ DOMAIN order' = DOMAIN order \cup {o}
      /\ order' \in [DOMAIN order' -> Row]
      /\ order'[o] = [status |-> "ACCEPTED", type |-> t, user |-> u,
                      amount |-> a]
      /\ \A x \in DOMAIN order : order'[x] = order[x]
  <2>1. TypeOK
    BY DEF Inv
  <2>2. Insert(o, u, t, a)
    BY <1>2
  <2>. QED BY ONLY <1>1, <2>1, <2>2, InsertRow, Zenon
<1>4. Phases' = [Phases EXCEPT ![o] = PhaseOf(o)']
  BY <1>3, PhasesAfter
<1>5. Phases[o] = "idle"
  BY <1>3 DEF Phases, PhaseOf
<1>6. CASE t = "BUY"
  <2>1. PhaseOf(o)' = "idle"
    BY <1>3, <1>6 DEF PhaseOf, PhaseOfRow
  <2>2. Phases' = Phases
    BY <1>4, <1>5, <2>1 DEF Phases
  <2>. QED BY <1>2, <1>6, <2>2 DEF deposit, E!evars
<1>7. CASE t = "SELL"
  <2>1. PhaseOf(o)' = "held"
    BY <1>3, <1>7 DEF PhaseOf, PhaseOfRow
  <2>2. bill[o] = NoBill
    BY <1>3 DEF Inv, BillsMatchStatus
  <2>3. bill' = [bill EXCEPT ![o] = [available |-> bill[o].available + (0 - a),
                                     freeze |-> bill[o].freeze + a]]
    BY <1>2, <1>7, BillAfter DEF withdraw
  <2>4. bill' = [bill EXCEPT ![o] = [available |-> 0 - a, freeze |-> a]]
    BY <1>1, <2>2, <2>3 DEF NoBill
  <2>5. E!Hold(o, a)
    BY <1>4, <1>5, <2>1, <2>4 DEF E!Hold
  <2>. QED BY <1>1, <2>5 DEF E!Next
<1>. QED BY <1>2, <1>6, <1>7

\* A change of status within the open ones is invisible.
LEMMA OpenToOpenRefines ==
  ASSUME Inv, NEW u \in Users, NEW o \in Orders, confirm(u, o) \/ complaint(u, o)
  PROVE  UNCHANGED E!evars
<1>1. PICK s \in {"PAID", "COMPLAINT"} :
        /\ SetStatus(o, s) /\ o \in DOMAIN order
        /\ order[o].status \in Open /\ bill' = bill
  BY DEF confirm, complaint, Open
<1>2. /\ DOMAIN order' = DOMAIN order
      /\ order'[o].status = s /\ order'[o].type = order[o].type
      /\ \A x \in DOMAIN order : x # o => order'[x] = order[x]
  BY <1>1, SetStatusRow DEF Inv, Status
<1>3. PhaseOf(o)' = PhaseOf(o)
  BY <1>1, <1>2 DEF PhaseOf, PhaseOfRow, Open
<1>4. Phases' = [Phases EXCEPT ![o] = PhaseOf(o)']
  BY <1>2, PhasesAfter
<1>5. Phases' = Phases
  BY <1>3, <1>4 DEF Phases
<1>. QED BY <1>1, <1>5 DEF E!evars

\* Both cancellations refund a sale and refuse a buy.
LEMMA GiveBackRefines ==
  ASSUME Inv, NEW o \in DOMAIN order, order[o].status \in Open, GiveBack(o)
  PROVE  E!Next
<1>1. o \in Orders /\ order[o] \in Row /\ bill[o] = Owed(order[o])
  BY DEF Inv, TypeOK, BillsMatchStatus
<1>2. /\ DOMAIN order' = DOMAIN order
      /\ order'[o].status = "CANCELED"
      /\ \A x \in DOMAIN order : x # o => order'[x] = order[x]
  BY SetStatusRow DEF Inv, GiveBack, Status
<1>3. Phases' = [Phases EXCEPT ![o] = "refunded"]
  <2>1. PhaseOf(o)' = "refunded"
    BY <1>2 DEF PhaseOf, PhaseOfRow
  <2>. QED BY <1>1, <1>2, <2>1, PhasesAfter
<1>4. CASE order[o].type = "SELL"
  <2>1. Phases[o] = "held"
    BY <1>1, <1>4 DEF Phases, PhaseOf, PhaseOfRow, Open
  <2>2. ChangeFor(o, order[o].user, order[o].amount, 0 - order[o].amount)
    BY <1>4 DEF GiveBack
  <2>3. bill' = [bill EXCEPT ![o] =
                   [available |-> bill[o].available + order[o].amount,
                    freeze |-> bill[o].freeze + (0 - order[o].amount)]]
    BY <2>2, BillAfter
  <2>4. bill[o] = [available |-> 0 - order[o].amount,
                   freeze |-> order[o].amount]
    BY <1>1, <1>4 DEF Owed, Open, Row
  <2>5. order[o].amount \in Int
    BY <1>1, PlatAssumption DEF Row
  <2>6. bill' = [bill EXCEPT ![o] = [available |-> 0, freeze |-> 0]]
    <3>1. bill[o].available + order[o].amount = 0
      BY <2>4, <2>5
    <3>2. bill[o].freeze + (0 - order[o].amount) = 0
      BY <2>4, <2>5
    <3>. QED BY <2>3, <3>1, <3>2
  <2>7. E!Refund(o)
    BY <1>3, <2>1, <2>6 DEF E!Refund, E!NoEffect
  <2>. QED BY <1>1, <2>7 DEF E!Next
<1>5. CASE order[o].type # "SELL"
  <2>1. Phases[o] = "idle"
    BY <1>1, <1>5 DEF Phases, PhaseOf, PhaseOfRow, Open
  <2>2. E!Refuse(o)
    BY <1>3, <1>5, <2>1 DEF E!Refuse, GiveBack
  <2>. QED BY <1>1, <2>2 DEF E!Next
<1>. QED BY <1>4, <1>5

\* adminConfirm settles a sale and credits a buy.
LEMMA AdminConfirmRefines ==
  ASSUME Inv, NEW o \in Orders, adminConfirm(o)
  PROVE  E!Next
<1>1. o \in DOMAIN order /\ order[o] \in Row /\ bill[o] = Owed(order[o])
  BY DEF Inv, TypeOK, BillsMatchStatus, adminConfirm
<1>2. /\ DOMAIN order' = DOMAIN order
      /\ order'[o].status = "DONE"
      /\ \A x \in DOMAIN order : x # o => order'[x] = order[x]
  BY <1>1, SetStatusRow DEF Inv, adminConfirm, Status
<1>3. Phases' = [Phases EXCEPT ![o] = "settled"]
  <2>1. PhaseOf(o)' = "settled"
    BY <1>1, <1>2 DEF PhaseOf, PhaseOfRow
  <2>. QED BY <1>1, <1>2, <2>1, PhasesAfter
<1>4. order[o].amount \in 1 .. MaxAmount /\ order[o].amount \in Int
  BY <1>1, PlatAssumption DEF Row
<1>5. CASE order[o].type = "SELL"
  <2>1. Phases[o] = "held"
    BY <1>1, <1>5 DEF Phases, PhaseOf, PhaseOfRow, adminConfirm
  <2>2. ChangeFor(o, order[o].user, 0, 0 - order[o].amount)
    BY <1>5 DEF adminConfirm
  <2>3. bill' = [bill EXCEPT ![o] =
                   [available |-> bill[o].available + 0,
                    freeze |-> bill[o].freeze + (0 - order[o].amount)]]
    BY <2>2, BillAfter
  <2>4. bill[o] = [available |-> 0 - order[o].amount,
                   freeze |-> order[o].amount]
    BY <1>1, <1>5 DEF Owed, Open, adminConfirm
  <2>5. bill' = [bill EXCEPT ![o] = [available |-> bill[o].available,
                                     freeze |-> 0]]
    <3>1. bill[o].available + 0 = bill[o].available
      BY <1>4, <2>4
    <3>2. bill[o].freeze + (0 - order[o].amount) = 0
      BY <1>4, <2>4
    <3>. QED BY <2>3, <3>1, <3>2
  <2>6. E!Settle(o)
    BY <1>3, <2>1, <2>5 DEF E!Settle
  <2>. QED BY <2>6 DEF E!Next
<1>6. CASE order[o].type = "BUY"
  <2>1. Phases[o] = "idle"
    BY <1>1, <1>6 DEF Phases, PhaseOf, PhaseOfRow, adminConfirm
  <2>2. ChangeFor(o, order[o].user, order[o].amount, 0)
    BY <1>6 DEF adminConfirm
  <2>3. bill' = [bill EXCEPT ![o] =
                   [available |-> bill[o].available + order[o].amount,
                    freeze |-> bill[o].freeze + 0]]
    BY <2>2, BillAfter
  <2>4. bill[o] = NoBill
    BY <1>1, <1>6 DEF Owed, Open, NoBill, adminConfirm
  <2>5. bill' = [bill EXCEPT ![o] = [available |-> order[o].amount,
                                     freeze |-> 0]]
    <3>1. bill[o].available + order[o].amount = order[o].amount
      BY <1>4, <2>4 DEF NoBill
    <3>2. bill[o].freeze + 0 = 0
      BY <2>4 DEF NoBill
    <3>. QED BY <2>3, <3>1, <3>2
  <2>6. E!Credit(o, order[o].amount)
    BY <1>3, <2>1, <2>5 DEF E!Credit
  <2>. QED BY <1>4, <2>6 DEF E!Next
<1>. QED BY <1>1, <1>5, <1>6 DEF Row

LEMMA InitRefines == Init => E!Init
<1>. SUFFICES ASSUME Init PROVE E!Init
  OBVIOUS
<1>1. DOMAIN order = {}
  BY DEF Init
<1>2. Phases = [i \in Orders |-> "idle"]
  BY <1>1 DEF Phases, PhaseOf
<1>. QED BY <1>2 DEF Init, E!Init, E!NoEffect, NoBill

LEMMA NextRefines == Inv /\ [Next]_vars => [E!Next]_(E!evars)
<1>. SUFFICES ASSUME Inv, [Next]_vars PROVE E!Next \/ UNCHANGED E!evars
  OBVIOUS
<1>1. CASE Next
  <2>1. PICK o \in Orders : \/ \E u \in Users : UserStep(u, o)
                            \/ AdminStep(o)
    BY <1>1 DEF Next
  <2>2. CASE \E u \in Users : UserStep(u, o)
    <3>1. PICK u \in Users : UserStep(u, o)
      BY <2>2
    <3>2. cancel(u, o) => E!Next
      BY GiveBackRefines DEF cancel, Open
    <3>. QED BY <3>1, <3>2, PlaceRefines, OpenToOpenRefines DEF UserStep
  <2>3. CASE AdminStep(o)
    <3>1. adminCancel(o) => E!Next
      BY GiveBackRefines DEF adminCancel, Open
    <3>. QED BY <2>3, <3>1, AdminConfirmRefines DEF AdminStep
  <2>. QED BY <2>1, <2>2, <2>3
<1>2. CASE UNCHANGED vars
  BY <1>2 DEF vars, E!evars, Phases, PhaseOf
<1>. QED BY <1>1, <1>2

\* PlatOrderService implements the escrow: a sale is held once and settled
\* or refunded once, a buy is credited once or refused.
THEOREM ImplementsEscrow == Spec => IsEscrow
BY InitInv, NextInv, InitRefines, NextRefines, PTL DEF Spec, IsEscrow, E!Spec

-----------------------------------------------------------------------------
(***************************************************************************)
(* The balances as a function of the orders.                               *)
(***************************************************************************)

\* The table is finite, whatever set its identifiers come from: it is empty
\* at the start and grows by a row at a time.
FiniteTable == IsFiniteSet(DOMAIN order)

\* The balances keep up with a step that rewrites order o of user v: the
\* three sums change by the share of o, the balances by its bills, and both
\* are what the type and the status of o call for.
LEMMA BalancesAfter ==
  ASSUME Inv, Inv', FiniteTable, BalancesFollowOrders,
         NEW o \in Orders, NEW v \in Users, NEW dA \in Int, NEW dF \in Int,
         o \in DOMAIN order', order'[o].user = v,
         o \in DOMAIN order =>
           order[o].user = v /\ order[o].type = order'[o].type
           /\ order[o].amount = order'[o].amount,
         DOMAIN order' = DOMAIN order \cup {o},
         \A x \in DOMAIN order : x # o => order'[x] = order[x],
         coin'[v] = Change(coin[v], dA, dF, 0),
         \A x \in Users : x # v => coin'[x] = coin[x],
         bill'[o].available = bill[o].available + dA,
         bill'[o].freeze = bill[o].freeze + dF
  PROVE  BalancesFollowOrders'
<1>. DEFINE row == order'[o]
            Old(u, t, S) == {x \in DOMAIN order : order[x].type = t
                               /\ order[x].user = u /\ order[x].status \in S}
            New(u, t, S) == {x \in DOMAIN order' : order'[x].type = t
                               /\ order'[x].user = u /\ order'[x].status \in S}
            w == [x \in DOMAIN order |-> order[x].amount]
            z == [x \in DOMAIN order' |-> order'[x].amount]
<1>1. /\ \A x \in DOMAIN order : order[x] \in Row /\ order[x].amount \in Int
      /\ \A x \in DOMAIN order' : order'[x] \in Row /\ order'[x].amount \in Int
  BY PlatAssumption DEF Inv, TypeOK, Row
<1>2. ASSUME NEW u \in Users, NEW t, NEW S
      PROVE  /\ SumFunctionOnSet(w, Old(u, t, S)) \in Int
             /\ Share(w, Old(u, t, S), o) \in Int /\ Share(z, New(u, t, S), o) \in Int
             /\ SumFunctionOnSet(z, New(u, t, S)) =
                  SumFunctionOnSet(w, Old(u, t, S)) - Share(w, Old(u, t, S), o)
                                                    + Share(z, New(u, t, S), o)
  <2>. DEFINE P == Old(u, t, S)
              Q == New(u, t, S)
  <2>1. IsFiniteSet(P)
    BY FS_Subset DEF FiniteTable
  <2>2. Q \ {o} = P \ {o}
    OBVIOUS
  <2>3. /\ \A y \in P : w[y] \in Int
        /\ \A y \in Q : z[y] \in Int
        /\ \A y \in P : y # o => z[y] = w[y]
    BY <1>1
  <2>. HIDE DEF P, Q, w, z
  <2>4. /\ SumFunctionOnSet(w, P) \in Int
        /\ Share(w, P, o) \in Int /\ Share(z, Q, o) \in Int
        /\ SumFunctionOnSet(z, Q) =
             SumFunctionOnSet(w, P) - Share(w, P, o) + Share(z, Q, o)
    BY ONLY <2>1, <2>2, <2>3, SumStep
  <2>. QED BY <2>4 DEF P, Q
<1>3. ASSUME NEW u \in Users, NEW t, NEW S
      PROVE  /\ Share(w, Old(u, t, S), o) =
                  IF o \in DOMAIN order /\ u = v /\ order[o].type = t
                     /\ order[o].status \in S THEN order[o].amount ELSE 0
             /\ Share(z, New(u, t, S), o) =
                  IF u = v /\ row.type = t /\ row.status \in S THEN row.amount ELSE 0
  BY DEF Share
<1>4. ASSUME NEW u \in Users
      PROVE  /\ coin[u].freeze = SumFunctionOnSet(w, Old(u, "SELL", Open))
             /\ coin[u].available =
                  InitBalance + SumFunctionOnSet(w, Old(u, "BUY", {"DONE"}))
                              - SumFunctionOnSet(w, Old(u, "SELL", Open \cup {"DONE"}))
             /\ coin[u].award = 0
  BY DEF BalancesFollowOrders, Total, SellsOf, BuysOf
<1>5. /\ bill'[o] = Owed(row)
      /\ o \in DOMAIN order => bill[o] = Owed(order[o])
      /\ o \notin DOMAIN order => bill[o] = NoBill
  BY DEF Inv, BillsMatchStatus
<1>6. /\ row \in Row /\ row.amount \in Int
      /\ bill[o].available \in Int /\ bill[o].freeze \in Int
      /\ coin[v] \in Balance
  BY <1>1 DEF Inv, TypeOK, Bill
<1>. HIDE DEF w, z, row, Old, New
<1>7. ASSUME NEW u \in Users
      PROVE  /\ coin'[u].freeze = SumFunctionOnSet(z, New(u, "SELL", Open))
             /\ coin'[u].available =
                  InitBalance + SumFunctionOnSet(z, New(u, "BUY", {"DONE"}))
                              - SumFunctionOnSet(z, New(u, "SELL", Open \cup {"DONE"}))
             /\ coin'[u].award = 0
  <2>1. CASE u # v
    <3>1. /\ SumFunctionOnSet(z, New(u, "SELL", Open)) =
               SumFunctionOnSet(w, Old(u, "SELL", Open))
          /\ SumFunctionOnSet(z, New(u, "BUY", {"DONE"})) =
               SumFunctionOnSet(w, Old(u, "BUY", {"DONE"}))
          /\ SumFunctionOnSet(z, New(u, "SELL", Open \cup {"DONE"})) =
               SumFunctionOnSet(w, Old(u, "SELL", Open \cup {"DONE"}))
      BY <1>2, <1>3, <2>1
    <3>. QED BY <1>4, <2>1, <3>1
  <2>2. CASE u = v
    <3>. DEFINE sell == Open \cup {"DONE"}
                OF == Share(w, Old(v, "SELL", Open), o)
                OB == Share(w, Old(v, "BUY", {"DONE"}), o)
                OS == Share(w, Old(v, "SELL", sell), o)
                NF == Share(z, New(v, "SELL", Open), o)
                NB == Share(z, New(v, "BUY", {"DONE"}), o)
                NS == Share(z, New(v, "SELL", sell), o)
                F == SumFunctionOnSet(w, Old(v, "SELL", Open))
                B == SumFunctionOnSet(w, Old(v, "BUY", {"DONE"}))
                S == SumFunctionOnSet(w, Old(v, "SELL", sell))
    <3>1. NF = bill'[o].freeze /\ NB - NS = bill'[o].available
      <4>1. /\ NF = IF row.type = "SELL" /\ row.status \in Open THEN row.amount ELSE 0
            /\ NB = IF row.type = "BUY" /\ row.status \in {"DONE"} THEN row.amount ELSE 0
            /\ NS = IF row.type = "SELL" /\ row.status \in sell THEN row.amount ELSE 0
        BY <1>3
      <4>. HIDE DEF NF, NB, NS
      <4>. QED BY <1>5, <1>6, <4>1 DEF Owed, Open, Row, Status
    <3>2. OF = bill[o].freeze /\ OB - OS = bill[o].available
      <4>1. /\ OF = IF o \in DOMAIN order /\ order[o].type = "SELL"
                       /\ order[o].status \in Open THEN order[o].amount ELSE 0
            /\ OB = IF o \in DOMAIN order /\ order[o].type = "BUY"
                       /\ order[o].status \in {"DONE"} THEN order[o].amount ELSE 0
            /\ OS = IF o \in DOMAIN order /\ order[o].type = "SELL"
                       /\ order[o].status \in sell THEN order[o].amount ELSE 0
        BY <1>3
      <4>. HIDE DEF OF, OB, OS
      <4>2. CASE o \in DOMAIN order
        BY <1>1, <1>5, <4>1, <4>2 DEF Owed, Open, Row, Status
      <4>3. CASE o \notin DOMAIN order
        BY <1>5, <4>1, <4>3 DEF NoBill
      <4>. QED BY <4>2, <4>3
    <3>3. /\ coin'[v].freeze = coin[v].freeze + dF
          /\ coin'[v].available = coin[v].available + dA
          /\ coin'[v].award = coin[v].award + 0
      BY DEF Change
    <3>. HIDE DEF sell
    <3>4. /\ F \in Int /\ OF \in Int /\ NF \in Int
          /\ SumFunctionOnSet(z, New(v, "SELL", Open)) = F - OF + NF
      BY <1>2
    <3>5. /\ B \in Int /\ OB \in Int /\ NB \in Int
          /\ SumFunctionOnSet(z, New(v, "BUY", {"DONE"})) = B - OB + NB
      BY <1>2
    <3>6. /\ S \in Int /\ OS \in Int /\ NS \in Int
          /\ SumFunctionOnSet(z, New(v, "SELL", sell)) = S - OS + NS
      BY <1>2
    <3>7. coin[v].freeze = F /\ coin[v].available = InitBalance + B - S
      BY <1>4 DEF sell
    <3>. HIDE DEF OF, OB, OS, NF, NB, NS, F, B, S
    <3>8. coin'[v].freeze = SumFunctionOnSet(z, New(v, "SELL", Open))
      BY <3>4, <3>7, <1>6, <3>1, <3>2, <3>3
    <3>9. coin'[v].available =
            InitBalance + SumFunctionOnSet(z, New(v, "BUY", {"DONE"}))
                        - SumFunctionOnSet(z, New(v, "SELL", sell))
      <4>1. NB - NS = (OB - OS) + dA
        BY <3>1, <3>2
      <4>2. coin'[v].available = (InitBalance + B - S) + dA
        BY <3>7, <3>3
      <4>3. (InitBalance + B - S) + dA = InitBalance + (B - OB + NB) - (S - OS + NS)
        BY ONLY <3>5, <3>6, <4>1, PlatAssumption, dA \in Int
      <4>. QED BY <3>5, <3>6, <4>2, <4>3
    <3>10. coin'[v].award = 0
      BY <1>4, <3>3
    <3>. QED BY <2>2, <3>8, <3>9, <3>10 DEF sell
  <2>. QED BY <2>1, <2>2
<1>. QED BY <1>7 DEF BalancesFollowOrders, Total, SellsOf, BuysOf, z, New

\* The same for a step that writes no bill.
LEMMA BalancesUntouched ==
  ASSUME Inv, Inv', FiniteTable, BalancesFollowOrders,
         NEW o \in Orders, o \in DOMAIN order',
         o \in DOMAIN order =>
           order[o].user = order'[o].user /\ order[o].type = order'[o].type
           /\ order[o].amount = order'[o].amount,
         DOMAIN order' = DOMAIN order \cup {o},
         \A x \in DOMAIN order : x # o => order'[x] = order[x],
         UNCHANGED <<coin, bill>>
  PROVE  BalancesFollowOrders'
<1>. DEFINE v == order'[o].user
<1>1. v \in Users /\ coin[v] \in Balance /\ bill[o] \in Bill
  BY DEF Inv, TypeOK, Row
<1>2. coin[v] = Change(coin[v], 0, 0, 0)
  BY <1>1 DEF Balance, Change
<1>3. bill'[o].available = bill[o].available + 0 /\ bill'[o].freeze = bill[o].freeze + 0
  BY <1>1 DEF Bill
<1>4. 0 \in Int /\ coin'[v] = Change(coin[v], 0, 0, 0)
  BY <1>2
<1>. HIDE DEF v
<1>. QED BY <1>1, <1>3, <1>4, BalancesAfter DEF v

\* The same for a step that calls changeUserCoin for the owner of the order.
LEMMA BalancesChanged ==
  ASSUME Inv, Inv', FiniteTable, BalancesFollowOrders,
         NEW o \in Orders, NEW dA \in Int, NEW dF \in Int, o \in DOMAIN order',
         o \in DOMAIN order =>
           order[o].user = order'[o].user /\ order[o].type = order'[o].type
           /\ order[o].amount = order'[o].amount,
         DOMAIN order' = DOMAIN order \cup {o},
         \A x \in DOMAIN order : x # o => order'[x] = order[x],
         ChangeFor(o, order'[o].user, dA, dF)
  PROVE  BalancesFollowOrders'
<1>. DEFINE v == order'[o].user
<1>1. v \in Users
  BY DEF Inv, TypeOK, Row
<1>2. /\ coin'[v] = Change(coin[v], dA, dF, 0)
      /\ \A x \in Users : x # v => coin'[x] = coin[x]
      /\ bill'[o].available = bill[o].available + dA
      /\ bill'[o].freeze = bill[o].freeze + dF
  BY <1>1 DEF ChangeFor, Inv, TypeOK
<1>. HIDE DEF v
<1>. QED BY <1>1, <1>2, BalancesAfter DEF v

\* Every step is of one of these kinds.
LEMMA NextBalances ==
  Inv /\ FiniteTable /\ BalancesFollowOrders /\ [Next]_vars =>
    FiniteTable' /\ BalancesFollowOrders'
<1>. SUFFICES ASSUME Inv, FiniteTable, BalancesFollowOrders, [Next]_vars
              PROVE  FiniteTable' /\ BalancesFollowOrders'
  OBVIOUS
<1>1. Inv'
  BY NextInv
<1>2. CASE UNCHANGED vars
  BY <1>2 DEF vars, FiniteTable, BalancesFollowOrders, Total, SellsOf, BuysOf
<1>3. ASSUME NEW o \in Orders, AdminStep(o) \/ \E u \in Users : UserStep(u, o)
      PROVE  FiniteTable' /\ BalancesFollowOrders'
  <2>1. /\ o \in DOMAIN order' /\ DOMAIN order' = DOMAIN order \cup {o}
        /\ \A x \in DOMAIN order : x # o => order'[x] = order[x]
        /\ o \in DOMAIN order =>
             order[o].user = order'[o].user /\ order[o].type = order'[o].type
             /\ order[o].amount = order'[o].amount
    <3>1. CASE \E u \in Users, a \in 0 .. MaxAmount : deposit(u, o, a) \/ withdraw(u, o, a)
      BY <3>1 DEF deposit, withdraw, Insert, Inv, TypeOK
    <3>2. CASE \E u \in Users : confirm(u, o) \/ cancel(u, o) \/ complaint(u, o)
      <4>1. /\ o \in DOMAIN order /\ \E s \in Status : SetStatus(o, s)
        BY <3>2 DEF confirm, cancel, complaint, GiveBack, Status
      <4>. QED BY <4>1 DEF SetStatus, Inv, TypeOK, Row
    <3>3. CASE AdminStep(o)
      <4>1. /\ o \in DOMAIN order /\ \E s \in Status : SetStatus(o, s)
        BY <3>3 DEF AdminStep, adminConfirm, adminCancel, GiveBack, Status
      <4>. QED BY <4>1 DEF SetStatus, Inv, TypeOK, Row
    <3>. QED BY <1>3, <3>1, <3>2, <3>3 DEF UserStep
  <2>2. \/ UNCHANGED <<coin, bill>>
        \/ \E dA, dF \in Int : ChangeFor(o, order'[o].user, dA, dF)
    <3>1. CASE o \in DOMAIN order
      <4>1. order[o].amount \in Int /\ 0 - order[o].amount \in Int /\ 0 \in Int
        BY <3>1, PlatAssumption DEF Inv, TypeOK, Row
      <4>2. \/ UNCHANGED <<coin, bill>>
            \/ ChangeFor(o, order[o].user, order[o].amount, 0 - order[o].amount)
            \/ ChangeFor(o, order[o].user, 0, 0 - order[o].amount)
            \/ ChangeFor(o, order[o].user, order[o].amount, 0)
        BY <1>3, <3>1 DEF AdminStep, UserStep, deposit, withdraw, confirm, cancel,
                          complaint, adminConfirm, adminCancel, GiveBack, Insert
      <4>. QED BY <2>1, <3>1, <4>1, <4>2
    <3>2. CASE o \notin DOMAIN order
      <4>1. PICK u \in Users, a \in 0 .. MaxAmount : deposit(u, o, a) \/ withdraw(u, o, a)
        BY <1>3, <3>2 DEF AdminStep, UserStep, confirm, cancel, complaint,
                          adminConfirm, adminCancel
      <4>2. a \in Int /\ 0 - a \in Int
        BY PlatAssumption
      <4>3. order'[o].user = u
        BY <4>1 DEF deposit, withdraw, Insert
      <4>4. UNCHANGED <<coin, bill>> \/ ChangeFor(o, u, 0 - a, a)
        BY <4>1 DEF deposit, withdraw
      <4>. QED BY <4>2, <4>3, <4>4
    <3>. QED BY <3>1, <3>2
  <2>3. FiniteTable'
    BY <2>1, FS_AddElement DEF FiniteTable
  <2>4. BalancesFollowOrders'
    BY <1>1, <2>1, <2>2, BalancesUntouched, BalancesChanged
  <2>. QED BY <2>3, <2>4
<1>. QED BY <1>2, <1>3 DEF Next

LEMMA InitBalances == Init => FiniteTable /\ BalancesFollowOrders
<1>. SUFFICES ASSUME Init PROVE FiniteTable /\ BalancesFollowOrders
  OBVIOUS
<1>1. DOMAIN order = {}
  BY DEF Init
<1>2. Total({}) = 0
  BY SumEmpty DEF Total
<1>3. \A u \in Users : coin[u] = [available |-> InitBalance, freeze |-> 0, award |-> 0]
  BY DEF Init, EmptyRow
<1>4. \A u \in Users : /\ SellsOf(u, Open) = {} /\ BuysOf(u, {"DONE"}) = {}
                       /\ SellsOf(u, Open \cup {"DONE"}) = {}
  BY <1>1 DEF SellsOf, BuysOf
<1>. HIDE DEF Total, SellsOf, BuysOf
<1>5. BalancesFollowOrders
  <2>. SUFFICES ASSUME NEW u \in Users
                PROVE  /\ coin[u].freeze = Total(SellsOf(u, Open))
                       /\ coin[u].available = InitBalance + Total(BuysOf(u, {"DONE"}))
                                                - Total(SellsOf(u, Open \cup {"DONE"}))
                       /\ coin[u].award = 0
    BY DEF BalancesFollowOrders
  <2>1. /\ Total(SellsOf(u, Open)) = 0 /\ Total(BuysOf(u, {"DONE"})) = 0
        /\ Total(SellsOf(u, Open \cup {"DONE"})) = 0
    BY <1>2, <1>4
  <2>2. /\ coin[u].available = InitBalance /\ coin[u].freeze = 0
        /\ coin[u].award = 0
    BY <1>3
  <2>3. InitBalance = InitBalance + 0 - 0
    BY PlatAssumption
  <2>. QED BY <2>1, <2>2, <2>3
<1>. QED BY <1>1, <1>5, FS_EmptySet DEF FiniteTable

\* The balances are a function of the orders: what is frozen is the sum of
\* the open sales, what is available the start balance less the sales plus
\* the finished buys, for any number of users and orders.
THEOREM BalancesCorrect == Spec => []BalancesFollowOrders
BY InitInv, NextInv, InitBalances, NextBalances, PTL DEF Spec
=============================================================================
