-------------------------- MODULE ShopCloseProofs ---------------------------
(***************************************************************************)
(* The ledger of the mall, for all users, goods, orders, threads, prices   *)
(* and rates: MallOrder's requests by themselves, and with the closings of *)
(* shops and their faults.                                                 *)
(*                                                                         *)
(* A confirmation is booked in five fields: the price is taken from the    *)
(* buyer, the seller is paid, the buyer gets a rebate and two inviters get *)
(* rewards.  Bookings are counted per field and order, and Follows says    *)
(* that a ledger is what the counts make it.  It is stated for any ledger, *)
(* table and counts, because confirmOrder passes through five ledgers in   *)
(* one step and a closing does the same in five steps.                     *)
(*                                                                         *)
(* What a handler books is computed from the row it read earlier.  So the  *)
(* invariant says that what a thread or a closing has read still agrees    *)
(* with the table in all that never changes: buyer, good, number of pieces *)
(* and price (SameDeal).                                                   *)
(*                                                                         *)
(* The second half is about one client at a time.  Stock, sales, bookings  *)
(* and frozen money are sums over the orders there (BooksKept).  Each      *)
(* statement of a closing is one entry in these books, and so is the       *)
(* writing half of a request; what a closing has booked and not yet        *)
(* entered elsewhere is computed from where it stands (Charged, Repaid,    *)
(* OffShelf, Unsold).                                                      *)
(***************************************************************************)
EXTENDS ShopClose, SumTheorems, TLAPS

-----------------------------------------------------------------------------
(***************************************************************************)
(* The ledger as a sum over the orders.                                    *)
(***************************************************************************)

Field == {"taken", "seller", "rebate", "one", "two"}
Tallies == [Field -> [Orders -> Int]]
Ledgers == [Users -> Balance]
Table(ord) == DOMAIN ord \in SUBSET Orders /\ ord \in [DOMAIN ord -> Row]

\* Whose balance field f of a confirmation of row r is about, and the rate.
Who(r, f) ==
  CASE f \in {"taken", "rebate"} -> r.user
    [] f = "seller" -> Owner[r.good]
    [] f = "one" -> InviterOf(r.user)
    [] f = "two" -> InviterOf(InviterOf(r.user))
Rate(f) ==
  CASE f \in {"taken", "seller"} -> 100
    [] f = "rebate" -> BuyRebate
    [] f = "one" -> OneLevel
    [] f = "two" -> TwoLevel

\* What c[f][o] bookings of field f for the orders o of user u come to.
Amounts(ord, c, f) ==
  [o \in DOMAIN ord |-> c[f][o] * Percent(ord[o].total, Rate(f))]
OrdersFor(ord, f, u) == {o \in DOMAIN ord : Who(ord[o], f) = u}
Sum(ord, c, f, u) == SumFunctionOnSet(Amounts(ord, c, f), OrdersFor(ord, f, u))

\* Ledger l is the result of the bookings c.
Follows(l, ord, c) ==
  \A u \in Users :
    /\ l[u].available + l[u].freeze =
         InitBalance + Sum(ord, c, "seller", u) + Sum(ord, c, "one", u)
                     + Sum(ord, c, "two", u)
    /\ l[u].award = InitAward + Sum(ord, c, "rebate", u) - Sum(ord, c, "taken", u)

LEMMA PercentType ==
  ASSUME NEW x \in Nat, NEW rate \in Nat
  PROVE  Percent(x, rate) \in Nat
<1>1. x * rate \in Nat
  OBVIOUS
<1>2. ASSUME NEW n \in Nat PROVE (n + 50) \div 100 \in Nat
  OBVIOUS
<1>. QED BY <1>1, <1>2 DEF Percent

LEMMA WholePercent == ASSUME NEW x \in Nat PROVE Percent(x, 100) = x
  BY DEF Percent

LEMMA RateType == ASSUME NEW f \in Field PROVE Rate(f) \in Nat
  BY MallAssumption DEF Field, Rate

\* The people of an order.
LEMMA WhoType ==
  ASSUME NEW r \in Row, NEW f \in Field
  PROVE  Who(r, f) \in Users \cup {Nobody}
<1>1. r.user \in Users /\ r.good \in Goods
  BY DEF Row
<1>2. ASSUME NEW v \in Users \cup {Nobody} PROVE InviterOf(v) \in Users \cup {Nobody}
  BY MallAssumption DEF InviterOf
<1>3. /\ InviterOf(r.user) \in Users \cup {Nobody}
      /\ InviterOf(InviterOf(r.user)) \in Users \cup {Nobody}
      /\ Owner[r.good] \in Users
  BY <1>1, <1>2, MallAssumption
<1>. QED BY <1>1, <1>3 DEF Who, Field

LEMMA AmountType ==
  ASSUME NEW ord, Table(ord), NEW c \in Tallies, NEW f \in Field,
         NEW o \in DOMAIN ord
  PROVE  /\ c[f][o] \in Int
         /\ Percent(ord[o].total, Rate(f)) \in Nat
         /\ Amounts(ord, c, f)[o] = c[f][o] * Percent(ord[o].total, Rate(f))
         /\ Amounts(ord, c, f)[o] \in Int
<1>1. ord[o].total \in Nat /\ o \in Orders
  BY DEF Table, Row
<1>2. Percent(ord[o].total, Rate(f)) \in Nat /\ c[f][o] \in Int
  BY <1>1, RateType, PercentType DEF Tallies
<1>3. ASSUME NEW a \in Int, NEW b \in Nat PROVE a * b \in Int
  OBVIOUS
<1>. QED BY <1>2, <1>3 DEF Amounts

LEMMA SumIsInt ==
  ASSUME NEW ord, Table(ord), NEW c \in Tallies, NEW f \in Field, NEW u
  PROVE  IsFiniteSet(OrdersFor(ord, f, u)) /\ Sum(ord, c, f, u) \in Int
<1>1. PICK S \in SUBSET DOMAIN ord : S = OrdersFor(ord, f, u)
  BY DEF OrdersFor
<1>2. IsFiniteSet(S)
  <2>1. IsFiniteSet(Orders) /\ S \in SUBSET Orders
    BY MallAssumption DEF Table
  <2>. QED BY <2>1, FS_Subset
<1>3. PICK w : w = Amounts(ord, c, f)
  OBVIOUS
<1>4. \A o \in S : w[o] \in Int
  BY <1>3, AmountType
<1>5. SumFunctionOnSet(w, S) \in Int
  BY <1>2, <1>4, SumType
<1>. QED BY <1>1, <1>2, <1>3, <1>5 DEF Sum

\* Tallies d have one booking more than c, of field f for order o.
Bump(c, d, f, o) ==
  /\ c \in Tallies /\ d \in Tallies
  /\ d[f][o] = c[f][o] + 1
  /\ \A x \in Orders : x # o => d[f][x] = c[f][x]
  /\ \A g \in Field : g # f => d[g] = c[g]

LEMMA SumBump ==
  ASSUME NEW ord, Table(ord), NEW o \in DOMAIN ord, NEW f \in Field,
         NEW c, NEW d, Bump(c, d, f, o), NEW u
  PROVE  Sum(ord, d, f, u) =
           Sum(ord, c, f, u)
             + (IF Who(ord[o], f) = u THEN Percent(ord[o].total, Rate(f)) ELSE 0)
<1>. c \in Tallies /\ d \in Tallies
  BY DEF Bump
<1>1. PICK w, v : w = Amounts(ord, c, f) /\ v = Amounts(ord, d, f)
  OBVIOUS
<1>2. PICK p \in Nat : p = Percent(ord[o].total, Rate(f))
  BY AmountType
<1>3. PICK S \in SUBSET DOMAIN ord : S = OrdersFor(ord, f, u)
  BY DEF OrdersFor
<1>4. /\ \A y \in S : w[y] \in Int /\ v[y] \in Int
      /\ w[o] \in Int /\ v[o] \in Int
      /\ w[o] = c[f][o] * p /\ v[o] = d[f][o] * p /\ c[f][o] \in Int
  BY <1>1, <1>2, AmountType
<1>5. ASSUME NEW a \in Int PROVE (a + 1) * p = a * p + p
  OBVIOUS
<1>6. v[o] = w[o] + p
  BY <1>4, <1>5 DEF Bump
<1>7. ASSUME NEW y \in S, y # o PROVE v[y] = w[y]
  <2>1. y \in Orders /\ y \in DOMAIN ord
    BY DEF Table
  <2>2. d[f][y] = c[f][y]
    BY <1>7, <2>1 DEF Bump
  <2>. QED BY <1>1, <2>1, <2>2 DEF Amounts
<1>8. IsFiniteSet(S)
  BY <1>3, SumIsInt
<1>9. /\ SumFunctionOnSet(w, S) \in Int
      /\ SumFunctionOnSet(v, S) =
           SumFunctionOnSet(w, S) - Share(w, S, o) + Share(v, S, o)
  <2>1. \A y \in S : w[y] \in Int
    BY <1>4
  <2>2. \A y \in S : v[y] \in Int
    BY <1>4
  <2>3. \A y \in S : y # o => v[y] = w[y]
    BY <1>7
  <2>. QED BY ONLY <1>8, <2>1, <2>2, <2>3, SumStep
<1>10. SumFunctionOnSet(v, S) =
         SumFunctionOnSet(w, S) + (IF o \in S THEN p ELSE 0)
  BY <1>4, <1>6, <1>9 DEF Share
<1>11. o \in S <=> Who(ord[o], f) = u
  BY <1>3 DEF OrdersFor
<1>12. Sum(ord, c, f, u) = SumFunctionOnSet(w, S)
  BY <1>1, <1>3 DEF Sum
<1>13. Sum(ord, d, f, u) = SumFunctionOnSet(v, S)
  BY <1>1, <1>3 DEF Sum
<1>. QED BY <1>2, <1>10, <1>11, <1>12, <1>13

LEMMA SumKeep ==
  ASSUME NEW ord, NEW o, NEW f, NEW c, NEW d, Bump(c, d, f, o),
         NEW g \in Field, g # f, NEW u
  PROVE  Sum(ord, d, g, u) = Sum(ord, c, g, u)
<1>1. d[g] = c[g]
  BY DEF Bump
<1>. QED BY <1>1 DEF Sum, Amounts

-----------------------------------------------------------------------------
(***************************************************************************)
(* What one posting does.                                                  *)
(***************************************************************************)

LEMMA PostType ==
  ASSUME NEW l \in Ledgers, NEW v \in Users \cup {Nobody},
         NEW dA \in Int, NEW dF \in Int, NEW dW \in Int,
         v # Nobody => Can(l, v, dA, dF, dW)
  PROVE  Post(l, v, dA, dF, dW) \in Ledgers
<1>1. CASE v = Nobody
  BY <1>1 DEF Post
<1>2. CASE v # Nobody
  <2>1. Change(l[v], dA, dF, dW) \in Balance
    BY <1>2 DEF Can, CanChange, Change, Ledgers, Balance
  <2>. QED BY <1>2, <2>1 DEF Post, Ledgers
<1>. QED BY <1>1, <1>2

LEMMA PostRow ==
  ASSUME NEW l \in Ledgers, NEW v \in Users \cup {Nobody},
         NEW dA \in Int, NEW dF \in Int, NEW dW \in Int, NEW u \in Users
  PROVE  /\ Post(l, v, dA, dF, dW)[u].available + Post(l, v, dA, dF, dW)[u].freeze =
              l[u].available + l[u].freeze + (IF u = v THEN dA + dF ELSE 0)
         /\ Post(l, v, dA, dF, dW)[u].award =
              l[u].award + (IF u = v THEN dW ELSE 0)
         /\ l[u].available + l[u].freeze \in Int /\ l[u].award \in Int
<1>1. l[u] \in Balance /\ u # Nobody
  BY MallAssumption DEF Ledgers
<1>2. CASE v = u
  <2>1. Post(l, v, dA, dF, dW)[u] = Change(l[u], dA, dF, dW)
    BY <1>1, <1>2 DEF Post, Ledgers
  <2>. QED BY <1>1, <1>2, <2>1 DEF Change, Balance
<1>3. CASE v # u
  <2>1. Post(l, v, dA, dF, dW)[u] = l[u]
    BY <1>1, <1>3 DEF Post, Ledgers
  <2>. QED BY <1>1, <1>3, <2>1 DEF Balance
<1>. QED BY <1>2, <1>3

\* Field f of a booking changes the available or the award balance.
Coins(f, p) == IF f \in {"seller", "one", "two"} THEN p ELSE 0
Award(f, p) == IF f = "taken" THEN 0 - p ELSE IF f = "rebate" THEN p ELSE 0

\* m is ledger l with field f of a confirmation of row r booked.
Books(l, m, r, f) ==
  \E p \in Nat, dA \in Int, z \in Int, dW \in Int :
    /\ p = Percent(r.total, Rate(f)) /\ z = 0
    /\ dA = Coins(f, p) /\ dW = Award(f, p)
    /\ m = Post(l, Who(r, f), dA, z, dW)
    /\ f = "taken" => Can(l, Who(r, f), dA, z, dW)

LEMMA BooksType ==
  ASSUME NEW l \in Ledgers, NEW m, NEW r \in Row, NEW f \in Field, Books(l, m, r, f)
  PROVE  m \in Ledgers
<1>1. PICK v \in Users \cup {Nobody} : v = Who(r, f)
  BY WhoType
<1>2. PICK p \in Nat, dA \in Int, z \in Int, dW \in Int :
        /\ z = 0 /\ dA = Coins(f, p) /\ dW = Award(f, p)
        /\ m = Post(l, v, dA, z, dW) /\ (f = "taken" => Can(l, v, dA, z, dW))
  BY <1>1 DEF Books
<1>3. ASSUME v # Nobody, f # "taken" PROVE Can(l, v, dA, z, dW)
  <2>1. l[v] \in Balance /\ dA \in Nat /\ dW \in Nat
    BY <1>2, <1>3 DEF Ledgers, Coins, Award
  <2>. QED BY <1>2, <2>1 DEF Can, CanChange, Balance
<1>. QED BY <1>2, <1>3, PostType

\* One more booking in the ledger is one more in the counts.
LEMMA BooksFollow ==
  ASSUME NEW ord, Table(ord), NEW o \in DOMAIN ord, NEW f \in Field,
         NEW l \in Ledgers, NEW c, NEW d, Bump(c, d, f, o), Follows(l, ord, c),
         NEW m, Books(l, m, ord[o], f)
  PROVE  m \in Ledgers /\ Follows(m, ord, d)
<1>0. ord[o] \in Row
  BY DEF Table
<1>1. PICK v \in Users \cup {Nobody} : v = Who(ord[o], f)
  BY <1>0, WhoType
<1>2. PICK p \in Nat, dA \in Int, z \in Int, dW \in Int :
        /\ p = Percent(ord[o].total, Rate(f)) /\ z = 0
        /\ dA = Coins(f, p) /\ dW = Award(f, p)
        /\ m = Post(l, v, dA, z, dW)
  BY <1>1 DEF Books
<1>3. m \in Ledgers
  BY <1>0, BooksType
<1>4. ASSUME NEW u \in Users
      PROVE  /\ m[u].available + m[u].freeze =
                  InitBalance + Sum(ord, d, "seller", u) + Sum(ord, d, "one", u)
                              + Sum(ord, d, "two", u)
             /\ m[u].award =
                  InitAward + Sum(ord, d, "rebate", u) - Sum(ord, d, "taken", u)
  <2>1. /\ m[u].available + m[u].freeze =
             l[u].available + l[u].freeze + (IF u = v THEN dA + z ELSE 0)
        /\ m[u].award = l[u].award + (IF u = v THEN dW ELSE 0)
    BY <1>2, PostRow
  <2>2. /\ l[u].available + l[u].freeze =
             InitBalance + Sum(ord, c, "seller", u) + Sum(ord, c, "one", u)
                         + Sum(ord, c, "two", u)
        /\ l[u].award =
             InitAward + Sum(ord, c, "rebate", u) - Sum(ord, c, "taken", u)
    BY DEF Follows
  <2>3. ASSUME NEW g \in Field
        PROVE  /\ Sum(ord, c, g, u) \in Int
               /\ Sum(ord, d, g, u) =
                    Sum(ord, c, g, u) + (IF g = f /\ u = v THEN p ELSE 0)
    <3>1. Sum(ord, c, g, u) \in Int
      BY SumIsInt DEF Bump
    <3>2. CASE g = f
      <4>1. Sum(ord, d, f, u) = Sum(ord, c, f, u) + (IF v = u THEN p ELSE 0)
        BY <1>1, <1>2, SumBump
      <4>. QED BY <3>1, <3>2, <4>1
    <3>3. CASE g # f
      <4>1. Sum(ord, d, g, u) = Sum(ord, c, g, u)
        BY <3>3, SumKeep
      <4>. QED BY <3>1, <3>3, <4>1
    <3>. QED BY <3>2, <3>3
  <2>4. InitBalance \in Int /\ InitAward \in Int
    BY MallAssumption
  <2>5. PICK a0, a1, a2, a3, a4, b0, b1, b2, b3, b4 :
          /\ a0 = Sum(ord, c, "taken", u) /\ b0 = Sum(ord, d, "taken", u)
          /\ a1 = Sum(ord, c, "seller", u) /\ b1 = Sum(ord, d, "seller", u)
          /\ a2 = Sum(ord, c, "rebate", u) /\ b2 = Sum(ord, d, "rebate", u)
          /\ a3 = Sum(ord, c, "one", u) /\ b3 = Sum(ord, d, "one", u)
          /\ a4 = Sum(ord, c, "two", u) /\ b4 = Sum(ord, d, "two", u)
    OBVIOUS
  <2>6. /\ a0 \in Int /\ b0 = a0 + (IF f = "taken" /\ u = v THEN p ELSE 0)
        /\ a1 \in Int /\ b1 = a1 + (IF f = "seller" /\ u = v THEN p ELSE 0)
        /\ a2 \in Int /\ b2 = a2 + (IF f = "rebate" /\ u = v THEN p ELSE 0)
        /\ a3 \in Int /\ b3 = a3 + (IF f = "one" /\ u = v THEN p ELSE 0)
        /\ a4 \in Int /\ b4 = a4 + (IF f = "two" /\ u = v THEN p ELSE 0)
    BY <2>3, <2>5 DEF Field
  <2>7. f \in {"taken", "seller", "rebate", "one", "two"}
    BY DEF Field
  <2>8. /\ m[u].available + m[u].freeze = InitBalance + b1 + b3 + b4
        /\ m[u].award = InitAward + b2 - b0
    BY <1>2, <2>1, <2>2, <2>4, <2>5, <2>6, <2>7 DEF Coins, Award
  <2>. QED BY <2>5, <2>8
<1>. QED BY <1>3, <1>4 DEF Follows

-----------------------------------------------------------------------------
(***************************************************************************)
(* Tables that grow, and ledgers in which only the freezing differs.       *)
(***************************************************************************)

SameDeal(r, s) ==
  r.user = s.user /\ r.good = s.good /\ r.count = s.count /\ r.total = s.total

\* Orders are added, never removed, and the deal of an order never changes.
Grows(ord, ord2) ==
  /\ Table(ord2)
  /\ DOMAIN ord \subseteq DOMAIN ord2
  /\ \A o \in DOMAIN ord : SameDeal(ord2[o], ord[o])

\* New orders are not booked.
Unbooked(ord, c) ==
  \A f \in Field, o \in Orders : o \notin DOMAIN ord => c[f][o] = 0

LEMMA SameDealWho ==
  ASSUME NEW r, NEW s, SameDeal(r, s), NEW f \in Field
  PROVE  Who(r, f) = Who(s, f)
  BY DEF SameDeal, Who, Field

LEMMA TableFollows ==
  ASSUME NEW ord, Table(ord), NEW ord2, Grows(ord, ord2),
         NEW c \in Tallies, Unbooked(ord, c),
         NEW l, Follows(l, ord, c)
  PROVE  Follows(l, ord2, c)
<1>. Table(ord2)
  BY DEF Grows
<1>1. ASSUME NEW f \in Field, NEW u
      PROVE  Sum(ord2, c, f, u) = Sum(ord, c, f, u)
  <2>1. PICK w, v : w = Amounts(ord, c, f) /\ v = Amounts(ord2, c, f)
    OBVIOUS
  <2>2. PICK S, S2 : S = OrdersFor(ord, f, u) /\ S2 = OrdersFor(ord2, f, u)
    OBVIOUS
  <2>3. IsFiniteSet(S2) /\ S2 \subseteq DOMAIN ord2 /\ S2 \subseteq Orders
    <3>1. S2 \subseteq DOMAIN ord2
      BY <2>2 DEF OrdersFor
    <3>. QED BY <2>2, <3>1, SumIsInt DEF Table
  <2>4. ASSUME NEW o \in DOMAIN ord
        PROVE  /\ o \in S <=> o \in S2
               /\ v[o] = w[o]
    <3>1. o \in DOMAIN ord2 /\ SameDeal(ord2[o], ord[o])
      BY DEF Grows
    <3>2. Who(ord2[o], f) = Who(ord[o], f)
      BY <3>1, SameDealWho
    <3>3. ord2[o].total = ord[o].total
      BY <3>1 DEF SameDeal
    <3>4. o \in S <=> o \in S2
      BY <2>2, <3>1, <3>2 DEF OrdersFor
    <3>5. v[o] = w[o]
      BY <2>1, <3>1, <3>3 DEF Amounts
    <3>. QED BY <3>4, <3>5
  <2>5. S \in SUBSET S2
    <3>1. S \subseteq DOMAIN ord
      BY <2>2 DEF OrdersFor
    <3>. QED BY <2>4, <3>1
  <2>6. \A y \in S : v[y] = w[y]
    <3>1. S \subseteq DOMAIN ord
      BY <2>2 DEF OrdersFor
    <3>. QED BY <2>4, <3>1
  <2>7. \A y \in S2 : v[y] \in Int
    BY <2>1, <2>3, AmountType
  <2>8. ASSUME NEW y \in S2 \ S PROVE v[y] = 0
    <3>1. y \in DOMAIN ord2 /\ y \notin DOMAIN ord /\ y \in Orders
      BY <2>3, <2>4
    <3>2. c[f][y] = 0
      BY <3>1 DEF Unbooked
    <3>3. PICK p \in Nat : p = Percent(ord2[y].total, Rate(f))
      BY <3>1, AmountType
    <3>4. v[y] = 0 * p
      BY <2>1, <3>1, <3>2, <3>3 DEF Amounts
    <3>. QED BY <3>4
  <2>9. SumFunctionOnSet(v, S2) = SumFunctionOnSet(w, S)
    BY ONLY <2>3, <2>5, <2>6, <2>7, <2>8, SumGrows
  <2>. QED BY <2>1, <2>2, <2>9 DEF Sum
<1>2. ASSUME NEW u \in Users
      PROVE  /\ Sum(ord2, c, "seller", u) = Sum(ord, c, "seller", u)
             /\ Sum(ord2, c, "one", u) = Sum(ord, c, "one", u)
             /\ Sum(ord2, c, "two", u) = Sum(ord, c, "two", u)
             /\ Sum(ord2, c, "rebate", u) = Sum(ord, c, "rebate", u)
             /\ Sum(ord2, c, "taken", u) = Sum(ord, c, "taken", u)
  <2>1. /\ "seller" \in Field /\ "one" \in Field /\ "two" \in Field
        /\ "rebate" \in Field /\ "taken" \in Field
    BY DEF Field
  <2>. QED BY <1>1, <2>1
<1>. QED BY <1>2 DEF Follows

\* Freezing and unfreezing change nothing the counts speak of.
LEMMA FreezeFollows ==
  ASSUME NEW ord, NEW c, NEW l \in Ledgers, Follows(l, ord, c),
         NEW v \in Users, NEW dA \in Int, NEW dF \in Int, NEW dW \in Int,
         dA + dF = 0, dW = 0, Can(l, v, dA, dF, dW),
         NEW m, m = Post(l, v, dA, dF, dW)
  PROVE  m \in Ledgers /\ Follows(m, ord, c)
<1>1. m \in Ledgers
  BY PostType
<1>2. ASSUME NEW u \in Users
      PROVE  /\ m[u].available + m[u].freeze = l[u].available + l[u].freeze
             /\ m[u].award = l[u].award
  <2>1. /\ m[u].available + m[u].freeze =
             l[u].available + l[u].freeze + (IF u = v THEN dA + dF ELSE 0)
        /\ m[u].award = l[u].award + (IF u = v THEN dW ELSE 0)
        /\ l[u].available + l[u].freeze \in Int /\ l[u].award \in Int
    BY PostRow
  <2>. QED BY <2>1
<1>. QED BY <1>1, <1>2 DEF Follows

\* The bookings of all fields, from the bills and the credits still missing.
Shortages == [Orders -> [seller : Nat, rebate : Nat, one : Nat, two : Nat]]
Bills == [Orders -> [confirmed : Nat, refunded : Nat]]
Tally(b, s) ==
  [f \in Field |-> [o \in Orders |->
     IF f = "taken" THEN b[o].confirmed ELSE b[o].confirmed - s[o][f]]]

LEMMA TallyType ==
  ASSUME NEW b \in Bills, NEW s \in Shortages
  PROVE  Tally(b, s) \in Tallies
<1>1. ASSUME NEW f \in Field, NEW o \in Orders
      PROVE  (IF f = "taken" THEN b[o].confirmed ELSE b[o].confirmed - s[o][f]) \in Int
  <2>1. b[o].confirmed \in Nat
    BY DEF Bills
  <2>2. CASE f = "taken"
    BY <2>1, <2>2
  <2>3. CASE f # "taken"
    <3>1. f \in {"seller", "rebate", "one", "two"}
      BY <2>3 DEF Field
    <3>2. s[o] \in [seller : Nat, rebate : Nat, one : Nat, two : Nat]
      BY DEF Shortages
    <3>3. s[o][f] \in Nat
      BY <3>1, <3>2
    <3>. QED BY <2>1, <2>3, <3>3
  <2>. QED BY <2>2, <2>3
<1>. QED BY <1>1 DEF Tally, Tallies

\* Only the confirmations of an order count.
LEMMA TallySame ==
  ASSUME NEW b, NEW b2, NEW s,
         \A o \in Orders : b2[o].confirmed = b[o].confirmed
  PROVE  Tally(b2, s) = Tally(b, s)
<1>1. ASSUME NEW f \in Field
      PROVE  [o \in Orders |-> IF f = "taken" THEN b2[o].confirmed
                               ELSE b2[o].confirmed - s[o][f]]
               = [o \in Orders |-> IF f = "taken" THEN b[o].confirmed
                                   ELSE b[o].confirmed - s[o][f]]
  OBVIOUS
<1>. QED BY <1>1 DEF Tally

Once(c, f, o) == [c EXCEPT ![f] = [c[f] EXCEPT ![o] = c[f][o] + 1]]

LEMMA OnceBumps ==
  ASSUME NEW c \in Tallies, NEW f \in Field, NEW o \in Orders,
         NEW d, d = Once(c, f, o)
  PROVE  Bump(c, d, f, o)
<1>1. c[f] \in [Orders -> Int]
  BY DEF Tallies
<1>2. PICK k : k = [c[f] EXCEPT ![o] = c[f][o] + 1]
  OBVIOUS
<1>3. k \in [Orders -> Int]
  <2>1. c[f][o] + 1 \in Int
    BY <1>1
  <2>. QED BY <1>1, <1>2, <2>1
<1>4. /\ k[o] = c[f][o] + 1
      /\ \A x \in Orders : x # o => k[x] = c[f][x]
  BY <1>1, <1>2
<1>5. d = [c EXCEPT ![f] = k]
  BY <1>2 DEF Once
<1>6. /\ d \in Tallies /\ d[f] = k
      /\ \A g \in Field : g # f => d[g] = c[g]
  BY <1>3, <1>5 DEF Tallies
<1>. QED BY <1>4, <1>6 DEF Bump

\* A whole confirmation, all five fields one after the other.
LEMMA ConfirmFollows ==
  ASSUME NEW ord, Table(ord), NEW o \in DOMAIN ord, NEW s \in Shortages,
         NEW b \in Bills, NEW b2 \in Bills,
         b2[o].confirmed = b[o].confirmed + 1,
         \A x \in Orders : x # o => b2[x].confirmed = b[x].confirmed,
         NEW l \in Ledgers, Follows(l, ord, Tally(b, s)),
         NEW m1, Books(l, m1, ord[o], "taken"),
         NEW m2, Books(m1, m2, ord[o], "seller"),
         NEW m3, Books(m2, m3, ord[o], "rebate"),
         NEW m4, Books(m3, m4, ord[o], "one"),
         NEW m5, Books(m4, m5, ord[o], "two")
  PROVE  m5 \in Ledgers /\ Follows(m5, ord, Tally(b2, s))
<1>0. /\ "seller" \in Field /\ "one" \in Field /\ "two" \in Field
      /\ "rebate" \in Field /\ "taken" \in Field /\ o \in Orders
  BY DEF Field, Table
<1>1. PICK c \in Tallies : c = Tally(b, s)
  BY TallyType
<1>2. PICK c1 : c1 = Once(c, "taken", o)
  OBVIOUS
<1>3. PICK c2 : c2 = Once(c1, "seller", o)
  OBVIOUS
<1>4. PICK c3 : c3 = Once(c2, "rebate", o)
  OBVIOUS
<1>5. PICK c4 : c4 = Once(c3, "one", o)
  OBVIOUS
<1>6. PICK c5 : c5 = Once(c4, "two", o)
  OBVIOUS
<1>7. Bump(c, c1, "taken", o)
  BY <1>0, <1>2, OnceBumps
<1>8. Bump(c1, c2, "seller", o)
  <2>1. c1 \in Tallies
    BY <1>7 DEF Bump
  <2>. QED BY <1>0, <1>3, <2>1, OnceBumps
<1>9. Bump(c2, c3, "rebate", o)
  <2>1. c2 \in Tallies
    BY <1>8 DEF Bump
  <2>. QED BY <1>0, <1>4, <2>1, OnceBumps
<1>10. Bump(c3, c4, "one", o)
  <2>1. c3 \in Tallies
    BY <1>9 DEF Bump
  <2>. QED BY <1>0, <1>5, <2>1, OnceBumps
<1>11. Bump(c4, c5, "two", o)
  <2>1. c4 \in Tallies
    BY <1>10 DEF Bump
  <2>. QED BY <1>0, <1>6, <2>1, OnceBumps
<1>12. m1 \in Ledgers /\ Follows(m1, ord, c1)
  BY <1>0, <1>1, <1>7, BooksFollow
<1>13. m2 \in Ledgers /\ Follows(m2, ord, c2)
  BY <1>0, <1>8, <1>12, BooksFollow
<1>14. m3 \in Ledgers /\ Follows(m3, ord, c3)
  BY <1>0, <1>9, <1>13, BooksFollow
<1>15. m4 \in Ledgers /\ Follows(m4, ord, c4)
  BY <1>0, <1>10, <1>14, BooksFollow
<1>16. m5 \in Ledgers /\ Follows(m5, ord, c5)
  BY <1>0, <1>11, <1>15, BooksFollow
<1>17. c5 = Tally(b2, s)
  <2>1. PICK d \in Tallies : d = Tally(b2, s)
    BY TallyType
  <2>2. ASSUME NEW f \in Field
        PROVE  /\ c5[f] \in [Orders -> Int] /\ d[f] \in [Orders -> Int]
               /\ c5[f][o] = c[f][o] + 1
               /\ \A x \in Orders : x # o => c5[f][x] = c[f][x]
    BY <1>7, <1>8, <1>9, <1>10, <1>11, <2>1 DEF Bump, Field, Tallies
  <2>3. ASSUME NEW f \in Field
        PROVE  /\ d[f][o] = c[f][o] + 1
               /\ \A x \in Orders : x # o => d[f][x] = c[f][x]
    <3>1. ASSUME NEW x \in Orders
          PROVE  /\ c[f][x] = IF f = "taken" THEN b[x].confirmed
                              ELSE b[x].confirmed - s[x][f]
                 /\ d[f][x] = IF f = "taken" THEN b2[x].confirmed
                              ELSE b2[x].confirmed - s[x][f]
      BY <1>1, <2>1 DEF Tally
    <3>2. \A x \in Orders : x # o => d[f][x] = c[f][x]
      BY <3>1
    <3>3. b[o].confirmed \in Nat
      BY <1>0 DEF Bills
    <3>4. CASE f = "taken"
      BY <1>0, <3>1, <3>2, <3>4
    <3>5. CASE f # "taken"
      <4>1. f \in {"seller", "rebate", "one", "two"}
        BY <3>5 DEF Field
      <4>2. s[o] \in [seller : Nat, rebate : Nat, one : Nat, two : Nat]
        BY <1>0 DEF Shortages
      <4>3. PICK q \in Nat : q = s[o][f]
        BY <4>1, <4>2
      <4>4. c[f][o] = b[o].confirmed - q /\ d[f][o] = b2[o].confirmed - q
        BY <1>0, <3>1, <3>5, <4>3
      <4>. QED BY <3>2, <3>3, <4>4
    <3>. QED BY <3>4, <3>5
  <2>4. ASSUME NEW f \in Field PROVE c5[f] = d[f]
    <3>1. \A x \in Orders : c5[f][x] = d[f][x]
      BY <2>2, <2>3
    <3>. QED BY <2>2, <3>1
  <2>5. c5 \in Tallies
    BY <1>11 DEF Bump
  <2>6. c5 = d
    BY <2>1, <2>4, <2>5 DEF Tallies
  <2>. QED BY <2>1, <2>6
<1>. QED BY <1>16, <1>17

-----------------------------------------------------------------------------
(***************************************************************************)
(* The invariant of MallOrder.                                             *)
(***************************************************************************)

GoodTable == [Goods -> [stock : Nat, sales : Nat]]

LinesOK(lines) ==
  /\ IsFiniteSet(lines)
  /\ \A l \in lines : l.good \in Goods /\ l.count \in 1 .. MaxCount

\* A payment that has read the stock: it suffices for the lines.
PayState(x) ==
  /\ x.op = "payOrder"
  /\ x.user \in Users /\ LinesOK(x.lines) /\ x.goods \in GoodTable
  /\ \A g \in Goods :
       CountOf(x.lines, g) > 0 => x.goods[g].stock >= CountOf(x.lines, g)

\* A handler that has read an order of table ord.
OpState(x, ord) ==
  /\ x.op \in OrderOp
  /\ x.order \in DOMAIN ord /\ x.row \in Row /\ SameDeal(x.row, ord[x.order])
  /\ x.goods \in GoodTable

TxShape(q, ord) ==
  /\ DOMAIN q = Threads
  /\ \A t \in Threads : q[t] = Idle \/ PayState(q[t]) \/ OpState(q[t], ord)

CartOK == \A k \in DOMAIN cart : cart[k] = InitCart[k]
FreshBills == \A o \in Orders : o \notin DOMAIN order => bills[o].confirmed = 0

BaseInv == TypeOK /\ TxShape(tx, order) /\ CartOK /\ FreshBills

\* No order that does not exist lacks a credit.
FreshShort(s) ==
  \A o \in Orders, f \in Field \ {"taken"} : o \notin DOMAIN order => s[o][f] = 0

\* The ledger follows the bookings, of which s are still missing.
LedgerInv(s) == FreshShort(s) /\ Follows(coin, order, Tally(bills, s))

\* In MallOrder no booking is ever missing.
NoShortage ==
  [o \in Orders |-> [seller |-> 0, rebate |-> 0, one |-> 0, two |-> 0]]

MallInv == BaseInv /\ LedgerInv(NoShortage)

\* The lines of a payment, as operators on sets.
LEMMA CountType ==
  ASSUME NEW lines, LinesOK(lines), NEW g
  PROVE  CountOf(lines, g) \in Int
<1>1. PICK w : w = [l \in lines |-> l.count]
  OBVIOUS
<1>2. PICK S \in SUBSET lines : S = {l \in lines : l.good = g}
  OBVIOUS
<1>3. IsFiniteSet(S)
  BY FS_Subset DEF LinesOK
<1>4. \A l \in S : w[l] \in Int
  BY <1>1, <1>2 DEF LinesOK
<1>5. SumFunctionOnSet(w, S) \in Int
  BY <1>3, <1>4, SumType
<1>. QED BY <1>1, <1>2, <1>5 DEF CountOf

LEMMA TotalType ==
  ASSUME NEW lines, LinesOK(lines)
  PROVE  TotalOf(lines) \in Int
<1>1. PICK w : w = [l \in lines |-> l.count * Price[l.good]]
  OBVIOUS
<1>2. ASSUME NEW l \in lines PROVE w[l] \in Int
  <2>1. l.count \in 1 .. MaxCount /\ Price[l.good] \in Nat
    BY MallAssumption DEF LinesOK
  <2>2. PICK n \in Nat, q \in Nat : n = l.count /\ q = Price[l.good]
    BY <2>1, MallAssumption
  <2>3. n * q \in Nat
    OBVIOUS
  <2>. QED BY <1>1, <2>2, <2>3
<1>3. IsFiniteSet(lines)
  BY DEF LinesOK
<1>4. SumFunctionOnSet(w, lines) \in Int
  BY <1>2, <1>3, SumType
<1>. QED BY <1>1, <1>4 DEF TotalOf

LEMMA NewRowType ==
  ASSUME NEW lines, LinesOK(lines), NEW u \in Users, NEW l \in lines
  PROVE  NewRow(u, l) \in Row
<1>1. l.good \in Goods /\ l.count \in 1 .. MaxCount /\ Price[l.good] \in Nat
  BY MallAssumption DEF LinesOK
<1>2. PICK n \in Nat, q \in Nat : n = l.count /\ q = Price[l.good]
  BY <1>1, MallAssumption
<1>3. n * q \in Nat
  OBVIOUS
<1>4. l.count * Price[l.good] \in Nat
  BY <1>2, <1>3
<1>. QED BY <1>1, <1>4 DEF NewRow, Row

LEMMA OnceLinesOK ==
  ASSUME NEW g \in Goods, NEW n \in 0 .. MaxCount, NEW lines,
         lines = OnceLines(g, n), \A l \in lines : l.count > 0
  PROVE  LinesOK(lines)
<1>1. PICK x : x = [good |-> g, count |-> n, cartId |-> Nobody]
  OBVIOUS
<1>2. lines = {x}
  BY <1>1 DEF OnceLines
<1>3. IsFiniteSet(lines)
  BY <1>2, FS_Singleton
<1>4. x.good = g /\ x.count = n /\ n > 0
  BY <1>1, <1>2
<1>5. n \in 1 .. MaxCount
  BY <1>4, MallAssumption
<1>. QED BY <1>2, <1>3, <1>4, <1>5 DEF LinesOK

LEMMA CartLinesOK ==
  ASSUME BaseInv, NEW ids \in SUBSET DOMAIN cart, NEW lines, lines = CartLines(ids)
  PROVE  LinesOK(lines)
<1>1. PICK f : f = [k \in ids |-> [good |-> cart[k].good, count |-> cart[k].number,
                                  cartId |-> k]]
  OBVIOUS
<1>2. f \in Surjection(ids, lines)
  BY <1>1 DEF CartLines, Surjection
<1>3. IsFiniteSet(ids)
  <2>1. ids \in SUBSET DOMAIN InitCart
    BY DEF BaseInv, TypeOK
  <2>. QED BY <2>1, MallAssumption, FS_Subset
<1>4. IsFiniteSet(lines)
  BY <1>2, <1>3, FS_Surjection
<1>5. ASSUME NEW l \in lines PROVE l.good \in Goods /\ l.count \in 1 .. MaxCount
  <2>1. PICK k \in ids : l = [good |-> cart[k].good, count |-> cart[k].number,
                              cartId |-> k]
    BY DEF CartLines
  <2>2. /\ cart[k] = InitCart[k]
        /\ InitCart[k] \in [user : Users, good : Goods, number : 1 .. MaxCount]
    BY MallAssumption DEF BaseInv, CartOK, TypeOK
  <2>. QED BY <2>1, <2>2
<1>. QED BY <1>4, <1>5 DEF LinesOK

-----------------------------------------------------------------------------
\* What threads have read, and tables that grow.

LEMMA TxOps ==
  ASSUME NEW q, NEW ord, TxShape(q, ord), NEW t \in Threads
  PROVE  q[t].op \in OrderOp \cup {"none", "payOrder"}
  BY DEF TxShape, Idle, PayState, OpState

LEMMA OpGrows ==
  ASSUME NEW x, NEW ord, NEW ord2, Grows(ord, ord2), OpState(x, ord)
  PROVE  OpState(x, ord2)
  BY DEF OpState, Grows, SameDeal

LEMMA TxGrows ==
  ASSUME NEW q, NEW ord, NEW ord2, Grows(ord, ord2), TxShape(q, ord)
  PROVE  TxShape(q, ord2)
  BY OpGrows DEF TxShape

LEMMA TxDone ==
  ASSUME NEW q, NEW ord, NEW ord2, Grows(ord, ord2), TxShape(q, ord),
         NEW t \in Threads, NEW q2, q2 = [q EXCEPT ![t] = Idle]
  PROVE  TxShape(q2, ord2)
<1>1. TxShape(q2, ord)
  BY DEF TxShape
<1>. QED BY <1>1, TxGrows

LEMMA TxRead ==
  ASSUME NEW q, NEW ord, TxShape(q, ord), NEW t \in Threads,
         NEW x, PayState(x) \/ OpState(x, ord), NEW q2, q2 = [q EXCEPT ![t] = x]
  PROVE  TxShape(q2, ord)
<1>1. DOMAIN q = Threads
  BY DEF TxShape
<1>2. DOMAIN q2 = Threads /\ q2[t] = x
  BY <1>1
<1>3. ASSUME NEW i \in Threads PROVE i # t => q2[i] = q[i]
  BY <1>1
<1>. QED BY <1>2, <1>3 DEF TxShape

LEMMA GrowsSelf == ASSUME NEW ord, Table(ord) PROVE Grows(ord, ord)
  BY DEF Grows, SameDeal

\* An order changes its status, or whether it was returned.
LEMMA StatusGrows ==
  ASSUME NEW ord, Table(ord), NEW o \in DOMAIN ord,
         NEW st \in {"UNSEND", "SENT", "SUCCESS", "CANCEL"},
         NEW ord2, ord2 = [ord EXCEPT ![o].status = st]
  PROVE  Grows(ord, ord2) /\ DOMAIN ord2 = DOMAIN ord
<1>1. PICK r, r2 : r = ord[o] /\ r2 = [r EXCEPT !.status = st]
  OBVIOUS
<1>2. r \in Row
  BY <1>1 DEF Table
<1>3. r2 \in Row /\ SameDeal(r2, r)
  BY <1>1, <1>2 DEF Row, SameDeal
<1>4. /\ DOMAIN ord2 = DOMAIN ord /\ ord2[o] = r2
      /\ \A x \in DOMAIN ord : x # o => ord2[x] = ord[x]
  BY <1>1 DEF Table
<1>5. \A x \in DOMAIN ord : ord2[x] \in Row /\ SameDeal(ord2[x], ord[x])
  BY <1>1, <1>3, <1>4 DEF Table, SameDeal
<1>6. ord2 \in [DOMAIN ord2 -> Row]
  <2>1. ord2 = [x \in DOMAIN ord2 |-> ord2[x]]
    BY DEF Table
  <2>. QED BY <1>4, <1>5, <2>1
<1>. QED BY <1>4, <1>5, <1>6 DEF Grows, Table

LEMMA ReturnedGrows ==
  ASSUME NEW ord, Table(ord), NEW o \in DOMAIN ord,
         NEW st \in {"NORMAL", "RETURNING", "RETURNED"},
         NEW ord2, ord2 = [ord EXCEPT ![o].returned = st]
  PROVE  Grows(ord, ord2) /\ DOMAIN ord2 = DOMAIN ord
<1>1. PICK r, r2 : r = ord[o] /\ r2 = [r EXCEPT !.returned = st]
  OBVIOUS
<1>2. r \in Row
  BY <1>1 DEF Table
<1>3. r2 \in Row /\ SameDeal(r2, r)
  BY <1>1, <1>2 DEF Row, SameDeal
<1>4. /\ DOMAIN ord2 = DOMAIN ord /\ ord2[o] = r2
      /\ \A x \in DOMAIN ord : x # o => ord2[x] = ord[x]
  BY <1>1 DEF Table
<1>5. \A x \in DOMAIN ord : ord2[x] \in Row /\ SameDeal(ord2[x], ord[x])
  BY <1>1, <1>3, <1>4 DEF Table, SameDeal
<1>6. ord2 \in [DOMAIN ord2 -> Row]
  <2>1. ord2 = [x \in DOMAIN ord2 |-> ord2[x]]
    BY DEF Table
  <2>. QED BY <1>4, <1>5, <2>1
<1>. QED BY <1>4, <1>5, <1>6 DEF Grows, Table

\* A payment adds one order per line.
LEMMA NewOrdersGrow ==
  ASSUME NEW ord, Table(ord), NEW lines, LinesOK(lines), NEW u \in Users,
         NEW id \in [lines -> Orders \ DOMAIN ord], NEW ord2,
         ord2 = [o \in DOMAIN ord \cup Range(id) |->
                   IF o \in DOMAIN ord THEN ord[o]
                   ELSE NewRow(u, Inverse(id, lines, Range(id))[o])]
  PROVE  Grows(ord, ord2)
<1>1. DOMAIN ord2 = DOMAIN ord \cup Range(id) /\ Range(id) \subseteq Orders
  BY DEF Range
<1>2. \A o \in DOMAIN ord : ord2[o] = ord[o]
  BY <1>1
<1>3. ASSUME NEW o \in Range(id), o \notin DOMAIN ord PROVE ord2[o] \in Row
  <2>1. PICK l \in lines : id[l] = o
    BY DEF Range
  <2>2. PICK k \in lines : Inverse(id, lines, Range(id))[o] = k
    BY <2>1 DEF Inverse
  <2>3. ord2[o] = NewRow(u, k)
    BY <1>1, <1>3, <2>2
  <2>. QED BY <2>3, NewRowType
<1>4. ord2 \in [DOMAIN ord2 -> Row]
  <2>1. ord2 = [x \in DOMAIN ord2 |-> ord2[x]]
    OBVIOUS
  <2>2. \A x \in DOMAIN ord2 : ord2[x] \in Row
    BY <1>1, <1>2, <1>3 DEF Table
  <2>. QED BY <2>1, <2>2
<1>. QED BY <1>1, <1>2, <1>4 DEF Grows, Table, SameDeal

-----------------------------------------------------------------------------
(***************************************************************************)
(* Every step of MallOrder preserves the invariant.                        *)
(***************************************************************************)

LEMMA BaseFacts ==
  ASSUME BaseInv
  PROVE  /\ coin \in Ledgers /\ good \in GoodTable /\ Table(order)
         /\ bills \in Bills /\ rept \in [Users -> Nat]
         /\ DOMAIN cart \in SUBSET DOMAIN InitCart
         /\ TxShape(tx, order) /\ CartOK /\ FreshBills
  BY DEF BaseInv, TypeOK, Ledgers, GoodTable, Table, Bills

LEMMA BaseNext ==
  ASSUME coin' \in Ledgers, good' \in GoodTable, Table(order'), bills' \in Bills,
         rept' \in [Users -> Nat], DOMAIN cart' \in SUBSET DOMAIN InitCart,
         TxShape(tx', order'), CartOK', FreshBills'
  PROVE  BaseInv'
<1>1. \A t \in Threads : tx'[t].op \in OrderOp \cup {"none", "payOrder"}
  BY TxOps
<1>2. TypeOK'
  BY <1>1 DEF TypeOK, Ledgers, GoodTable, Table, Bills
<1>. QED BY <1>2 DEF BaseInv

LEMMA BaseInit == Init => BaseInv /\ LedgerInv(NoShortage)
<1>. SUFFICES ASSUME Init PROVE BaseInv /\ LedgerInv(NoShortage)
  OBVIOUS
<1>1. coin \in Ledgers /\ good \in GoodTable /\ bills \in Bills /\ rept \in [Users -> Nat]
  BY MallAssumption DEF Init, Ledgers, Balance, GoodTable, Bills
<1>2. Table(order) /\ DOMAIN order = {}
  BY DEF Init, Table
<1>3. TxShape(tx, order)
  BY DEF Init, TxShape
<1>4. \A t \in Threads : tx[t].op \in OrderOp \cup {"none", "payOrder"}
  BY <1>3, TxOps
<1>5. CartOK /\ FreshBills
  BY DEF Init, CartOK, FreshBills
<1>6. BaseInv
  BY <1>1, <1>2, <1>3, <1>4, <1>5
     DEF Init, BaseInv, TypeOK, Ledgers, GoodTable, Table, Bills
<1>7. FreshShort(NoShortage)
  BY DEF FreshShort, NoShortage, Field
<1>8. ASSUME NEW c, NEW f, NEW u PROVE Sum(order, c, f, u) = 0
  <2>1. OrdersFor(order, f, u) = {}
    BY <1>2 DEF OrdersFor
  <2>. QED BY <2>1, SumEmpty DEF Sum
<1>9. ASSUME NEW u \in Users
      PROVE  /\ coin[u].available + coin[u].freeze = InitBalance
             /\ coin[u].award = InitAward
             /\ InitBalance \in Nat /\ InitAward \in Nat
  BY MallAssumption DEF Init
<1>10. Follows(coin, order, Tally(bills, NoShortage))
  BY <1>8, <1>9 DEF Follows
<1>. QED BY <1>6, <1>7, <1>10 DEF LedgerInv

LEMMA NoShortageType == NoShortage \in Shortages
  BY DEF NoShortage, Shortages

\* The reading halves change only what the thread has read.
LEMMA ReadStep ==
  ASSUME BaseInv, NEW t \in Threads, NEW x, PayState(x) \/ OpState(x, order),
         tx' = [tx EXCEPT ![t] = x], UNCHANGED <<coin, good, cart, order, rept, bills>>
  PROVE  BaseInv'
<1>1. TxShape(tx', order)
  BY BaseFacts, TxRead
<1>2. CartOK' /\ FreshBills'
  BY BaseFacts DEF CartOK, FreshBills
<1>. QED BY <1>1, <1>2, BaseFacts, BaseNext

LEMMA PayReadStep ==
  ASSUME BaseInv, NEW t \in Threads, NEW u \in Users, NEW lines, LinesOK(lines),
         PayRead(t, u, lines)
  PROVE  BaseInv'
<1>1. PICK x : x = [op |-> "payOrder", user |-> u, lines |-> lines, goods |-> good]
  OBVIOUS
<1>2. /\ x.op = "payOrder" /\ x.user = u /\ x.lines = lines /\ x.goods = good
  BY <1>1
<1>3. PayState(x)
  BY <1>2, BaseFacts DEF PayState, PayRead
<1>. QED BY <1>1, <1>3, ReadStep DEF PayRead

LEMMA HandlerReadStep ==
  ASSUME BaseInv, NEW t \in Threads, NEW op \in OrderOp, NEW o \in Orders,
         Read(t, op, o)
  PROVE  BaseInv'
<1>1. PICK x : x = [op |-> op, order |-> o, row |-> order[o], goods |-> good]
  OBVIOUS
<1>2. x.op = op /\ x.order = o /\ x.row = order[o] /\ x.goods = good
  BY <1>1
<1>3. o \in DOMAIN order /\ order[o] \in Row /\ good \in GoodTable
  BY BaseFacts DEF Read, Table
<1>4. OpState(x, order)
  BY <1>2, <1>3 DEF OpState, SameDeal
<1>. QED BY <1>1, <1>4, ReadStep DEF Read

\* What a thread that is about to write has read.
LEMMA PayFacts ==
  ASSUME BaseInv, NEW t \in Threads, tx[t].op = "payOrder"
  PROVE  PayState(tx[t])
  BY BaseFacts DEF TxShape, Idle, OpState, OrderOp

LEMMA OpFacts ==
  ASSUME BaseInv, NEW t \in Threads, tx[t].op \in OrderOp
  PROVE  OpState(tx[t], order)
  BY BaseFacts DEF TxShape, Idle, PayState, OrderOp

LEMMA PayWriteStep ==
  ASSUME BaseInv, NEW t \in Threads, PayWrite(t)
  PROVE  BaseInv' /\ Grows(order, order')
<1>. DEFINE u == tx[t].user
            lines == tx[t].lines
<1>1. PayState(tx[t])
  BY PayFacts DEF PayWrite
<1>2. u \in Users /\ LinesOK(lines) /\ tx[t].goods \in GoodTable
  BY <1>1 DEF PayState
<1>3. coin' \in Ledgers
  <2>1. PICK T \in Int : T = TotalOf(lines)
    BY <1>2, TotalType
  <2>2. PICK dA \in Int, z \in Int : dA = 0 - T /\ z = 0
    OBVIOUS
  <2>3. Can(coin, u, dA, T, z) /\ coin' = Post(coin, u, dA, T, z)
    BY <2>1, <2>2 DEF PayWrite
  <2>. HIDE DEF u, lines
  <2>. QED BY <1>2, <2>3, PostType, BaseFacts
<1>4. good' \in GoodTable
  <2>. SUFFICES ASSUME NEW g \in Goods
                PROVE  good'[g] \in [stock : Nat, sales : Nat]
    BY DEF PayWrite, GoodTable
  <2>1. PICK n \in Int : n = CountOf(lines, g)
    BY <1>2, CountType
  <2>2. PICK k \in Nat : k = tx[t].goods[g].stock
    BY <1>2 DEF GoodTable
  <2>3. n > 0 => k - n \in Nat
    BY <1>1, <2>1, <2>2 DEF PayState
  <2>4. good[g] \in [stock : Nat, sales : Nat]
    BY BaseFacts DEF GoodTable
  <2>5. good'[g] = IF n > 0 THEN [good[g] EXCEPT !.stock = k - n] ELSE good[g]
    BY <2>1, <2>2 DEF PayWrite
  <2>. QED BY <2>3, <2>4, <2>5
<1>5. Grows(order, order')
  <2>1. PICK id \in [lines -> Orders \ DOMAIN order] :
          order' = [o \in DOMAIN order \cup Range(id) |->
                      IF o \in DOMAIN order THEN order[o]
                      ELSE NewRow(u, Inverse(id, lines, Range(id))[o])]
    BY DEF PayWrite
  <2>2. PICK ln : ln = lines
    OBVIOUS
  <2>3. PICK v \in Users : v = u
    BY <1>2
  <2>4. /\ LinesOK(ln) /\ id \in [ln -> Orders \ DOMAIN order]
        /\ order' = [o \in DOMAIN order \cup Range(id) |->
                       IF o \in DOMAIN order THEN order[o]
                       ELSE NewRow(v, Inverse(id, ln, Range(id))[o])]
    BY <1>2, <2>1, <2>2, <2>3
  <2>. HIDE DEF u, lines
  <2>. QED BY <2>4, NewOrdersGrow, BaseFacts
<1>6. TxShape(tx', order')
  BY <1>5, BaseFacts, TxDone DEF PayWrite
<1>7. DOMAIN cart' \in SUBSET DOMAIN InitCart /\ CartOK'
  BY BaseFacts DEF PayWrite, Restrict, CartOK
<1>8. FreshBills' /\ bills' = bills /\ rept' = rept
  BY <1>5, BaseFacts DEF PayWrite, FreshBills, Grows
<1>9. Table(order')
  BY <1>5 DEF Grows
<1>. QED BY <1>3, <1>4, <1>5, <1>6, <1>7, <1>8, <1>9, BaseFacts, BaseNext

LEMMA RollbackStep ==
  ASSUME BaseInv, NEW t \in Threads, Rollback(t)
  PROVE  BaseInv'
<1>1. TxShape(tx', order)
  BY BaseFacts, GrowsSelf, TxDone DEF Rollback
<1>2. CartOK' /\ FreshBills' /\ UNCHANGED <<coin, good, cart, order, rept, bills>>
  BY BaseFacts DEF Rollback, CartOK, FreshBills
<1>. QED BY <1>1, <1>2, BaseFacts, BaseNext

\* A handler that has changed an existing order and is done.
LEMMA HandlerDone ==
  ASSUME BaseInv, NEW t \in Threads, OpState(tx[t], order),
         Grows(order, order'), DOMAIN order' = DOMAIN order,
         tx' = [tx EXCEPT ![t] = Idle], cart' = cart,
         coin' \in Ledgers, good' \in GoodTable, rept' \in [Users -> Nat],
         bills' \in Bills,
         \A o \in Orders : o # tx[t].order => bills'[o].confirmed = bills[o].confirmed
  PROVE  BaseInv'
<1>1. TxShape(tx', order')
  BY BaseFacts, TxDone
<1>2. CartOK' /\ DOMAIN cart' \in SUBSET DOMAIN InitCart
  BY BaseFacts DEF CartOK
<1>3. FreshBills'
  BY BaseFacts DEF FreshBills, OpState
<1>4. Table(order')
  BY DEF Grows
<1>. QED BY <1>1, <1>2, <1>3, <1>4, BaseNext

LEMMA SendStep ==
  ASSUME BaseInv, NEW t \in Threads, sendOrder(t)
  PROVE  BaseInv' /\ Grows(order, order') /\ DOMAIN order' = DOMAIN order
<1>1. OpState(tx[t], order)
  BY OpFacts DEF sendOrder, OrderOp
<1>2. Grows(order, order') /\ DOMAIN order' = DOMAIN order
  BY <1>1, BaseFacts, StatusGrows DEF OpState, sendOrder
<1>. QED BY <1>1, <1>2, BaseFacts, HandlerDone DEF sendOrder

LEMMA ReturnStep ==
  ASSUME BaseInv, NEW t \in Threads, returnOrder(t)
  PROVE  BaseInv' /\ Grows(order, order') /\ DOMAIN order' = DOMAIN order
<1>1. OpState(tx[t], order)
  BY OpFacts DEF returnOrder, OrderOp
<1>2. Grows(order, order') /\ DOMAIN order' = DOMAIN order
  BY <1>1, BaseFacts, ReturnedGrows DEF OpState, returnOrder
<1>. QED BY <1>1, <1>2, BaseFacts, HandlerDone DEF returnOrder

LEMMA GiveBackStep ==
  ASSUME BaseInv, NEW t \in Threads,
         confirmReturnOrder(t) \/ cancelUnsendOrder(t)
  PROVE  /\ BaseInv' /\ Grows(order, order') /\ DOMAIN order' = DOMAIN order
         /\ \A o \in Orders : bills'[o].confirmed = bills[o].confirmed
         /\ \E n \in Nat : /\ Can(coin, tx[t].row.user, n, 0 - n, 0)
                           /\ coin' = Post(coin, tx[t].row.user, n, 0 - n, 0)
<1>. DEFINE r == tx[t].row
            o == tx[t].order
<1>1. OpState(tx[t], order) /\ GiveBack(t)
  BY OpFacts DEF confirmReturnOrder, cancelUnsendOrder, OrderOp
<1>2. o \in DOMAIN order /\ r \in Row /\ tx[t].goods \in GoodTable
  BY <1>1 DEF OpState
<1>3. Grows(order, order') /\ DOMAIN order' = DOMAIN order
  BY <1>2, BaseFacts, StatusGrows, ReturnedGrows
     DEF confirmReturnOrder, cancelUnsendOrder
<1>4. PICK n \in Nat : n = r.total
  BY <1>2 DEF Row
<1>5. Can(coin, r.user, n, 0 - n, 0) /\ coin' = Post(coin, r.user, n, 0 - n, 0)
  BY <1>1, <1>4 DEF GiveBack
<1>6. coin' \in Ledgers
  <2>1. PICK dF \in Int, z \in Int : dF = 0 - n /\ z = 0
    OBVIOUS
  <2>2. r.user \in Users
    BY <1>2 DEF Row
  <2>3. PICK v \in Users : v = r.user
    BY <2>2
  <2>4. Can(coin, v, n, dF, z) /\ coin' = Post(coin, v, n, dF, z)
    BY <1>5, <2>1, <2>3
  <2>. HIDE DEF r
  <2>. QED BY <2>4, PostType, BaseFacts
<1>7. good' \in GoodTable
  <2>1. PICK g \in Goods, k \in Nat :
          /\ g = r.good /\ k = tx[t].goods[r.good].stock + r.count
    <3>1. r.good \in Goods /\ r.count \in Nat
      BY <1>2 DEF Row
    <3>2. tx[t].goods[r.good].stock \in Nat
      BY <1>2, <3>1 DEF GoodTable
    <3>. QED BY <3>1, <3>2
  <2>2. good' = [good EXCEPT ![g].stock = k]
    BY <1>1, <2>1 DEF GiveBack
  <2>. HIDE DEF r
  <2>. QED BY <2>2, BaseFacts DEF GoodTable
<1>8. /\ bills' \in Bills
      /\ \A x \in Orders : bills'[x].confirmed = bills[x].confirmed
  <2>1. PICK y \in Orders : y = o
    BY <1>2, BaseFacts DEF Table
  <2>2. bills' = [bills EXCEPT ![y].refunded = bills[y].refunded + 1]
    BY <1>1, <2>1 DEF GiveBack
  <2>3. bills[y].refunded + 1 \in Nat
    BY BaseFacts DEF Bills
  <2>. HIDE DEF o
  <2>. QED BY <2>2, <2>3, BaseFacts DEF Bills
<1>9. BaseInv'
  <2>1. rept' \in [Users -> Nat] /\ cart' = cart /\ tx' = [tx EXCEPT ![t] = Idle]
    BY <1>1, BaseFacts DEF GiveBack
  <2>. HIDE DEF r, o
  <2>. QED BY <1>1, <1>3, <1>6, <1>7, <1>8, <2>1, HandlerDone
<1>. QED BY <1>3, <1>5, <1>8, <1>9

\* The five postings of a confirmation.
LEMMA ConfirmBooks ==
  ASSUME BaseInv, NEW t \in Threads, confirmOrder(t)
  PROVE  \E m1, m2, m3, m4 :
           /\ Books(coin, m1, tx[t].row, "taken")
           /\ Books(m1, m2, tx[t].row, "seller")
           /\ Books(m2, m3, tx[t].row, "rebate")
           /\ Books(m3, m4, tx[t].row, "one")
           /\ Books(m4, coin', tx[t].row, "two")
<1>1. PICK r \in Row : r = tx[t].row
  BY OpFacts DEF confirmOrder, OrderOp, OpState
<1>2. PICK one : one = InviterOf(r.user)
  OBVIOUS
<1>3. PICK n \in Nat, z \in Int, neg \in Int : n = r.total /\ z = 0 /\ neg = 0 - n
  <2>1. r.total \in Nat
    BY DEF Row
  <2>. QED BY <2>1
<1>4. PICK pr \in Nat, p1 \in Nat, p2 \in Nat :
        /\ pr = Percent(n, BuyRebate) /\ p1 = Percent(n, OneLevel)
        /\ p2 = Percent(n, TwoLevel)
  BY PercentType, MallAssumption
<1>5. PICK m1, m2, m3, m4 :
        /\ m1 = Post(coin, r.user, z, z, neg)
        /\ m2 = Post(m1, Owner[r.good], n, z, z)
        /\ m3 = Post(m2, r.user, z, z, pr)
        /\ m4 = Post(m3, one, p1, z, z)
  OBVIOUS
<1>6. coin' = Post(m4, InviterOf(one), p2, z, z) /\ Can(coin, r.user, z, z, neg)
  BY <1>1, <1>2, <1>3, <1>4, <1>5 DEF confirmOrder
<1>7. Percent(n, 100) = n
  BY WholePercent
<1>8. Books(coin, m1, r, "taken")
  BY <1>2, <1>3, <1>5, <1>6, <1>7 DEF Books, Who, Rate, Coins, Award
<1>9. Books(m1, m2, r, "seller")
  BY <1>2, <1>3, <1>5, <1>7 DEF Books, Who, Rate, Coins, Award
<1>10. Books(m2, m3, r, "rebate")
  BY <1>2, <1>3, <1>4, <1>5 DEF Books, Who, Rate, Coins, Award
<1>11. Books(m3, m4, r, "one")
  BY <1>2, <1>3, <1>4, <1>5 DEF Books, Who, Rate, Coins, Award
<1>12. Books(m4, coin', r, "two")
  BY <1>2, <1>3, <1>4, <1>6 DEF Books, Who, Rate, Coins, Award
<1>. QED BY <1>1, <1>8, <1>9, <1>10, <1>11, <1>12

LEMMA BooksDeal ==
  ASSUME NEW r, NEW r2, SameDeal(r, r2), NEW f \in Field, NEW l, NEW m,
         Books(l, m, r, f)
  PROVE  Books(l, m, r2, f)
<1>1. Who(r, f) = Who(r2, f) /\ r.total = r2.total
  BY SameDealWho DEF SameDeal
<1>. QED BY <1>1 DEF Books

\* A table that has grown, with no booking of the new orders.
LEMMA LedgerGrows ==
  ASSUME NEW ord, Table(ord), NEW ord2, Grows(ord, ord2),
         NEW b \in Bills, NEW s \in Shortages,
         \A o \in Orders : o \notin DOMAIN ord => b[o].confirmed = 0,
         \A o \in Orders, f \in Field \ {"taken"} : o \notin DOMAIN ord => s[o][f] = 0,
         NEW l, Follows(l, ord, Tally(b, s))
  PROVE  Follows(l, ord2, Tally(b, s))
<1>1. PICK c \in Tallies : c = Tally(b, s)
  BY TallyType
<1>2. ASSUME NEW f \in Field, NEW o \in Orders, o \notin DOMAIN ord
      PROVE  c[f][o] = 0
  <2>1. b[o].confirmed = 0 /\ (f # "taken" => s[o][f] = 0)
    BY <1>2
  <2>2. c[f][o] = IF f = "taken" THEN b[o].confirmed ELSE b[o].confirmed - s[o][f]
    BY <1>1 DEF Tally
  <2>3. CASE f = "taken"
    BY <2>1, <2>2, <2>3
  <2>4. CASE f # "taken"
    BY <2>1, <2>2, <2>4
  <2>. QED BY <2>3, <2>4
<1>3. Unbooked(ord, c)
  BY <1>2 DEF Unbooked
<1>. QED BY <1>1, <1>3, TableFollows

\* A step that leaves the confirmations alone.
LEMMA LedgerKept ==
  ASSUME BaseInv, BaseInv', NEW s \in Shortages, LedgerInv(s), Grows(order, order'),
         \A o \in Orders : bills'[o].confirmed = bills[o].confirmed,
         Follows(coin', order, Tally(bills, s))
  PROVE  LedgerInv(s)'
<1>1. Tally(bills', s) = Tally(bills, s)
  BY TallySame
<1>2. \A o \in Orders : o \notin DOMAIN order => bills[o].confirmed = 0
  BY BaseFacts DEF FreshBills
<1>3. \A o \in Orders, f \in Field \ {"taken"} : o \notin DOMAIN order => s[o][f] = 0
  BY DEF LedgerInv, FreshShort
<1>4. PICK l : l = coin'
  OBVIOUS
<1>5. PICK b \in Bills : b = bills
  BY BaseFacts
<1>6. Follows(l, order', Tally(b, s))
  BY <1>2, <1>3, <1>4, <1>5, BaseFacts, LedgerGrows
<1>7. FreshShort(s)'
  BY <1>3 DEF FreshShort, Grows
<1>. QED BY <1>1, <1>4, <1>6, <1>7, <1>5 DEF LedgerInv

LEMMA ConfirmStep ==
  ASSUME BaseInv, NEW t \in Threads, confirmOrder(t), NEW s \in Shortages, LedgerInv(s)
  PROVE  BaseInv' /\ LedgerInv(s)' /\ Grows(order, order') /\ DOMAIN order' = DOMAIN order
<1>. DEFINE r == tx[t].row
            o == tx[t].order
<1>1. OpState(tx[t], order)
  BY OpFacts DEF confirmOrder, OrderOp
<1>2. /\ o \in DOMAIN order /\ r \in Row /\ tx[t].goods \in GoodTable
      /\ SameDeal(r, order[o])
  BY <1>1 DEF OpState
<1>3. Grows(order, order') /\ DOMAIN order' = DOMAIN order
  BY <1>2, BaseFacts, StatusGrows DEF confirmOrder
<1>4. PICK y \in Orders : y = o
  BY <1>2, BaseFacts DEF Table
<1>5. /\ bills' \in Bills
      /\ bills'[y].confirmed = bills[y].confirmed + 1
      /\ \A x \in Orders : x # y => bills'[x].confirmed = bills[x].confirmed
  <2>1. bills' = [bills EXCEPT ![y].confirmed = bills[y].confirmed + 1]
    BY <1>4 DEF confirmOrder
  <2>2. bills[y].confirmed + 1 \in Nat
    BY BaseFacts DEF Bills
  <2>. QED BY <2>1, <2>2, BaseFacts DEF Bills
<1>6. good' \in GoodTable
  <2>1. PICK g \in Goods, k \in Nat :
          /\ g = r.good /\ k = tx[t].goods[r.good].sales + r.count
    <3>1. r.good \in Goods /\ r.count \in Nat
      BY <1>2 DEF Row
    <3>2. tx[t].goods[r.good].sales \in Nat
      BY <1>2, <3>1 DEF GoodTable
    <3>. QED BY <3>1, <3>2
  <2>2. good' = [good EXCEPT ![g].sales = k]
    BY <2>1 DEF confirmOrder
  <2>. HIDE DEF r
  <2>. QED BY <2>2, BaseFacts DEF GoodTable
<1>7. rept' \in [Users -> Nat]
  <2>1. PICK v \in Users : v = Owner[r.good]
    BY <1>2, MallAssumption DEF Row
  <2>2. rept' = [rept EXCEPT ![v] = rept[v] + 1] /\ rept[v] + 1 \in Nat
    <3>1. rept' = [rept EXCEPT ![v] = rept[v] + 1]
      BY <2>1 DEF confirmOrder
    <3>2. rept[v] \in Nat
      BY BaseFacts
    <3>. QED BY <3>1, <3>2
  <2>. QED BY <2>2, BaseFacts
<1>8. PICK m1, m2, m3, m4 :
        /\ Books(coin, m1, r, "taken") /\ Books(m1, m2, r, "seller")
        /\ Books(m2, m3, r, "rebate") /\ Books(m3, m4, r, "one")
        /\ Books(m4, coin', r, "two")
  BY ConfirmBooks
<1>9. PICK m5 : m5 = coin'
  OBVIOUS
<1>10. /\ Books(coin, m1, order[y], "taken") /\ Books(m1, m2, order[y], "seller")
       /\ Books(m2, m3, order[y], "rebate") /\ Books(m3, m4, order[y], "one")
       /\ Books(m4, m5, order[y], "two")
  <2>1. /\ "seller" \in Field /\ "one" \in Field /\ "two" \in Field
        /\ "rebate" \in Field /\ "taken" \in Field
    BY DEF Field
  <2>2. PICK r2, r3 : r2 = r /\ r3 = order[y]
    OBVIOUS
  <2>3. SameDeal(r2, r3)
    BY <1>2, <1>4, <2>2
  <2>4. /\ Books(coin, m1, r2, "taken") /\ Books(m1, m2, r2, "seller")
        /\ Books(m2, m3, r2, "rebate") /\ Books(m3, m4, r2, "one")
        /\ Books(m4, m5, r2, "two")
    BY <1>8, <1>9, <2>2
  <2>5. /\ Books(coin, m1, r3, "taken") /\ Books(m1, m2, r3, "seller")
        /\ Books(m2, m3, r3, "rebate") /\ Books(m3, m4, r3, "one")
        /\ Books(m4, m5, r3, "two")
    BY ONLY <2>1, <2>3, <2>4, BooksDeal
  <2>. QED BY <2>2, <2>5
<1>11. PICK b2 \in Bills : b2 = bills'
  BY <1>5
<1>12. m5 \in Ledgers /\ Follows(m5, order, Tally(b2, s))
  <2>1. y \in DOMAIN order /\ Follows(coin, order, Tally(bills, s))
    BY <1>2, <1>4 DEF LedgerInv
  <2>2. PICK l \in Ledgers, b \in Bills : l = coin /\ b = bills
    BY BaseFacts
  <2>3. PICK ord : ord = order
    OBVIOUS
  <2>4. /\ Table(ord) /\ y \in DOMAIN ord /\ Follows(l, ord, Tally(b, s))
        /\ b2[y].confirmed = b[y].confirmed + 1
        /\ \A x \in Orders : x # y => b2[x].confirmed = b[x].confirmed
    BY <1>5, <1>11, <2>1, <2>2, <2>3, BaseFacts
  <2>5. /\ Books(l, m1, ord[y], "taken") /\ Books(m1, m2, ord[y], "seller")
        /\ Books(m2, m3, ord[y], "rebate") /\ Books(m3, m4, ord[y], "one")
        /\ Books(m4, m5, ord[y], "two")
    BY <1>10, <2>2, <2>3
  <2>6. m5 \in Ledgers /\ Follows(m5, ord, Tally(b2, s))
    BY ONLY <2>4, <2>5, ConfirmFollows, l \in Ledgers, b \in Bills, b2 \in Bills,
            s \in Shortages
  <2>. QED BY <2>2, <2>6, <2>3
<1>13. BaseInv'
  <2>1. cart' = cart /\ tx' = [tx EXCEPT ![t] = Idle]
    BY DEF confirmOrder
  <2>2. \A x \in Orders : x # tx[t].order => bills'[x].confirmed = bills[x].confirmed
    BY <1>4, <1>5
  <2>3. coin' \in Ledgers
    BY <1>9, <1>12
  <2>. QED BY <1>1, <1>3, <1>5, <1>6, <1>7, <2>1, <2>2, <2>3, HandlerDone
<1>14. LedgerInv(s)'
  <2>1. \A x \in Orders : x \notin DOMAIN order => b2[x].confirmed = 0
    BY <1>2, <1>4, <1>5, <1>11, BaseFacts DEF FreshBills
  <2>2. \A x \in Orders, f \in Field \ {"taken"} : x \notin DOMAIN order => s[x][f] = 0
    BY DEF LedgerInv, FreshShort
  <2>3. Follows(m5, order', Tally(b2, s))
    BY <1>3, <1>12, <2>1, <2>2, BaseFacts, LedgerGrows
  <2>4. FreshShort(s)'
    BY <1>3, <2>2 DEF FreshShort
  <2>. QED BY <1>9, <1>11, <2>3, <2>4 DEF LedgerInv
<1>. QED BY <1>3, <1>13, <1>14

\* A thread's step: the table grows, and the ledger follows the bookings.
LEMMA MallNext ==
  ASSUME BaseInv, NEW s \in Shortages, LedgerInv(s), Next
  PROVE  BaseInv' /\ LedgerInv(s)' /\ Grows(order, order')
<1>. PICK t \in Threads :
       \/ Pay(t)
       \/ \E op \in OrderOp, o \in Orders : Read(t, op, o)
       \/ Write(t)
       \/ Rollback(t)
  BY DEF Next
<1>1. Follows(coin, order, Tally(bills, s))
  BY DEF LedgerInv
<1>2. ASSUME UNCHANGED <<coin, order, bills>>, BaseInv'
      PROVE  LedgerInv(s)' /\ Grows(order, order')
  BY <1>2, BaseFacts, GrowsSelf DEF LedgerInv, FreshShort
<1>3. CASE Pay(t)
  <2>1. PICK u \in Users :
          \/ \E g \in Goods, n \in 0 .. MaxCount : PayRead(t, u, OnceLines(g, n))
          \/ \E ids \in SUBSET DOMAIN cart : PayRead(t, u, CartLines(ids))
    BY <1>3, MallAssumption DEF Pay
  <2>2. ASSUME NEW g \in Goods, NEW n \in 0 .. MaxCount, PayRead(t, u, OnceLines(g, n))
        PROVE  BaseInv' /\ UNCHANGED <<coin, order, bills>>
    <3>1. PICK lines : lines = OnceLines(g, n)
      OBVIOUS
    <3>2. LinesOK(lines)
      BY <2>2, <3>1, OnceLinesOK DEF PayRead
    <3>. QED BY <2>2, <3>1, <3>2, PayReadStep DEF PayRead
  <2>3. ASSUME NEW ids \in SUBSET DOMAIN cart, PayRead(t, u, CartLines(ids))
        PROVE  BaseInv' /\ UNCHANGED <<coin, order, bills>>
    <3>1. PICK lines : lines = CartLines(ids)
      OBVIOUS
    <3>2. LinesOK(lines)
      BY <3>1, CartLinesOK
    <3>. QED BY <2>3, <3>1, <3>2, PayReadStep DEF PayRead
  <2>4. BaseInv' /\ UNCHANGED <<coin, order, bills>>
    BY <2>1, <2>2, <2>3
  <2>. QED BY <1>2, <2>4
<1>4. CASE \E op \in OrderOp, o \in Orders : Read(t, op, o)
  <2>1. BaseInv' /\ UNCHANGED <<coin, order, bills>>
    BY <1>4, HandlerReadStep DEF Read
  <2>. QED BY <1>2, <2>1
<1>5. CASE Rollback(t)
  <2>1. BaseInv' /\ UNCHANGED <<coin, order, bills>>
    BY <1>5, RollbackStep DEF Rollback
  <2>. QED BY <1>2, <2>1
<1>6. CASE PayWrite(t)
  <2>1. BaseInv' /\ Grows(order, order') /\ bills' = bills
    BY <1>6, PayWriteStep DEF PayWrite
  <2>2. PayState(tx[t])
    BY <1>6, PayFacts DEF PayWrite
  <2>3. PICK v \in Users, T \in Int : v = tx[t].user /\ T = TotalOf(tx[t].lines)
    BY <2>2, TotalType DEF PayState
  <2>4. PICK dA \in Int, z \in Int : dA = 0 - T /\ z = 0
    OBVIOUS
  <2>5. Can(coin, v, dA, T, z) /\ coin' = Post(coin, v, dA, T, z)
    BY <1>6, <2>3, <2>4 DEF PayWrite
  <2>6. PICK c : c = Tally(bills, s)
    OBVIOUS
  <2>7. Follows(coin', order, c)
    BY <1>1, <2>4, <2>5, <2>6, FreezeFollows, BaseFacts
  <2>. QED BY <2>1, <2>6, <2>7, LedgerKept
<1>7. CASE confirmOrder(t)
  BY <1>7, ConfirmStep
<1>8. CASE sendOrder(t)
  <2>1. BaseInv' /\ Grows(order, order') /\ UNCHANGED <<coin, bills>>
    BY <1>8, SendStep DEF sendOrder
  <2>. QED BY <1>1, <2>1, LedgerKept
<1>9. CASE returnOrder(t)
  <2>1. BaseInv' /\ Grows(order, order') /\ UNCHANGED <<coin, bills>>
    BY <1>9, ReturnStep DEF returnOrder
  <2>. QED BY <1>1, <2>1, LedgerKept
<1>10. CASE confirmReturnOrder(t) \/ cancelUnsendOrder(t)
  <2>1. /\ BaseInv' /\ Grows(order, order')
        /\ \A o \in Orders : bills'[o].confirmed = bills[o].confirmed
    BY <1>10, GiveBackStep
  <2>2. PICK n \in Nat : /\ Can(coin, tx[t].row.user, n, 0 - n, 0)
                         /\ coin' = Post(coin, tx[t].row.user, n, 0 - n, 0)
    BY <1>10, GiveBackStep
  <2>3. OpState(tx[t], order)
    BY <1>10, OpFacts DEF confirmReturnOrder, cancelUnsendOrder, OrderOp
  <2>4. PICK v \in Users : v = tx[t].row.user
    BY <2>3 DEF OpState, Row
  <2>5. PICK dF \in Int, z \in Int : dF = 0 - n /\ z = 0
    OBVIOUS
  <2>6. Can(coin, v, n, dF, z) /\ coin' = Post(coin, v, n, dF, z)
    BY <2>2, <2>4, <2>5
  <2>7. PICK c : c = Tally(bills, s)
    OBVIOUS
  <2>8. Follows(coin', order, c)
    BY <1>1, <2>5, <2>6, <2>7, FreezeFollows, BaseFacts
  <2>. QED BY <2>1, <2>7, <2>8, LedgerKept
<1>. QED BY <1>3, <1>4, <1>5, <1>6, <1>7, <1>8, <1>9, <1>10 DEF Write

LEMMA MallStutter ==
  ASSUME BaseInv, UNCHANGED vars
  PROVE  BaseInv' /\ Grows(order, order')
         /\ \A s : LedgerInv(s) => LedgerInv(s)'
<1>1. Grows(order, order')
  BY BaseFacts, GrowsSelf DEF vars
<1>2. BaseInv'
  BY BaseFacts, BaseNext DEF vars, CartOK, FreshBills
<1>3. ASSUME NEW s, LedgerInv(s) PROVE LedgerInv(s)'
  BY <1>3 DEF vars, LedgerInv, FreshShort
<1>. QED BY <1>1, <1>2, <1>3

-----------------------------------------------------------------------------
(***************************************************************************)
(* The theorems about MallOrder.                                           *)
(***************************************************************************)

\* What the counts say is what the properties say.
LEMMA SumsAsStated ==
  ASSUME BaseInv, NEW s \in Shortages, NEW f \in Field, NEW u
  PROVE  /\ f = "taken" =>
              Amounts(order, Tally(bills, s), f) =
                [o \in DOMAIN order |->
                   bills[o].confirmed * Percent(order[o].total, 100)]
         /\ f # "taken" =>
              Amounts(order, Tally(bills, s), f) =
                [o \in DOMAIN order |->
                   (bills[o].confirmed - s[o][f]) * Percent(order[o].total, Rate(f))]
         /\ f \in {"taken", "rebate"} => OrdersFor(order, f, u) = OrdersOf(u)
         /\ f = "seller" => OrdersFor(order, f, u) = SoldBy(u)
         /\ f = "one" => OrdersFor(order, f, u) = InvitedBy(u)
         /\ f = "two" => OrdersFor(order, f, u) = InvitedByInviteeOf(u)
<1>1. \A o \in DOMAIN order : o \in Orders
  BY BaseFacts DEF Table
<1>2. ASSUME NEW o \in Orders
      PROVE  Tally(bills, s)[f][o] = IF f = "taken" THEN bills[o].confirmed
                                     ELSE bills[o].confirmed - s[o][f]
  BY DEF Tally
<1>3. CASE f = "taken"
  <2>1. Rate(f) = 100
    BY <1>3 DEF Rate
  <2>. QED BY <1>1, <1>2, <1>3, <2>1 DEF Amounts, OrdersFor, Who, OrdersOf
<1>4. CASE f # "taken"
  <2>1. Amounts(order, Tally(bills, s), f) =
          [o \in DOMAIN order |->
             (bills[o].confirmed - s[o][f]) * Percent(order[o].total, Rate(f))]
    BY <1>1, <1>2, <1>4 DEF Amounts
  <2>. QED BY <1>4, <2>1
           DEF OrdersFor, Who, OrdersOf, SoldBy, InvitedBy, InvitedByInviteeOf
<1>. QED BY <1>3, <1>4

LEMMA RateOf ==
  /\ Rate("seller") = 100 /\ Rate("one") = OneLevel /\ Rate("two") = TwoLevel
  /\ Rate("rebate") = BuyRebate /\ Rate("taken") = 100
  /\ "seller" \in Field /\ "one" \in Field /\ "two" \in Field
  /\ "rebate" \in Field /\ "taken" \in Field
  BY DEF Rate, Field

LEMMA ConfirmedIsSum ==
  ASSUME BaseInv, NEW u
  PROVE  /\ Sum(order, Tally(bills, NoShortage), "seller", u) = Confirmed(SoldBy(u), 100)
         /\ Sum(order, Tally(bills, NoShortage), "one", u) =
              Confirmed(InvitedBy(u), OneLevel)
         /\ Sum(order, Tally(bills, NoShortage), "two", u) =
              Confirmed(InvitedByInviteeOf(u), TwoLevel)
         /\ Sum(order, Tally(bills, NoShortage), "rebate", u) =
              Confirmed(OrdersOf(u), BuyRebate)
         /\ Sum(order, Tally(bills, NoShortage), "taken", u) = Confirmed(OrdersOf(u), 100)
<1>1. ASSUME NEW f \in Field
      PROVE  Amounts(order, Tally(bills, NoShortage), f) =
               [o \in DOMAIN order |->
                  bills[o].confirmed * Percent(order[o].total, Rate(f))]
  <2>1. CASE f = "taken"
    BY <2>1, NoShortageType, SumsAsStated, RateOf
  <2>2. CASE f # "taken"
    <3>1. ASSUME NEW o \in DOMAIN order
          PROVE  bills[o].confirmed - NoShortage[o][f] = bills[o].confirmed
      <4>1. o \in Orders /\ bills[o].confirmed \in Nat
        BY BaseFacts DEF Table, Bills
      <4>2. NoShortage[o][f] = 0
        BY <2>2, <4>1 DEF NoShortage, Field
      <4>. QED BY <4>1, <4>2
    <3>2. Amounts(order, Tally(bills, NoShortage), f) =
            [o \in DOMAIN order |->
               (bills[o].confirmed - NoShortage[o][f])
                 * Percent(order[o].total, Rate(f))]
      BY <2>2, NoShortageType, SumsAsStated
    <3>3. [o \in DOMAIN order |->
             (bills[o].confirmed - NoShortage[o][f])
               * Percent(order[o].total, Rate(f))]
          = [o \in DOMAIN order |->
               bills[o].confirmed * Percent(order[o].total, Rate(f))]
      BY <3>1, Zenon
    <3>. QED BY <3>2, <3>3
  <2>. QED BY <2>1, <2>2
<1>2. /\ OrdersFor(order, "seller", u) = SoldBy(u)
      /\ OrdersFor(order, "one", u) = InvitedBy(u)
      /\ OrdersFor(order, "two", u) = InvitedByInviteeOf(u)
      /\ OrdersFor(order, "rebate", u) = OrdersOf(u)
      /\ OrdersFor(order, "taken", u) = OrdersOf(u)
  BY DEF OrdersFor, Who, OrdersOf, SoldBy, InvitedBy, InvitedByInviteeOf
<1>. QED BY <1>1, <1>2, RateOf DEF Sum, Confirmed

LEMMA MallInit == Init => MallInv
  BY BaseInit DEF MallInv

LEMMA MallStep == MallInv /\ [Next]_vars => MallInv'
<1>. SUFFICES ASSUME MallInv, [Next]_vars PROVE MallInv'
  OBVIOUS
<1>1. BaseInv /\ LedgerInv(NoShortage)
  BY DEF MallInv
<1>2. PICK s \in Shortages : s = NoShortage
  BY NoShortageType
<1>3. LedgerInv(s)
  BY <1>1, <1>2
<1>4. BaseInv' /\ LedgerInv(s)'
  <2>1. CASE Next
    BY <1>1, <1>3, <2>1, MallNext
  <2>2. CASE UNCHANGED vars
    BY <1>1, <1>3, <2>2, MallStutter
  <2>. QED BY <2>1, <2>2
<1>. QED BY <1>2, <1>4 DEF MallInv

\* The state of MallOrder is well typed: no payment, return or cancellation
\* that acts on what it read earlier makes a stock or a balance negative.
THEOREM MallTypeCorrect == Spec => []TypeOK
<1>1. MallInv => TypeOK
  BY DEF MallInv, BaseInv
<1>. QED BY <1>1, MallInit, MallStep, PTL DEF Spec

\* However requests interleave, and even where an order is refunded twice,
\* what a user holds is what he started with plus what confirmed sales and
\* rewards brought him.
THEOREM MallLedgerCorrect == Spec => []LedgerFollowsConfirmations
<1>1. MallInv => LedgerFollowsConfirmations
  BY ConfirmedIsSum DEF MallInv, LedgerInv, Follows, LedgerFollowsConfirmations
<1>. QED BY <1>1, MallInit, MallStep, PTL DEF Spec

-----------------------------------------------------------------------------
(***************************************************************************)
(* The invariant of ShopClose.                                             *)
(***************************************************************************)

\* The closing between two orders, and amid the statements for one.
Between == [at : {"next"}, seller : Users, phase : Phase, todo : SUBSET Orders]
Amid == [at : Refunding \cup Confirming, seller : Users, phase : Phase,
         todo : SUBSET Orders, order : Orders, row : Row,
         seen : [stock : Nat, sales : Nat]]

\* Orders of the seller only, and a row that agrees with the table.
Todo(x, ord) ==
  \A o \in x.todo : o \in DOMAIN ord /\ Owner[ord[o].good] = x.seller
Taken(x, ord) ==
  /\ x.order \in DOMAIN ord /\ SameDeal(x.row, ord[x.order])
  /\ Owner[x.row.good] = x.seller

CloserOK(x, ord) ==
  \/ x = NotClosing
  \/ x \in Between /\ Todo(x, ord)
  \/ x \in Amid /\ Todo(x, ord) /\ Taken(x, ord)

\* The credits the confirmation in hand has not made yet are missing.
ToPay == {"pay"}
ToRebate == ToPay \cup {"setSuccess", "sales", "rept", "rebate"}
ToReward == ToRebate \cup {"levelOne"}
ToRewardTwo == ToReward \cup {"levelTwo"}
Owed(x, s) ==
  /\ x.at \in ToPay => s[x.order].seller > 0
  /\ x.at \in ToRebate => s[x.order].rebate > 0
  /\ x.at \in ToReward => s[x.order].one > 0
  /\ x.at \in ToRewardTwo => s[x.order].two > 0

CloseInv ==
  /\ BaseInv
  /\ CloserOK(closer, order)
  /\ short \in Shortages
  /\ Owed(closer, short)
  /\ faults \in 0 .. MaxFaults /\ overlap \in BOOLEAN
  /\ LedgerInv(short)
  /\ FaultCutsOneOrder

LEMMA CloserFacts ==
  ASSUME CloserOK(closer, order)
  PROVE  /\ closer.at \in {"none", "next"} \cup Refunding \cup Confirming
         /\ closer.at = "next" => closer \in Between /\ Todo(closer, order)
         /\ closer.at \in Refunding \cup Confirming =>
              closer \in Amid /\ Todo(closer, order) /\ Taken(closer, order)
         /\ closer # NotClosing => closer \in Between \/ closer \in Amid
         /\ closer.at # "none" => closer # NotClosing
  BY DEF CloserOK, NotClosing, Between, Amid, Refunding, Confirming

LEMMA CloserGrows ==
  ASSUME NEW x, NEW ord, NEW ord2, Table(ord), Grows(ord, ord2), CloserOK(x, ord)
  PROVE  CloserOK(x, ord2)
<1>1. ASSUME Todo(x, ord) PROVE Todo(x, ord2)
  BY <1>1 DEF Todo, Grows, SameDeal
<1>2. ASSUME Taken(x, ord) PROVE Taken(x, ord2)
  BY <1>2 DEF Taken, Grows, SameDeal
<1>. QED BY <1>1, <1>2 DEF CloserOK

\* On to the next statement for the order in hand.
LEMMA GotoOK ==
  ASSUME NEW ord, NEW x \in Amid, Todo(x, ord), Taken(x, ord),
         NEW a \in Refunding \cup Confirming, NEW y, y = [x EXCEPT !.at = a]
  PROVE  /\ CloserOK(y, ord) /\ y.at = a /\ y.order = x.order
<1>1. y \in Amid
  BY DEF Amid
<1>2. /\ y.at = a /\ y.order = x.order /\ y.row = x.row
      /\ y.seller = x.seller /\ y.todo = x.todo
  BY DEF Amid
<1>. QED BY <1>1, <1>2 DEF CloserOK, Todo, Taken

\* Back to the list.
LEMMA BackOK ==
  ASSUME NEW ord, NEW x \in Amid, Todo(x, ord), NEW y,
         y = [at |-> "next", seller |-> x.seller, phase |-> x.phase, todo |-> x.todo]
  PROVE  CloserOK(y, ord) /\ y.at = "next"
<1>1. y \in Between
  BY DEF Amid, Between
<1>. QED BY <1>1 DEF CloserOK, Todo

\* What confirmations cut short owe to the second inviters.
Debt(s) == SumFunctionOnSet([o \in Orders |-> s[o].two], Orders)
InHand(x) == IF x.at \in Confirming \ {"take"} THEN 1 ELSE 0

LEMMA FaultCutsIsDebt == FaultCutsOneOrder <=> Debt(short) <= faults + InHand(closer)
  BY DEF FaultCutsOneOrder, Debt, InHand

LEMMA DebtStep ==
  ASSUME NEW s \in Shortages, NEW s2 \in Shortages, NEW o \in Orders,
         \A x \in Orders : x # o => s2[x].two = s[x].two
  PROVE  /\ Debt(s) \in Int /\ s[o].two \in Nat /\ s2[o].two \in Nat
         /\ Debt(s2) = Debt(s) - s[o].two + s2[o].two
<1>1. PICK w, v : w = [x \in Orders |-> s[x].two] /\ v = [x \in Orders |-> s2[x].two]
  OBVIOUS
<1>2. \A x \in Orders : w[x] \in Int /\ v[x] \in Int
  BY <1>1 DEF Shortages
<1>3. \A x \in Orders : x # o => v[x] = w[x]
  BY <1>1
<1>4. /\ SumFunctionOnSet(w, Orders) \in Int
      /\ SumFunctionOnSet(v, Orders) = SumFunctionOnSet(w, Orders) - Share(w, Orders, o)
                                         + Share(v, Orders, o)
  <2>1. IsFiniteSet(Orders)
    BY MallAssumption
  <2>2. \A x \in Orders : w[x] \in Int
    BY <1>2
  <2>3. \A x \in Orders : v[x] \in Int
    BY <1>2
  <2>. QED BY ONLY <2>1, <2>2, <2>3, <1>3, SumStep
<1>5. Share(w, Orders, o) = s[o].two /\ Share(v, Orders, o) = s2[o].two
  BY <1>1 DEF Share
<1>6. s[o].two \in Nat /\ s2[o].two \in Nat
  BY DEF Shortages
<1>. QED BY <1>1, <1>4, <1>5, <1>6 DEF Debt

\* The credits an order lacks, one more of each or one less of one.
MoreShort(s, s2, o) ==
  /\ s2 \in Shortages
  /\ \A f \in Field \ {"taken"} : s2[o][f] = s[o][f] + 1 /\ s[o][f] \in Nat
  /\ \A x \in Orders : x # o => s2[x] = s[x]
LessShort(s, s2, o, f) ==
  /\ s2 \in Shortages
  /\ s2[o][f] = s[o][f] - 1 /\ s[o][f] \in Nat
  /\ \A g \in Field \ {"taken"} : g # f => s2[o][g] = s[o][g]
  /\ \A x \in Orders : x # o => s2[x] = s[x]

LEMMA ShortUp ==
  ASSUME NEW s \in Shortages, NEW o \in Orders, NEW s2,
         s2 = [s EXCEPT ![o] = [f \in DOMAIN s[o] |-> s[o][f] + 1]]
  PROVE  MoreShort(s, s2, o)
<1>1. PICK r : r = s[o]
  OBVIOUS
<1>2. r \in [seller : Nat, rebate : Nat, one : Nat, two : Nat]
  BY <1>1 DEF Shortages
<1>3. PICK r2 : r2 = [f \in DOMAIN r |-> r[f] + 1]
  OBVIOUS
<1>4. DOMAIN r = Field \ {"taken"}
  BY <1>2 DEF Field
<1>5. ASSUME NEW f \in Field \ {"taken"} PROVE r[f] \in Nat /\ r2[f] = r[f] + 1
  BY <1>2, <1>3, <1>4 DEF Field
<1>6. r2 \in [seller : Nat, rebate : Nat, one : Nat, two : Nat]
  <2>1. r2 = [seller |-> r2.seller, rebate |-> r2.rebate, one |-> r2.one, two |-> r2.two]
    BY <1>3, <1>4 DEF Field
  <2>2. /\ r2.seller \in Nat /\ r2.rebate \in Nat /\ r2.one \in Nat /\ r2.two \in Nat
    BY <1>5 DEF Field
  <2>. QED BY <2>1, <2>2
<1>7. s2 = [s EXCEPT ![o] = r2]
  BY <1>1, <1>3
<1>. QED BY <1>1, <1>5, <1>6, <1>7 DEF Shortages, MoreShort

LEMMA ShortDown ==
  ASSUME NEW s \in Shortages, NEW o \in Orders, NEW f \in Field \ {"taken"},
         s[o][f] > 0, NEW s2, s2 = [s EXCEPT ![o][f] = s[o][f] - 1]
  PROVE  LessShort(s, s2, o, f)
<1>1. PICK r : r = s[o]
  OBVIOUS
<1>2. r \in [seller : Nat, rebate : Nat, one : Nat, two : Nat]
  BY <1>1 DEF Shortages
<1>3. f \in {"seller", "rebate", "one", "two"}
  BY DEF Field
<1>4. PICK k \in Nat : k = r[f] - 1 /\ r[f] \in Nat
  <2>1. r[f] \in Nat
    BY <1>2, <1>3
  <2>2. r[f] - 1 \in Nat
    BY <1>1, <2>1
  <2>. QED BY <2>1, <2>2
<1>5. PICK r2 : r2 = [r EXCEPT ![f] = k]
  OBVIOUS
<1>6. r2 \in [seller : Nat, rebate : Nat, one : Nat, two : Nat]
  BY <1>2, <1>3, <1>5
<1>7. /\ r2[f] = k
      /\ \A g \in Field \ {"taken"} : g # f => r2[g] = r[g]
  BY <1>2, <1>3, <1>5 DEF Field
<1>8. s2 = [s EXCEPT ![o] = r2]
  BY <1>1, <1>4, <1>5
<1>. QED BY <1>1, <1>4, <1>6, <1>7, <1>8 DEF Shortages, LessShort

-----------------------------------------------------------------------------
(***************************************************************************)
(* Every step of ShopClose preserves the invariant.                        *)
(***************************************************************************)

LEMMA CloseBase ==
  ASSUME BaseInv, Grows(order, order'), cart' = cart, TxShape(tx', order'),
         coin' \in Ledgers, good' \in GoodTable, rept' \in [Users -> Nat],
         bills' \in Bills,
         \A o \in Orders : o \notin DOMAIN order =>
                             bills'[o].confirmed = bills[o].confirmed
  PROVE  BaseInv'
<1>1. CartOK' /\ DOMAIN cart' \in SUBSET DOMAIN InitCart
  BY BaseFacts DEF CartOK
<1>2. FreshBills' /\ Table(order')
  BY BaseFacts DEF FreshBills, Grows
<1>. QED BY <1>1, <1>2, BaseNext

\* A fault, or the end of the confirmation in hand, pays for what is missing.
LEMMA DebtKept ==
  ASSUME CloseInv, short' = short, faults' \in Nat,
         faults + InHand(closer) <= faults' + InHand(closer')
  PROVE  FaultCutsOneOrder'
<1>1. short \in Shortages /\ faults \in Nat
  BY ShopCloseAssumption DEF CloseInv
<1>2. PICK d \in Int : d = Debt(short)
  <2>1. CASE Orders = {}
    BY <2>1, SumEmpty DEF Debt
  <2>2. CASE Orders # {}
    <3>1. PICK o \in Orders : TRUE
      BY <2>2
    <3>. QED BY <1>1, <3>1, DebtStep
  <2>. QED BY <2>1, <2>2
<1>3. d <= faults + InHand(closer)
  BY <1>2, FaultCutsIsDebt DEF CloseInv
<1>4. InHand(closer) \in Int /\ InHand(closer') \in Int
  BY DEF InHand
<1>5. d <= faults' + InHand(closer')
  BY <1>1, <1>3, <1>4
<1>6. FaultCutsOneOrder' <=> Debt(short') <= faults' + InHand(closer')
  BY DEF FaultCutsOneOrder, Debt, InHand
<1>. QED BY <1>2, <1>5, <1>6

\* A step that moves no money and books nothing.
LEMMA CloseFrame ==
  ASSUME CloseInv, Grows(order, order'), UNCHANGED <<coin, cart, bills, short>>,
         TxShape(tx', order'), good' \in GoodTable, rept' \in [Users -> Nat],
         CloserOK(closer', order'), Owed(closer', short),
         faults' \in 0 .. MaxFaults, overlap' \in BOOLEAN,
         faults + InHand(closer) <= faults' + InHand(closer')
  PROVE  CloseInv'
<1>1. BaseInv /\ LedgerInv(short) /\ short \in Shortages /\ faults \in Nat
  BY ShopCloseAssumption DEF CloseInv
<1>2. BaseInv'
  BY <1>1, BaseFacts, CloseBase
<1>3. LedgerInv(short)'
  <2>1. PICK s \in Shortages : s = short /\ s = short'
    BY <1>1
  <2>2. LedgerInv(s) /\ Follows(coin', order, Tally(bills, s))
    BY <1>1, <2>1 DEF LedgerInv
  <2>3. LedgerInv(s)'
    BY <1>1, <1>2, <2>2, LedgerKept
  <2>. QED BY <2>1, <2>3
<1>4. faults' \in Nat
  BY ShopCloseAssumption
<1>5. FaultCutsOneOrder'
  BY <1>1, <1>4, DebtKept
<1>. QED BY <1>1, <1>2, <1>3, <1>5 DEF CloseInv

LEMMA CloseFacts ==
  ASSUME CloseInv
  PROVE  /\ BaseInv /\ CloserOK(closer, order) /\ short \in Shortages
         /\ Owed(closer, short) /\ LedgerInv(short) /\ FaultCutsOneOrder
         /\ faults \in 0 .. MaxFaults /\ overlap \in BOOLEAN
         /\ coin \in Ledgers /\ good \in GoodTable /\ Table(order)
         /\ bills \in Bills /\ rept \in [Users -> Nat]
         /\ DOMAIN cart \in SUBSET DOMAIN InitCart
         /\ TxShape(tx, order) /\ Grows(order, order)
  BY BaseFacts, GrowsSelf DEF CloseInv

\* Between two orders nothing is owed.
LEMMA NothingOwed ==
  ASSUME NEW x, NEW s, x.at \in {"none", "next"} \cup Refunding \cup {"take"}
  PROVE  Owed(x, s) /\ InHand(x) = 0
  BY DEF Owed, ToPay, ToRebate, ToReward, ToRewardTwo, InHand, Refunding, Confirming

\* A step of the method that touches no table.
LEMMA QuietStep ==
  ASSUME CloseInv, UNCHANGED <<vars, short, faults>>, overlap' \in BOOLEAN,
         CloserOK(closer', order), Owed(closer', short),
         InHand(closer) <= InHand(closer')
  PROVE  CloseInv'
<1>1. Grows(order, order') /\ TxShape(tx', order') /\ CloserOK(closer', order')
  BY CloseFacts DEF vars
<1>2. faults + InHand(closer) <= faults' + InHand(closer') /\ faults' \in 0 .. MaxFaults
  BY CloseFacts, ShopCloseAssumption DEF InHand
<1>. QED BY <1>1, <1>2, CloseFacts, CloseFrame DEF vars

LEMMA StartStep ==
  ASSUME CloseInv, NEW v \in Range(Owner), closeOrderByUserId(v)
  PROVE  CloseInv'
<1>1. v \in Users
  BY MallAssumption DEF Range
<1>2. Listed(v, "UNSEND") \in SUBSET Orders
  BY CloseFacts DEF Listed, Table
<1>3. closer' \in Between
  BY <1>1, <1>2 DEF closeOrderByUserId, Between, Phase
<1>4. CloserOK(closer', order)
  BY <1>3 DEF CloserOK, Todo, closeOrderByUserId, Listed
<1>5. closer'.at = "next" /\ closer.at = "none"
  BY DEF closeOrderByUserId, NotClosing
<1>6. InHand(closer) = 0 /\ Owed(closer', short) /\ InHand(closer') = 0
  BY <1>5, NothingOwed
<1>7. overlap' \in BOOLEAN /\ UNCHANGED <<vars, short, faults>>
  BY CloseFacts DEF closeOrderByUserId
<1>. QED BY <1>4, <1>6, <1>7, QuietStep

LEMMA ListStep ==
  ASSUME CloseInv, nextList
  PROVE  CloseInv'
<1>1. closer.at = "next" /\ closer \in Between
  BY CloseFacts, CloserFacts DEF nextList
<1>2. CloserOK(closer', order) /\ closer'.at \in {"none", "next"}
  <2>1. CASE closer.phase = "SENT"
    BY <2>1 DEF nextList, CloserOK, NotClosing
  <2>2. CASE closer.phase # "SENT"
    <3>1. PICK p \in Phase, q \in SUBSET Orders :
            p = Following[closer.phase] /\ q = Listed(closer.seller, p)
      <4>1. Following[closer.phase] \in Phase
        BY <1>1, <2>2 DEF Between, Phase, Following
      <4>2. \A p : Listed(closer.seller, p) \in SUBSET Orders
        BY CloseFacts DEF Listed, Table
      <4>. QED BY <4>1, <4>2
    <3>2. closer' = [closer EXCEPT !.phase = p, !.todo = q]
      BY <2>2, <3>1 DEF nextList
    <3>3. /\ closer' \in Between /\ closer'.todo = q /\ closer'.seller = closer.seller
          /\ closer'.at = "next"
      BY <1>1, <3>2 DEF Between
    <3>. QED BY <3>1, <3>3 DEF CloserOK, Todo, Listed
  <2>. QED BY <2>1, <2>2
<1>3. InHand(closer) = 0 /\ Owed(closer', short) /\ InHand(closer') = 0
  BY <1>1, <1>2, NothingOwed
<1>. QED BY <1>2, <1>3, CloseFacts, QuietStep DEF nextList

LEMMA TakeUpStep ==
  ASSUME CloseInv, NEW o \in Orders, takeUp(o)
  PROVE  CloseInv'
<1>1. closer.at = "next" /\ closer \in Between /\ Todo(closer, order) /\ o \in closer.todo
  BY CloseFacts, CloserFacts DEF takeUp
<1>2. o \in DOMAIN order /\ Owner[order[o].good] = closer.seller
  BY <1>1 DEF Todo
<1>3. order[o] \in Row /\ good[order[o].good] \in [stock : Nat, sales : Nat]
  BY <1>2, CloseFacts DEF Table, Row, GoodTable
<1>4. /\ CloserOK(closer', order)
      /\ closer'.at \in {"none", "next"} \cup Refunding \cup {"take"}
  <2>1. CASE Check(Handler[closer.phase], order[o])
    <3>1. PICK a \in {"take", "refund"}, r \in Row, g \in [stock : Nat, sales : Nat] :
            /\ a = IF closer.phase = "SENT" THEN "take" ELSE "refund"
            /\ r = order[o] /\ g = good[order[o].good]
      BY <1>3
    <3>2. PICK td \in SUBSET Orders : td = closer.todo \ {o}
      BY <1>1 DEF Between
    <3>3. closer' = [at |-> a, seller |-> closer.seller, phase |-> closer.phase,
                     todo |-> td, order |-> o, row |-> r, seen |-> g]
      BY <2>1, <3>1, <3>2 DEF takeUp
    <3>4. closer' \in Amid
      BY <1>1, <3>3 DEF Between, Amid, Refunding, Confirming
    <3>5. /\ closer'.todo = td /\ closer'.seller = closer.seller
          /\ closer'.order = o /\ closer'.row = r /\ closer'.at = a
      BY <3>3
    <3>6. Todo(closer', order)
      BY <1>1, <3>2, <3>5 DEF Todo
    <3>7. Taken(closer', order)
      BY <1>2, <3>1, <3>5 DEF Taken, SameDeal
    <3>. QED BY <3>4, <3>5, <3>6, <3>7 DEF CloserOK, Refunding
  <2>2. CASE ~Check(Handler[closer.phase], order[o])
    <3>1. PICK td \in SUBSET Orders : td = closer.todo \ {o}
      BY <1>1 DEF Between
    <3>2. closer' = [closer EXCEPT !.todo = td]
      BY <2>2, <3>1 DEF takeUp
    <3>3. /\ closer' \in Between /\ closer'.todo = td
          /\ closer'.seller = closer.seller /\ closer'.at = "next"
      BY <1>1, <3>2 DEF Between
    <3>. QED BY <1>1, <3>1, <3>3 DEF CloserOK, Todo
  <2>. QED BY <2>1, <2>2
<1>5. InHand(closer) = 0 /\ Owed(closer', short) /\ InHand(closer') = 0
  BY <1>1, <1>4, NothingOwed
<1>. QED BY <1>4, <1>5, CloseFacts, QuietStep DEF takeUp

\* Where the closing goes after a statement.
LEMMA GoneOn ==
  ASSUME CloseInv, closer.at \in Refunding \cup Confirming,
         NEW a \in Refunding \cup Confirming, Goto(a)
  PROVE  /\ CloserOK(closer', order) /\ closer'.at = a /\ closer'.order = closer.order
  BY CloseFacts, CloserFacts, GotoOK DEF Goto

LEMMA GoneBack ==
  ASSUME CloseInv, closer.at \in Refunding \cup Confirming, Back
  PROVE  CloserOK(closer', order) /\ closer'.at = "next"
  BY CloseFacts, CloserFacts, BackOK DEF Back

LEMMA InsufficientStep ==
  ASSUME CloseInv, insufficient
  PROVE  CloseInv'
<1>1. closer.at \in {"refund", "take"}
  BY DEF insufficient
<1>2. CloserOK(closer', order) /\ closer'.at = "next"
  BY <1>1, GoneBack DEF insufficient, Refunding, Confirming
<1>3. InHand(closer) = 0 /\ Owed(closer', short) /\ InHand(closer') = 0
  BY <1>1, <1>2, NothingOwed DEF Refunding
<1>. QED BY <1>2, <1>3, CloseFacts, QuietStep DEF insufficient

LEMMA ReadStockStep ==
  ASSUME CloseInv, readStock
  PROVE  CloseInv'
<1>1. /\ closer.at = "readStock" /\ closer \in Amid
      /\ Todo(closer, order) /\ Taken(closer, order)
  BY CloseFacts, CloserFacts DEF readStock, Refunding
<1>2. PICK g \in [stock : Nat, sales : Nat] : g = good[closer.row.good]
  BY <1>1, CloseFacts DEF Amid, Row, GoodTable
<1>3. closer' = [closer EXCEPT !.at = "writeStock", !.seen = g]
  BY <1>2 DEF readStock
<1>4. /\ closer' \in Amid /\ closer'.at = "writeStock" /\ closer'.todo = closer.todo
      /\ closer'.seller = closer.seller /\ closer'.order = closer.order
      /\ closer'.row = closer.row
  BY <1>1, <1>3 DEF Amid, Refunding
<1>5. CloserOK(closer', order)
  BY <1>1, <1>4 DEF CloserOK, Todo, Taken
<1>6. InHand(closer) = 0 /\ Owed(closer', short) /\ InHand(closer') = 0
  BY <1>1, <1>4, NothingOwed DEF Refunding
<1>. QED BY <1>5, <1>6, CloseFacts, QuietStep DEF readStock

\* A statement that writes the order, the good or the rating.
LEMMA WriteStep ==
  ASSUME CloseInv, Grows(order, order'), UNCHANGED <<coin, cart, bills, tx, short,
                                                     faults, overlap>>,
         good' \in GoodTable, rept' \in [Users -> Nat],
         CloserOK(closer', order), Owed(closer', short),
         InHand(closer) <= InHand(closer')
  PROVE  CloseInv'
<1>1. TxShape(tx', order') /\ CloserOK(closer', order')
  BY CloseFacts, TxGrows, CloserGrows
<1>2. /\ faults + InHand(closer) <= faults' + InHand(closer')
      /\ faults' \in 0 .. MaxFaults /\ overlap' \in BOOLEAN
  BY CloseFacts, ShopCloseAssumption DEF InHand
<1>. QED BY <1>1, <1>2, CloseFrame

LEMMA SetStatusStep ==
  ASSUME CloseInv, setStatus
  PROVE  CloseInv'
<1>1. closer.at = "setStatus" /\ closer \in Amid /\ Taken(closer, order)
  BY CloseFacts, CloserFacts DEF setStatus, Refunding
<1>2. Grows(order, order')
  BY <1>1, CloseFacts, StatusGrows, ReturnedGrows DEF Taken, setStatus
<1>3. CloserOK(closer', order) /\ closer'.at = "readStock"
  BY <1>1, GoneOn DEF setStatus, Refunding
<1>4. InHand(closer) = 0 /\ Owed(closer', short) /\ InHand(closer') = 0
  BY <1>1, <1>3, NothingOwed DEF Refunding
<1>5. InHand(closer) <= InHand(closer')
  BY <1>4
<1>. QED BY <1>2, <1>3, <1>4, <1>5, CloseFacts, WriteStep DEF setStatus

LEMMA WriteStockStep ==
  ASSUME CloseInv, writeStock
  PROVE  CloseInv'
<1>1. closer.at = "writeStock" /\ closer \in Amid
  BY CloseFacts, CloserFacts DEF writeStock, Refunding
<1>2. good' \in GoodTable
  <2>1. PICK g \in Goods, k \in Nat :
          g = closer.row.good /\ k = closer.seen.stock + closer.row.count
    BY <1>1 DEF Amid, Row
  <2>2. good' = [good EXCEPT ![g].stock = k]
    BY <2>1 DEF writeStock
  <2>. QED BY <2>2, CloseFacts DEF GoodTable
<1>3. CloserOK(closer', order) /\ closer'.at = "next"
  BY <1>1, GoneBack DEF writeStock, Refunding
<1>4. InHand(closer) = 0 /\ Owed(closer', short) /\ InHand(closer') = 0
  BY <1>1, <1>3, NothingOwed DEF Refunding
<1>5. InHand(closer) <= InHand(closer')
  BY <1>4
<1>. QED BY <1>2, <1>3, <1>4, <1>5, CloseFacts, WriteStep DEF writeStock

\* Amid a confirmation the next statement owes what the last one left.
LEMMA StillOwed ==
  ASSUME CloseInv, NEW y, y.order = closer.order,
         \/ closer.at = "setSuccess" /\ y.at = "sales"
         \/ closer.at = "sales" /\ y.at = "rept"
         \/ closer.at = "rept" /\ y.at = "rebate"
  PROVE  Owed(y, short) /\ InHand(closer) <= InHand(y)
  BY CloseFacts DEF Owed, ToPay, ToRebate, ToReward, ToRewardTwo, InHand, Confirming

LEMMA SetSuccessStep ==
  ASSUME CloseInv, setSuccess
  PROVE  CloseInv'
<1>1. closer.at = "setSuccess" /\ closer \in Amid /\ Taken(closer, order)
  BY CloseFacts, CloserFacts DEF setSuccess, Confirming
<1>2. Grows(order, order')
  BY <1>1, CloseFacts, StatusGrows DEF Taken, setSuccess
<1>3. CloserOK(closer', order) /\ closer'.at = "sales" /\ closer'.order = closer.order
  BY <1>1, GoneOn DEF setSuccess, Confirming
<1>4. Owed(closer', short) /\ InHand(closer) <= InHand(closer')
  BY <1>1, <1>3, StillOwed
<1>. QED BY <1>2, <1>3, <1>4, CloseFacts, WriteStep DEF setSuccess

LEMMA SalesStep ==
  ASSUME CloseInv, sales
  PROVE  CloseInv'
<1>1. closer.at = "sales" /\ closer \in Amid
  BY CloseFacts, CloserFacts DEF sales, Confirming
<1>2. good' \in GoodTable
  <2>1. PICK g \in Goods, k \in Nat :
          g = closer.row.good /\ k = closer.seen.sales + closer.row.count
    BY <1>1 DEF Amid, Row
  <2>2. good' = [good EXCEPT ![g].sales = k]
    BY <2>1 DEF sales
  <2>. QED BY <2>2, CloseFacts DEF GoodTable
<1>3. CloserOK(closer', order) /\ closer'.at = "rept" /\ closer'.order = closer.order
  BY <1>1, GoneOn DEF sales, Confirming
<1>4. Owed(closer', short) /\ InHand(closer) <= InHand(closer')
  BY <1>1, <1>3, StillOwed
<1>. QED BY <1>2, <1>3, <1>4, CloseFacts, WriteStep DEF sales

LEMMA ReptStep ==
  ASSUME CloseInv, addGoodRept
  PROVE  CloseInv'
<1>1. closer.at = "rept" /\ closer \in Amid
  BY CloseFacts, CloserFacts DEF addGoodRept, Confirming
<1>2. rept' \in [Users -> Nat]
  <2>1. PICK v \in Users : v = closer.seller
    BY <1>1 DEF Amid
  <2>2. rept' = [rept EXCEPT ![v] = rept[v] + 1] /\ rept[v] + 1 \in Nat
    BY <2>1, CloseFacts DEF addGoodRept
  <2>. QED BY <2>2, CloseFacts
<1>3. CloserOK(closer', order) /\ closer'.at = "rebate" /\ closer'.order = closer.order
  BY <1>1, GoneOn DEF addGoodRept, Confirming
<1>4. Owed(closer', short) /\ InHand(closer) <= InHand(closer')
  BY <1>1, <1>3, StillOwed
<1>. QED BY <1>2, <1>3, <1>4, CloseFacts, WriteStep DEF addGoodRept

\* A fault: the confirmation in hand, if any, is cut short.
LEMMA FailStep ==
  ASSUME CloseInv, StatementFails
  PROVE  CloseInv'
<1>1. CloserOK(closer', order) /\ closer'.at = "next"
  BY GoneBack DEF StatementFails
<1>2. Owed(closer', short) /\ InHand(closer') = 0
  BY <1>1, NothingOwed
<1>3. InHand(closer) \in {0, 1}
  BY DEF InHand
<1>4. faults' \in 0 .. MaxFaults /\ faults' = faults + 1 /\ faults \in Nat
  BY CloseFacts, ShopCloseAssumption DEF StatementFails
<1>5. faults + InHand(closer) <= faults' + InHand(closer')
  BY <1>2, <1>3, <1>4
<1>6. /\ Grows(order, order') /\ TxShape(tx', order') /\ CloserOK(closer', order')
      /\ UNCHANGED <<coin, good, cart, rept, bills, short, overlap>>
  BY <1>1, CloseFacts DEF StatementFails, vars
<1>. QED BY <1>2, <1>4, <1>5, <1>6, CloseFacts, CloseFrame

LEMMA CrashStep ==
  ASSUME CloseInv, Crash
  PROVE  CloseInv'
<1>1. closer' = NotClosing /\ closer'.at = "none" /\ CloserOK(closer', order')
  BY DEF Crash, NotClosing, CloserOK
<1>2. Owed(closer', short) /\ InHand(closer') = 0
  BY <1>1, NothingOwed
<1>3. InHand(closer) \in {0, 1}
  BY DEF InHand
<1>4. faults' \in 0 .. MaxFaults /\ faults' = faults + 1 /\ faults \in Nat
  BY CloseFacts, ShopCloseAssumption DEF Crash
<1>5. faults + InHand(closer) <= faults' + InHand(closer')
  BY <1>2, <1>3, <1>4
<1>6. TxShape(tx', order')
  BY DEF Crash, TxShape
<1>7. Grows(order, order') /\ UNCHANGED <<coin, good, cart, rept, bills, short, overlap>>
  BY CloseFacts DEF Crash
<1>. QED BY <1>1, <1>2, <1>4, <1>5, <1>6, <1>7, CloseFacts, CloseFrame

LEMMA RefundStep ==
  ASSUME CloseInv, refund
  PROVE  CloseInv'
<1>1. closer.at = "refund" /\ closer \in Amid /\ Taken(closer, order)
  BY CloseFacts, CloserFacts DEF refund, Refunding
<1>2. PICK v \in Users, n \in Nat, dF \in Int, z \in Int :
        v = closer.row.user /\ n = closer.row.total /\ dF = 0 - n /\ z = 0
  <2>1. closer.row.user \in Users /\ closer.row.total \in Nat
    BY <1>1 DEF Amid, Row
  <2>. QED BY <2>1
<1>3. Can(coin, v, n, dF, z) /\ coin' = Post(coin, v, n, dF, z)
  BY <1>2 DEF refund
<1>4. PICK o \in Orders : o = closer.order
  BY <1>1 DEF Amid
<1>5. /\ bills' \in Bills
      /\ \A x \in Orders : bills'[x].confirmed = bills[x].confirmed
  <2>1. bills' = [bills EXCEPT ![o].refunded = bills[o].refunded + 1]
    BY <1>4 DEF refund
  <2>2. bills[o].refunded + 1 \in Nat
    BY CloseFacts DEF Bills
  <2>. QED BY <2>1, <2>2, CloseFacts DEF Bills
<1>6. UNCHANGED <<good, cart, order, rept, tx, short, faults, overlap>>
  BY DEF refund
<1>7. PICK s \in Shortages : s = short /\ s = short'
  BY <1>6, CloseFacts
<1>8. PICK c : c = Tally(bills, s)
  OBVIOUS
<1>9. coin' \in Ledgers /\ Follows(coin', order, c)
  <2>1. Follows(coin, order, c)
    BY <1>7, <1>8, CloseFacts DEF LedgerInv
  <2>. QED BY <1>2, <1>3, <2>1, CloseFacts, FreezeFollows
<1>10. BaseInv'
  BY <1>5, <1>6, <1>9, CloseFacts, CloseBase
<1>11. LedgerInv(s)'
  <2>1. LedgerInv(s) /\ Grows(order, order')
    BY <1>6, <1>7, CloseFacts
  <2>. QED BY <1>5, <1>8, <1>9, <1>10, <2>1, CloseFacts, LedgerKept
<1>12. CloserOK(closer', order') /\ closer'.at = "setStatus"
  BY <1>1, <1>6, GoneOn DEF refund, Refunding
<1>13. InHand(closer) = 0 /\ Owed(closer', short') /\ InHand(closer') = 0
  BY <1>1, <1>12, NothingOwed DEF Refunding
<1>14. FaultCutsOneOrder'
  <2>1. faults' \in Nat /\ faults + InHand(closer) <= faults' + InHand(closer')
    BY <1>6, <1>13, CloseFacts, ShopCloseAssumption
  <2>. QED BY <1>6, <2>1, DebtKept
<1>. QED BY <1>6, <1>7, <1>10, <1>11, <1>12, <1>13, <1>14, CloseFacts DEF CloseInv

\* The counts after the price was taken, and after a credit was made.
LEMMA TallyTaken ==
  ASSUME NEW b \in Bills, NEW b2 \in Bills, NEW s \in Shortages, NEW s2 \in Shortages,
         NEW o \in Orders, b2[o].confirmed = b[o].confirmed + 1,
         \A x \in Orders : x # o => b2[x].confirmed = b[x].confirmed,
         \A f \in Field \ {"taken"} : s2[o][f] = s[o][f] + 1 /\ s[o][f] \in Nat,
         \A x \in Orders : x # o => s2[x] = s[x]
  PROVE  Bump(Tally(b, s), Tally(b2, s2), "taken", o)
<1>1. PICK c \in Tallies, d \in Tallies : c = Tally(b, s) /\ d = Tally(b2, s2)
  BY TallyType
<1>2. ASSUME NEW f \in Field, NEW x \in Orders
      PROVE  /\ c[f][x] = IF f = "taken" THEN b[x].confirmed
                          ELSE b[x].confirmed - s[x][f]
             /\ d[f][x] = IF f = "taken" THEN b2[x].confirmed
                          ELSE b2[x].confirmed - s2[x][f]
  BY <1>1 DEF Tally
<1>3. "taken" \in Field
  BY DEF Field
<1>4. d["taken"][o] = c["taken"][o] + 1
  BY <1>2, <1>3
<1>5. \A x \in Orders : x # o => d["taken"][x] = c["taken"][x]
  BY <1>2, <1>3
<1>6. ASSUME NEW g \in Field, g # "taken" PROVE d[g] = c[g]
  <2>1. ASSUME NEW x \in Orders, x # o PROVE d[g][x] = c[g][x]
    BY <1>2, <1>6, <2>1
  <2>2. d[g][o] = c[g][o]
    <3>1. PICK q \in Nat, n \in Nat : q = s[o][g] /\ n = b[o].confirmed
      BY <1>6 DEF Bills
    <3>2. s2[o][g] = q + 1 /\ b2[o].confirmed = n + 1
      BY <1>6, <3>1
    <3>3. c[g][o] = n - q /\ d[g][o] = (n + 1) - (q + 1)
      BY <1>2, <1>6, <3>1, <3>2
    <3>. QED BY <3>3
  <2>3. c[g] \in [Orders -> Int] /\ d[g] \in [Orders -> Int]
    BY DEF Tallies
  <2>4. \A x \in Orders : d[g][x] = c[g][x]
    BY <2>1, <2>2
  <2>. QED BY <2>3, <2>4
<1>. QED BY <1>1, <1>4, <1>5, <1>6 DEF Bump

LEMMA TallyCredit ==
  ASSUME NEW b \in Bills, NEW s \in Shortages, NEW s2 \in Shortages,
         NEW o \in Orders, NEW f \in Field \ {"taken"},
         s2[o][f] = s[o][f] - 1, s[o][f] \in Nat,
         \A g \in Field \ {"taken"} : g # f => s2[o][g] = s[o][g],
         \A x \in Orders : x # o => s2[x] = s[x]
  PROVE  Bump(Tally(b, s), Tally(b, s2), f, o)
<1>1. PICK c \in Tallies, d \in Tallies : c = Tally(b, s) /\ d = Tally(b, s2)
  BY TallyType
<1>2. ASSUME NEW g \in Field, NEW x \in Orders
      PROVE  /\ c[g][x] = IF g = "taken" THEN b[x].confirmed
                          ELSE b[x].confirmed - s[x][g]
             /\ d[g][x] = IF g = "taken" THEN b[x].confirmed
                          ELSE b[x].confirmed - s2[x][g]
  BY <1>1 DEF Tally
<1>3. d[f][o] = c[f][o] + 1
  <2>1. PICK q \in Nat, n \in Nat : q = s[o][f] /\ n = b[o].confirmed
    BY DEF Bills
  <2>2. c[f][o] = n - q /\ d[f][o] = n - (q - 1)
    BY <1>2, <2>1
  <2>. QED BY <2>2
<1>4. \A x \in Orders : x # o => d[f][x] = c[f][x]
  BY <1>2
<1>5. ASSUME NEW g \in Field, g # f PROVE d[g] = c[g]
  <2>1. \A x \in Orders : d[g][x] = c[g][x]
    BY <1>2, <1>5
  <2>2. c[g] \in [Orders -> Int] /\ d[g] \in [Orders -> Int]
    BY DEF Tallies
  <2>. QED BY <2>1, <2>2
<1>. QED BY <1>1, <1>3, <1>4, <1>5 DEF Bump

LEMMA TakeStep ==
  ASSUME CloseInv, take
  PROVE  CloseInv'
<1>1. closer.at = "take" /\ closer \in Amid /\ Taken(closer, order)
  BY CloseFacts, CloserFacts DEF take, Confirming
<1>2. PICK o \in Orders, r \in Row : o = closer.order /\ r = closer.row
  BY <1>1 DEF Amid
<1>3. o \in DOMAIN order /\ SameDeal(r, order[o]) /\ r.user \in Users /\ r.total \in Nat
  BY <1>1, <1>2 DEF Taken, Row
<1>4. UNCHANGED <<good, cart, order, rept, tx, faults, overlap>>
  BY DEF take
<1>5. PICK b \in Bills, b2 \in Bills : b = bills /\ b2 = bills'
  <2>1. bills' = [bills EXCEPT ![o].confirmed = bills[o].confirmed + 1]
    BY <1>2 DEF take
  <2>2. bills[o].confirmed + 1 \in Nat
    BY CloseFacts DEF Bills
  <2>3. bills' \in Bills
    BY <2>1, <2>2, CloseFacts DEF Bills
  <2>. QED BY <2>3, CloseFacts
<1>6. /\ b2[o].confirmed = b[o].confirmed + 1
      /\ \A x \in Orders : x # o => b2[x].confirmed = b[x].confirmed
  BY <1>2, <1>5, CloseFacts DEF take, Bills
<1>7. PICK s \in Shortages : s = short
  BY CloseFacts
<1>8. PICK s2 : s2 = short'
  OBVIOUS
<1>9. /\ s2 \in Shortages
      /\ \A f \in Field \ {"taken"} : s2[o][f] = s[o][f] + 1 /\ s[o][f] \in Nat
      /\ \A x \in Orders : x # o => s2[x] = s[x]
  <2>1. s2 = [s EXCEPT ![o] = [f \in DOMAIN s[o] |-> s[o][f] + 1]]
    BY <1>2, <1>7, <1>8 DEF take
  <2>2. MoreShort(s, s2, o)
    BY <2>1, ShortUp
  <2>. QED BY <2>2 DEF MoreShort
<1>10. Bump(Tally(b, s), Tally(b2, s2), "taken", o)
  BY ONLY <1>6, <1>9, TallyTaken, o \in Orders, b \in Bills, b2 \in Bills,
          s \in Shortages
<1>11. Books(coin, coin', order[o], "taken")
  <2>1. PICK n \in Nat, neg \in Int, z \in Int :
          n = r.total /\ neg = 0 - n /\ z = 0
    BY <1>3
  <2>2. Can(coin, r.user, z, z, neg) /\ coin' = Post(coin, r.user, z, z, neg)
    BY <1>2, <2>1 DEF take
  <2>3. Percent(n, 100) = n
    BY WholePercent
  <2>4. Books(coin, coin', r, "taken")
    BY <2>1, <2>2, <2>3 DEF Books, Who, Rate, Coins, Award
  <2>5. PICK r2 : r2 = order[o]
    OBVIOUS
  <2>6. PICK l, m : l = coin /\ m = coin'
    OBVIOUS
  <2>7. SameDeal(r, r2) /\ Books(l, m, r, "taken") /\ "taken" \in Field
    BY <1>3, <2>4, <2>5, <2>6 DEF Field
  <2>8. Books(l, m, r2, "taken")
    BY ONLY <2>7, BooksDeal
  <2>. QED BY <2>5, <2>6, <2>8
<1>12. coin' \in Ledgers /\ Follows(coin', order, Tally(b2, s2))
  <2>1. PICK c, d : c = Tally(b, s) /\ d = Tally(b2, s2)
    OBVIOUS
  <2>2. Bump(c, d, "taken", o) /\ Follows(coin, order, c) /\ "taken" \in Field
    BY <1>5, <1>7, <1>10, <2>1, CloseFacts DEF LedgerInv, Field
  <2>. QED BY <1>3, <1>11, <2>1, <2>2, CloseFacts, BooksFollow
<1>13. BaseInv'
  <2>1. \A x \in Orders : x \notin DOMAIN order => bills'[x].confirmed = bills[x].confirmed
    BY <1>3, <1>5, <1>6
  <2>. QED BY <1>4, <1>5, <1>12, <2>1, CloseFacts, CloseBase
<1>14. LedgerInv(short)'
  <2>1. FreshShort(short)'
    BY <1>3, <1>4, <1>7, <1>8, <1>9, CloseFacts DEF LedgerInv, FreshShort
  <2>. QED BY <1>4, <1>5, <1>8, <1>12, <2>1 DEF LedgerInv
<1>15. CloserOK(closer', order') /\ closer'.at = "pay" /\ closer'.order = o
  BY <1>1, <1>2, <1>4, GoneOn DEF take, Confirming
<1>16. Owed(closer', short')
  <2>1. \A f \in Field \ {"taken"} : s2[o][f] > 0
    BY <1>9
  <2>2. s2[o].seller > 0 /\ s2[o].rebate > 0 /\ s2[o].one > 0 /\ s2[o].two > 0
    BY <2>1 DEF Field
  <2>. QED BY <1>8, <1>15, <2>2 DEF Owed
<1>17. FaultCutsOneOrder'
  <2>1. s2[o].two = s[o].two + 1
    BY <1>9 DEF Field
  <2>2. \A x \in Orders : x # o => s2[x].two = s[x].two
    BY <1>9
  <2>3. Debt(s) \in Int /\ s[o].two \in Nat /\ Debt(s2) = Debt(s) - s[o].two + s2[o].two
    BY <1>9, <2>2, DebtStep
  <2>4. Debt(s2) = Debt(s) + 1
    BY <2>1, <2>3
  <2>5. Debt(s) <= faults + 0
    <3>1. InHand(closer) = 0
      BY <1>1 DEF InHand
    <3>. QED BY <1>7, <3>1, CloseFacts, FaultCutsIsDebt
  <2>6. InHand(closer') = 1 /\ faults' = faults /\ faults \in Nat
    BY <1>4, <1>15, CloseFacts, ShopCloseAssumption DEF InHand, Confirming
  <2>7. Debt(s2) <= faults' + InHand(closer')
    BY <2>3, <2>4, <2>5, <2>6
  <2>. QED BY <1>8, <2>7 DEF FaultCutsOneOrder, Debt, InHand
<1>18. short' \in Shortages /\ faults' \in 0 .. MaxFaults /\ overlap' \in BOOLEAN
  BY <1>4, <1>8, <1>9, CloseFacts
<1>. QED BY <1>13, <1>14, <1>15, <1>16, <1>17, <1>18 DEF CloseInv

\* A credit of the order in hand leaves one less to be made, of field f.
Settled(f) ==
  /\ BaseInv' /\ LedgerInv(short)' /\ short' \in Shortages
  /\ \A g \in Field \ {"taken"} :
       g # f => short'[closer.order][g] = short[closer.order][g]
  /\ Debt(short) \in Int
  /\ f = "two" => Debt(short') = Debt(short) - 1
  /\ f # "two" => Debt(short') = Debt(short)

LEMMA CreditStep ==
  ASSUME CloseInv, closer \in Amid, Taken(closer, order),
         NEW f \in Field \ {"taken"}, short[closer.order][f] > 0,
         Books(coin, coin', closer.row, f),
         short' = [short EXCEPT ![closer.order][f] = short[closer.order][f] - 1],
         UNCHANGED <<good, cart, order, rept, bills, tx, faults, overlap>>
  PROVE  Settled(f)
<1>1. PICK o \in Orders, r \in Row : o = closer.order /\ r = closer.row
  BY DEF Amid
<1>2. o \in DOMAIN order /\ SameDeal(r, order[o])
  BY <1>1 DEF Taken
<1>3. PICK b \in Bills : b = bills
  BY CloseFacts
<1>4. PICK s \in Shortages : s = short
  BY CloseFacts
<1>5. PICK s2 : s2 = short'
  OBVIOUS
<1>6. /\ s2 \in Shortages
      /\ s2[o][f] = s[o][f] - 1 /\ s[o][f] \in Nat
      /\ \A g \in Field \ {"taken"} : g # f => s2[o][g] = s[o][g]
      /\ \A x \in Orders : x # o => s2[x] = s[x]
  <2>1. s[o][f] > 0 /\ s2 = [s EXCEPT ![o][f] = s[o][f] - 1]
    BY <1>1, <1>4, <1>5
  <2>2. LessShort(s, s2, o, f)
    BY <2>1, ShortDown
  <2>. QED BY <2>2 DEF LessShort
<1>7. Bump(Tally(b, s), Tally(b, s2), f, o)
  BY ONLY <1>6, TallyCredit, o \in Orders, b \in Bills, s \in Shortages,
          f \in Field \ {"taken"}
<1>8. Books(coin, coin', order[o], f)
  <2>1. PICK r2 : r2 = order[o]
    OBVIOUS
  <2>2. PICK l, m : l = coin /\ m = coin'
    OBVIOUS
  <2>3. SameDeal(r, r2) /\ Books(l, m, r, f) /\ f \in Field
    BY <1>1, <1>2, <2>1, <2>2
  <2>4. Books(l, m, r2, f)
    BY ONLY <2>3, BooksDeal
  <2>. QED BY <2>1, <2>2, <2>4
<1>9. coin' \in Ledgers /\ Follows(coin', order, Tally(b, s2))
  <2>1. PICK c, d : c = Tally(b, s) /\ d = Tally(b, s2)
    OBVIOUS
  <2>2. Bump(c, d, f, o) /\ Follows(coin, order, c) /\ f \in Field
    BY <1>3, <1>4, <1>7, <2>1, CloseFacts DEF LedgerInv
  <2>. QED BY <1>2, <1>8, <2>1, <2>2, CloseFacts, BooksFollow
<1>10. BaseInv'
  BY <1>9, CloseFacts, CloseBase
<1>11. LedgerInv(short)'
  <2>1. FreshShort(short)'
    BY <1>2, <1>4, <1>5, <1>6, CloseFacts DEF LedgerInv, FreshShort
  <2>. QED BY <1>3, <1>5, <1>9, <2>1 DEF LedgerInv
<1>12. /\ Debt(s) \in Int
       /\ f = "two" => Debt(s2) = Debt(s) - 1
       /\ f # "two" => Debt(s2) = Debt(s)
  <2>1. \A x \in Orders : x # o => s2[x].two = s[x].two
    BY <1>6
  <2>2. Debt(s) \in Int /\ s[o].two \in Nat /\ Debt(s2) = Debt(s) - s[o].two + s2[o].two
    BY <1>6, <2>1, DebtStep
  <2>3. f # "two" => s2[o].two = s[o].two
    BY <1>6 DEF Field
  <2>4. f = "two" => s2[o].two = s[o].two - 1
    BY <1>6
  <2>. QED BY <2>2, <2>3, <2>4
<1>. QED BY <1>1, <1>4, <1>5, <1>6, <1>10, <1>11, <1>12 DEF Settled

LEMMA CreditDone ==
  ASSUME CloseInv, BaseInv', LedgerInv(short)', short' \in Shortages,
         CloserOK(closer', order), Owed(closer', short'),
         Debt(short) \in Int, Debt(short') \in Int,
         Debt(short') - InHand(closer') <= Debt(short) - InHand(closer),
         UNCHANGED <<order, faults, overlap>>
  PROVE  CloseInv'
<1>1. Debt(short) <= faults + InHand(closer) /\ faults \in Nat
  BY CloseFacts, ShopCloseAssumption, FaultCutsIsDebt
<1>2. InHand(closer) \in Int /\ InHand(closer') \in Int
  BY DEF InHand
<1>3. Debt(short') <= faults' + InHand(closer')
  BY <1>1, <1>2
<1>4. FaultCutsOneOrder'
  BY <1>3 DEF FaultCutsOneOrder, Debt, InHand
<1>. QED BY <1>4, CloseFacts DEF CloseInv

LEMMA PayStep ==
  ASSUME CloseInv, pay
  PROVE  CloseInv'
<1>1. closer.at = "pay" /\ closer \in Amid /\ Taken(closer, order)
  BY CloseFacts, CloserFacts DEF pay, Confirming
<1>2. short[closer.order].seller > 0 /\ short[closer.order].rebate > 0
      /\ short[closer.order].one > 0 /\ short[closer.order].two > 0
  BY <1>1, CloseFacts DEF Owed, ToPay, ToRebate, ToReward, ToRewardTwo
<1>3. Books(coin, coin', closer.row, "seller")
  <2>1. PICK n \in Nat, z \in Int : n = closer.row.total /\ z = 0
    BY <1>1 DEF Amid, Row
  <2>2. coin' = Post(coin, Owner[closer.row.good], n, z, z)
    BY <1>1, <2>1 DEF pay, Credit, Taken
  <2>3. Percent(n, 100) = n
    BY WholePercent
  <2>. QED BY <2>1, <2>2, <2>3 DEF Books, Who, Rate, Coins, Award
<1>4. short' = [short EXCEPT ![closer.order]["seller"] = short[closer.order]["seller"] - 1]
  BY DEF pay, Credit
<1>5. /\ BaseInv' /\ LedgerInv(short)' /\ short' \in Shortages
      /\ \A g \in Field \ {"taken"} :
           g # "seller" => short'[closer.order][g] = short[closer.order][g]
      /\ Debt(short) \in Int /\ Debt(short') = Debt(short)
  <2>1. short[closer.order]["seller"] > 0 /\ "seller" \in Field \ {"taken"}
    BY <1>2 DEF Field
  <2>2. UNCHANGED <<good, cart, order, rept, bills, tx, faults, overlap>>
    BY DEF pay, Credit
  <2>3. Settled("seller")
    BY <1>1, <1>3, <1>4, <2>1, <2>2, CreditStep
  <2>. QED BY <2>3 DEF Settled
<1>6. /\ closer'.at = "setSuccess" /\ closer'.order = closer.order
      /\ CloserOK(closer', order)
  BY <1>1, GoneOn DEF pay, Confirming
<1>7. Owed(closer', short')
  BY <1>2, <1>5, <1>6 DEF Owed, ToPay, ToRebate, ToReward, ToRewardTwo, Field
<1>8. InHand(closer) = 1 /\ InHand(closer') = 1
  BY <1>1, <1>6 DEF InHand, Confirming
<1>9. Debt(short') - InHand(closer') <= Debt(short) - InHand(closer)
  BY <1>5, <1>8
<1>. QED BY <1>5, <1>6, <1>7, <1>9, CreditDone DEF pay, Credit

LEMMA RebateStep ==
  ASSUME CloseInv, rebate
  PROVE  CloseInv'
<1>1. closer.at = "rebate" /\ closer \in Amid /\ Taken(closer, order)
  BY CloseFacts, CloserFacts DEF rebate, Confirming
<1>2. short[closer.order].rebate > 0 /\ short[closer.order].one > 0 /\ short[closer.order].two > 0
  BY <1>1, CloseFacts DEF Owed, ToPay, ToRebate, ToReward, ToRewardTwo
<1>3. Books(coin, coin', closer.row, "rebate")
  <2>1. PICK n \in Nat, z \in Int : n = Percent(closer.row.total, BuyRebate) /\ z = 0
    <3>1. closer.row.total \in Nat
      BY <1>1 DEF Amid, Row
    <3>. QED BY <3>1, PercentType, MallAssumption
  <2>2. coin' = Post(coin, closer.row.user, z, z, n)
    BY <1>1, <2>1 DEF rebate, Credit, Taken
  <2>. QED BY <2>1, <2>2 DEF Books, Who, Rate, Coins, Award
<1>4. short' = [short EXCEPT ![closer.order]["rebate"] = short[closer.order]["rebate"] - 1]
  BY DEF rebate, Credit
<1>5. /\ BaseInv' /\ LedgerInv(short)' /\ short' \in Shortages
      /\ \A g \in Field \ {"taken"} :
           g # "rebate" => short'[closer.order][g] = short[closer.order][g]
      /\ Debt(short) \in Int /\ Debt(short') = Debt(short)
  <2>1. short[closer.order]["rebate"] > 0 /\ "rebate" \in Field \ {"taken"}
    BY <1>2 DEF Field
  <2>2. UNCHANGED <<good, cart, order, rept, bills, tx, faults, overlap>>
    BY DEF rebate, Credit
  <2>3. Settled("rebate")
    BY <1>1, <1>3, <1>4, <2>1, <2>2, CreditStep
  <2>. QED BY <2>3 DEF Settled
<1>6. /\ closer'.at = "levelOne" /\ closer'.order = closer.order
      /\ CloserOK(closer', order)
  BY <1>1, GoneOn DEF rebate, Confirming
<1>7. Owed(closer', short')
  BY <1>2, <1>5, <1>6 DEF Owed, ToPay, ToRebate, ToReward, ToRewardTwo, Field
<1>8. InHand(closer) = 1 /\ InHand(closer') = 1
  BY <1>1, <1>6 DEF InHand, Confirming
<1>9. Debt(short') - InHand(closer') <= Debt(short) - InHand(closer)
  BY <1>5, <1>8
<1>. QED BY <1>5, <1>6, <1>7, <1>9, CreditDone DEF rebate, Credit

LEMMA LevelOneStep ==
  ASSUME CloseInv, levelOne
  PROVE  CloseInv'
<1>1. closer.at = "levelOne" /\ closer \in Amid /\ Taken(closer, order)
  BY CloseFacts, CloserFacts DEF levelOne, Confirming
<1>2. short[closer.order].one > 0 /\ short[closer.order].two > 0
  BY <1>1, CloseFacts DEF Owed, ToPay, ToRebate, ToReward, ToRewardTwo
<1>3. Books(coin, coin', closer.row, "one")
  <2>1. PICK n \in Nat, z \in Int : n = Percent(closer.row.total, OneLevel) /\ z = 0
    <3>1. closer.row.total \in Nat
      BY <1>1 DEF Amid, Row
    <3>. QED BY <3>1, PercentType, MallAssumption
  <2>2. coin' = Post(coin, InviterOf(closer.row.user), n, z, z)
    BY <1>1, <2>1 DEF levelOne, Credit, Taken
  <2>. QED BY <2>1, <2>2 DEF Books, Who, Rate, Coins, Award
<1>4. short' = [short EXCEPT ![closer.order]["one"] = short[closer.order]["one"] - 1]
  BY DEF levelOne, Credit
<1>5. /\ BaseInv' /\ LedgerInv(short)' /\ short' \in Shortages
      /\ \A g \in Field \ {"taken"} :
           g # "one" => short'[closer.order][g] = short[closer.order][g]
      /\ Debt(short) \in Int /\ Debt(short') = Debt(short)
  <2>1. short[closer.order]["one"] > 0 /\ "one" \in Field \ {"taken"}
    BY <1>2 DEF Field
  <2>2. UNCHANGED <<good, cart, order, rept, bills, tx, faults, overlap>>
    BY DEF levelOne, Credit
  <2>3. Settled("one")
    BY <1>1, <1>3, <1>4, <2>1, <2>2, CreditStep
  <2>. QED BY <2>3 DEF Settled
<1>6. /\ closer'.at = "levelTwo" /\ closer'.order = closer.order
      /\ CloserOK(closer', order)
  BY <1>1, GoneOn DEF levelOne, Confirming
<1>7. Owed(closer', short')
  BY <1>2, <1>5, <1>6 DEF Owed, ToPay, ToRebate, ToReward, ToRewardTwo, Field
<1>8. InHand(closer) = 1 /\ InHand(closer') = 1
  BY <1>1, <1>6 DEF InHand, Confirming
<1>9. Debt(short') - InHand(closer') <= Debt(short) - InHand(closer)
  BY <1>5, <1>8
<1>. QED BY <1>5, <1>6, <1>7, <1>9, CreditDone DEF levelOne, Credit

LEMMA LevelTwoStep ==
  ASSUME CloseInv, levelTwo
  PROVE  CloseInv'
<1>1. closer.at = "levelTwo" /\ closer \in Amid /\ Taken(closer, order)
  BY CloseFacts, CloserFacts DEF levelTwo, Confirming
<1>2. short[closer.order].two > 0
  BY <1>1, CloseFacts DEF Owed, ToPay, ToRebate, ToReward, ToRewardTwo
<1>3. Books(coin, coin', closer.row, "two")
  <2>1. PICK n \in Nat, z \in Int : n = Percent(closer.row.total, TwoLevel) /\ z = 0
    <3>1. closer.row.total \in Nat
      BY <1>1 DEF Amid, Row
    <3>. QED BY <3>1, PercentType, MallAssumption
  <2>2. coin' = Post(coin, InviterOf(InviterOf(closer.row.user)), n, z, z)
    BY <1>1, <2>1 DEF levelTwo, Credit, Taken
  <2>. QED BY <2>1, <2>2 DEF Books, Who, Rate, Coins, Award
<1>4. short' = [short EXCEPT ![closer.order]["two"] = short[closer.order]["two"] - 1]
  BY DEF levelTwo, Credit
<1>5. /\ BaseInv' /\ LedgerInv(short)' /\ short' \in Shortages
      /\ \A g \in Field \ {"taken"} :
           g # "two" => short'[closer.order][g] = short[closer.order][g]
      /\ Debt(short) \in Int /\ Debt(short') = Debt(short) - 1
  <2>1. short[closer.order]["two"] > 0 /\ "two" \in Field \ {"taken"}
    BY <1>2 DEF Field
  <2>2. UNCHANGED <<good, cart, order, rept, bills, tx, faults, overlap>>
    BY DEF levelTwo, Credit
  <2>3. Settled("two")
    BY <1>1, <1>3, <1>4, <2>1, <2>2, CreditStep
  <2>. QED BY <2>3 DEF Settled
<1>6. closer'.at = "next" /\ CloserOK(closer', order)
  BY <1>1, GoneBack DEF levelTwo, Confirming
<1>7. Owed(closer', short') /\ InHand(closer') = 0
  BY <1>6, NothingOwed
<1>8. InHand(closer) = 1
  BY <1>1 DEF InHand, Confirming
<1>9. Debt(short') - InHand(closer') <= Debt(short) - InHand(closer)
  BY <1>5, <1>7, <1>8
<1>. QED BY <1>5, <1>6, <1>7, <1>9, CreditDone DEF levelTwo, Credit

LEMMA RequestStep ==
  ASSUME CloseInv, Request
  PROVE  CloseInv'
<1>1. Next /\ UNCHANGED <<closer, short, faults>> /\ overlap' \in BOOLEAN
  BY CloseFacts DEF Request
<1>2. PICK s \in Shortages : s = short /\ s = short'
  BY <1>1, CloseFacts
<1>3. BaseInv' /\ LedgerInv(s)' /\ Grows(order, order')
  BY <1>1, <1>2, CloseFacts, MallNext
<1>4. CloserOK(closer', order') /\ Owed(closer', short')
  BY <1>1, <1>3, CloseFacts, CloserGrows
<1>5. FaultCutsOneOrder'
  BY <1>1, CloseFacts DEF FaultCutsOneOrder
<1>. QED BY <1>1, <1>2, <1>3, <1>4, <1>5, CloseFacts DEF CloseInv

LEMMA CloseInvInit == CloseInit => CloseInv
<1>. SUFFICES ASSUME CloseInit PROVE CloseInv
  OBVIOUS
<1>1. BaseInv /\ LedgerInv(NoShortage) /\ short = NoShortage
  <2>1. BaseInv /\ LedgerInv(NoShortage)
    BY BaseInit DEF CloseInit
  <2>2. short = NoShortage
    BY DEF CloseInit, NoShortage
  <2>. QED BY <2>1, <2>2
<1>2. CloserOK(closer, order) /\ closer.at = "none"
  <2>1. closer = NotClosing
    BY DEF CloseInit
  <2>. QED BY <2>1 DEF CloserOK, NotClosing
<1>3. Owed(closer, short) /\ InHand(closer) = 0
  BY <1>2, NothingOwed
<1>4. faults = 0 /\ faults \in 0 .. MaxFaults /\ overlap \in BOOLEAN
  <2>1. faults = 0 /\ overlap = FALSE
    BY DEF CloseInit
  <2>2. 0 \in 0 .. MaxFaults
    BY ShopCloseAssumption
  <2>. QED BY <2>1, <2>2
<1>5. Debt(short) = 0
  <2>1. PICK w : w = [o \in Orders |-> short[o].two]
    OBVIOUS
  <2>2. \A o \in Orders : w[o] = 0
    BY <1>1, <2>1 DEF NoShortage
  <2>3. SumFunctionOnSet(w, Orders) = SumFunctionOnSet(w, {})
    <3>1. IsFiniteSet(Orders) /\ {} \in SUBSET Orders
      BY MallAssumption
    <3>2. /\ \A y \in Orders : w[y] \in Int
          /\ \A y \in {} : w[y] = w[y]
          /\ \A y \in Orders \ {} : w[y] = 0
      BY <2>2
    <3>. QED BY ONLY <3>1, <3>2, SumGrows
  <2>. QED BY <2>1, <2>3, SumEmpty DEF Debt
<1>6. FaultCutsOneOrder
  BY <1>3, <1>4, <1>5, FaultCutsIsDebt
<1>. QED BY <1>1, <1>2, <1>3, <1>4, <1>6, NoShortageType DEF CloseInv

LEMMA CloseInvNext == CloseInv /\ [CloseNext]_closeVars => CloseInv'
<1>. SUFFICES ASSUME CloseInv, [CloseNext]_closeVars PROVE CloseInv'
  OBVIOUS
<1>1. CASE Request
  BY <1>1, RequestStep
<1>2. CASE CloseStep
  BY <1>2, StartStep, ListStep, TakeUpStep, InsufficientStep, RefundStep,
     SetStatusStep, ReadStockStep, WriteStockStep, TakeStep, PayStep, SetSuccessStep,
     SalesStep, ReptStep, RebateStep, LevelOneStep, LevelTwoStep DEF CloseStep
<1>3. CASE StatementFails
  BY <1>3, FailStep
<1>4. CASE Crash
  BY <1>4, CrashStep
<1>5. CASE UNCHANGED closeVars
  <2>1. InHand(closer) <= InHand(closer')
    BY <1>5 DEF InHand, closeVars
  <2>. QED BY <1>5, <2>1, CloseFacts, QuietStep DEF closeVars, vars
<1>. QED BY <1>1, <1>2, <1>3, <1>4, <1>5 DEF CloseNext

LEMMA CreditedIsSum ==
  ASSUME BaseInv, short \in Shortages, NEW u
  PROVE  /\ Sum(order, Tally(bills, short), "seller", u) =
              Credited(SoldBy(u), "seller", 100)
         /\ Sum(order, Tally(bills, short), "one", u) =
              Credited(InvitedBy(u), "one", OneLevel)
         /\ Sum(order, Tally(bills, short), "two", u) =
              Credited(InvitedByInviteeOf(u), "two", TwoLevel)
         /\ Sum(order, Tally(bills, short), "rebate", u) =
              Credited(OrdersOf(u), "rebate", BuyRebate)
         /\ Sum(order, Tally(bills, short), "taken", u) = Confirmed(OrdersOf(u), 100)
<1>1. PICK s \in Shortages : s = short
  OBVIOUS
<1>2. ASSUME NEW f \in Field \ {"taken"}
      PROVE  Amounts(order, Tally(bills, short), f) =
               [o \in DOMAIN order |->
                  (bills[o].confirmed - short[o][f])
                    * Percent(order[o].total, Rate(f))]
  BY <1>1, SumsAsStated
<1>3. Amounts(order, Tally(bills, short), "taken") =
        [o \in DOMAIN order |-> bills[o].confirmed * Percent(order[o].total, 100)]
  BY <1>1, SumsAsStated, RateOf
<1>4. /\ OrdersFor(order, "seller", u) = SoldBy(u)
      /\ OrdersFor(order, "one", u) = InvitedBy(u)
      /\ OrdersFor(order, "two", u) = InvitedByInviteeOf(u)
      /\ OrdersFor(order, "rebate", u) = OrdersOf(u)
      /\ OrdersFor(order, "taken", u) = OrdersOf(u)
  BY DEF OrdersFor, Who, OrdersOf, SoldBy, InvitedBy, InvitedByInviteeOf
<1>. QED BY <1>2, <1>3, <1>4, RateOf DEF Sum, Confirmed, Credited

-----------------------------------------------------------------------------
(***************************************************************************)
(* The theorems about ShopClose.                                           *)
(***************************************************************************)

\* The state is well typed, the program counter and the locals of the closing
\* included: no closing, fault or request makes a balance or a stock negative,
\* or makes a credit that no confirmation is short of.
THEOREM CloseTypeCorrect == CloseSpec => []CloseTypeOK
<1>1. CloseInv => CloseTypeOK
  <2>. SUFFICES ASSUME CloseInv PROVE CloseTypeOK
    OBVIOUS
  <2>1. TypeOK /\ short \in Shortages /\ faults \in 0 .. MaxFaults /\ overlap \in BOOLEAN
    BY CloseFacts DEF BaseInv
  <2>2. closer.at \in {"none", "next"} \cup Refunding \cup Confirming
    BY CloseFacts, CloserFacts
  <2>3. closer # NotClosing => closer.phase \in Phase /\ closer.todo \subseteq Orders
    BY CloseFacts, CloserFacts DEF Between, Amid
  <2>. QED BY <2>1, <2>2, <2>3 DEF CloseTypeOK, Shortages
<1>. QED BY <1>1, CloseInvInit, CloseInvNext, PTL DEF CloseSpec

\* Whatever fails and whatever overlaps, the balances are those of the booked
\* confirmations less exactly the credits of confirmations cut short.
THEOREM CloseLedgerCorrect == CloseSpec => []LedgerFollowsClosings
<1>1. CloseInv => LedgerFollowsClosings
  BY CloseFacts, CreditedIsSum DEF LedgerInv, Follows, LedgerFollowsClosings
<1>. QED BY <1>1, CloseInvInit, CloseInvNext, PTL DEF CloseSpec

\* A fault cuts short one confirmation at most.
THEOREM FaultCutsCorrect == CloseSpec => []FaultCutsOneOrder
<1>1. CloseInv => FaultCutsOneOrder
  BY DEF CloseInv
<1>. QED BY <1>1, CloseInvInit, CloseInvNext, PTL DEF CloseSpec

-----------------------------------------------------------------------------
(***************************************************************************)
(* The books of a mall in which nothing overlaps: stock, sales, bookings   *)
(* and frozen money as sums over all orders, each statement of a handler   *)
(* being one entry.                                                        *)
(***************************************************************************)

Bit(p) == IF p THEN 1 ELSE 0
In(ord, o) == o \in DOMAIN ord
Closed(ord, o) == In(ord, o) /\ ~NotClosed(ord[o])

\* What order o counts for in each of the sums.
LiveW(ord, g) ==
  [o \in Orders |->
     IF In(ord, o) /\ ord[o].good = g /\ Live(ord[o]) THEN ord[o].count ELSE 0]
DoneW(ord, g) ==
  [o \in Orders |->
     IF In(ord, o) /\ ord[o].good = g /\ ord[o].status = "SUCCESS"
     THEN ord[o].count ELSE 0]
FreezeW(ord, b, u) ==
  [o \in Orders |->
     IF In(ord, o) /\ ord[o].user = u /\ b[o].refunded = 0 THEN ord[o].total ELSE 0]
ExtraW(ord, b) ==
  [o \in Orders |-> b[o].confirmed + b[o].refunded - Bit(Closed(ord, o))]

Total(w) == SumFunctionOnSet(w, Orders)
LivePieces(ord, g) == Total(LiveW(ord, g))
DonePieces(ord, g) == Total(DoneW(ord, g))
Unrefunded(ord, b, u) == Total(FreezeW(ord, b, u))
Extra(ord, b) == Total(ExtraW(ord, b))

\* What the statement at hand has booked and not yet entered elsewhere.
InDoubt == {"setStatus", "pay", "setSuccess"}
Charged(x, o) == Bit(x.at \in {"pay", "setSuccess"} /\ x.order = o)
Repaid(x, o) == Bit(x.at = "setStatus" /\ x.order = o)
OffShelf(x, g) ==
  IF x.at \in {"readStock", "writeStock"} /\ x.row.good = g THEN x.row.count ELSE 0
Unsold(x, g) == IF x.at = "sales" /\ x.row.good = g THEN x.row.count ELSE 0

OrderBook(ord, b, x) ==
  \A o \in Orders :
    /\ b[o].confirmed = Bit(In(ord, o) /\ ord[o].status = "SUCCESS") + Charged(x, o)
    /\ b[o].refunded = Bit(In(ord, o) /\ ~Live(ord[o])) + Repaid(x, o)
StockBook(ord, gd, x) ==
  \A g \in Goods :
    /\ gd[g].stock + LivePieces(ord, g) + OffShelf(x, g) = InitStock
    /\ gd[g].sales + Unsold(x, g) = DonePieces(ord, g)
FreezeBook(ord, b, cn) == \A u \in Users : cn[u].freeze = Unrefunded(ord, b, u)

BooksKept(ord, b, gd, cn, x) ==
  OrderBook(ord, b, x) /\ StockBook(ord, gd, x) /\ FreezeBook(ord, b, cn)

\* Order o is rewritten, its deal and all other orders stay.
Alters(ord, ord2, o) ==
  /\ Table(ord) /\ Table(ord2) /\ DOMAIN ord2 = DOMAIN ord /\ o \in DOMAIN ord
  /\ SameDeal(ord2[o], ord[o])
  /\ \A y \in DOMAIN ord : y # o => ord2[y] = ord[y]

-----------------------------------------------------------------------------
\* The sums are numbers, and change with one order as its share does.

LEMMA WeightTypes ==
  ASSUME NEW ord, Table(ord), NEW b \in Bills
  PROVE  /\ \A g : \A o \in Orders : LiveW(ord, g)[o] \in Nat /\ DoneW(ord, g)[o] \in Nat
         /\ \A u : \A o \in Orders : FreezeW(ord, b, u)[o] \in Nat
         /\ \A o \in Orders : ExtraW(ord, b)[o] \in Int
<1>1. \A o \in DOMAIN ord : ord[o].count \in Nat /\ ord[o].total \in Nat
  BY DEF Table, Row
<1>2. \A o \in Orders : b[o].confirmed \in Nat /\ b[o].refunded \in Nat
  BY DEF Bills
<1>3. \A g : \A o \in Orders : LiveW(ord, g)[o] \in Nat /\ DoneW(ord, g)[o] \in Nat
  BY <1>1 DEF LiveW, DoneW, In
<1>4. \A u : \A o \in Orders : FreezeW(ord, b, u)[o] \in Nat
  BY <1>1 DEF FreezeW, In
<1>5. \A o \in Orders : ExtraW(ord, b)[o] \in Int
  BY <1>2 DEF ExtraW, Bit
<1>. QED BY <1>3, <1>4, <1>5

\* Two weights that differ at order o only.
LEMMA TotalAt ==
  ASSUME NEW o \in Orders, NEW w, NEW v,
         \A y \in Orders : w[y] \in Int, \A y \in Orders : v[y] \in Int,
         \A y \in Orders : y # o => v[y] = w[y]
  PROVE  Total(w) \in Int /\ Total(v) = Total(w) - w[o] + v[o]
<1>1. IsFiniteSet(Orders)
  BY MallAssumption
<1>2. \A y \in Orders : w[y] \in Int
  OBVIOUS
<1>3. \A y \in Orders : v[y] \in Int
  OBVIOUS
<1>4. \A y \in Orders : y # o => v[y] = w[y]
  OBVIOUS
<1>5. /\ SumFunctionOnSet(w, Orders) \in Int
      /\ SumFunctionOnSet(v, Orders) = SumFunctionOnSet(w, Orders) - Share(w, Orders, o)
                                         + Share(v, Orders, o)
  BY ONLY <1>1, <1>2, <1>3, <1>4, SumStep
<1>. QED BY <1>5 DEF Total, Share

LEMMA TotalSame ==
  ASSUME NEW w, NEW v, \A y \in Orders : w[y] \in Int,
         \A y \in Orders : v[y] = w[y]
  PROVE  Total(v) = Total(w) /\ Total(w) \in Int
<1>1. IsFiniteSet(Orders) /\ \A y \in Orders : w[y] \in Int /\ v[y] = w[y]
  BY MallAssumption
<1>2. SumFunctionOnSet(v, Orders) = SumFunctionOnSet(w, Orders)
  BY ONLY <1>1, SumSame, Zenon
<1>3. SumFunctionOnSet(w, Orders) \in Int
  BY <1>1, SumType
<1>. QED BY <1>2, <1>3 DEF Total

\* Order o is rewritten: what becomes of its share.
LEMMA AltersStock ==
  ASSUME NEW ord, NEW ord2, NEW o, Alters(ord, ord2, o), NEW g
  PROVE  /\ LivePieces(ord, g) \in Int /\ DonePieces(ord, g) \in Int
         /\ LivePieces(ord2, g) =
              LivePieces(ord, g)
                + (IF ord[o].good = g
                   THEN (Bit(Live(ord2[o])) - Bit(Live(ord[o]))) * ord[o].count ELSE 0)
         /\ DonePieces(ord2, g) =
              DonePieces(ord, g)
                + (IF ord[o].good = g
                   THEN (Bit(ord2[o].status = "SUCCESS") - Bit(ord[o].status = "SUCCESS"))
                          * ord[o].count
                   ELSE 0)
<1>1. PICK p \in Orders : p = o
  BY DEF Alters, Table
<1>2. Table(ord) /\ Table(ord2) /\ Bills # {}
  <2>1. [x \in Orders |-> [confirmed |-> 0, refunded |-> 0]] \in Bills
    BY DEF Bills
  <2>. QED BY <2>1 DEF Alters
<1>3. PICK w, v : w = LiveW(ord, g) /\ v = LiveW(ord2, g)
  OBVIOUS
<1>4. PICK w2, v2 : w2 = DoneW(ord, g) /\ v2 = DoneW(ord2, g)
  OBVIOUS
<1>5. /\ \A y \in Orders : w[y] \in Int
      /\ \A y \in Orders : v[y] \in Int
      /\ \A y \in Orders : w2[y] \in Int
      /\ \A y \in Orders : v2[y] \in Int
  BY <1>2, <1>3, <1>4, WeightTypes
<1>6. \A y \in Orders : y # p => v[y] = w[y]
  BY <1>1, <1>3 DEF LiveW, In, Alters
<1>7. \A y \in Orders : y # p => v2[y] = w2[y]
  BY <1>1, <1>4 DEF DoneW, In, Alters
<1>8. Total(w) \in Int /\ Total(v) = Total(w) - w[p] + v[p]
  BY ONLY <1>5, <1>6, TotalAt, p \in Orders
<1>9. Total(w2) \in Int /\ Total(v2) = Total(w2) - w2[p] + v2[p]
  BY ONLY <1>5, <1>7, TotalAt, p \in Orders
<1>10. /\ p \in DOMAIN ord /\ p \in DOMAIN ord2 /\ ord[p].count \in Nat
       /\ ord2[p].good = ord[p].good /\ ord2[p].count = ord[p].count
  BY <1>1 DEF Alters, SameDeal, Table, Row
<1>11. /\ w[p] = IF ord[p].good = g THEN Bit(Live(ord[p])) * ord[p].count ELSE 0
       /\ v[p] = IF ord[p].good = g THEN Bit(Live(ord2[p])) * ord[p].count ELSE 0
  BY <1>3, <1>10 DEF LiveW, In, Bit
<1>12. /\ w2[p] = IF ord[p].good = g THEN Bit(ord[p].status = "SUCCESS") * ord[p].count
                  ELSE 0
       /\ v2[p] = IF ord[p].good = g THEN Bit(ord2[p].status = "SUCCESS") * ord[p].count
                  ELSE 0
  BY <1>4, <1>10 DEF DoneW, In, Bit
<1>13. /\ Total(v) = Total(w) + (IF ord[p].good = g
                   THEN (Bit(Live(ord2[p])) - Bit(Live(ord[p]))) * ord[p].count ELSE 0)
  BY <1>8, <1>10, <1>11 DEF Bit
<1>14. Total(v2) = Total(w2) + (IF ord[p].good = g
                   THEN (Bit(ord2[p].status = "SUCCESS") - Bit(ord[p].status = "SUCCESS"))
                          * ord[p].count
                   ELSE 0)
  BY <1>9, <1>10, <1>12 DEF Bit
<1>. QED BY <1>1, <1>3, <1>4, <1>8, <1>9, <1>13, <1>14 DEF LivePieces, DonePieces

LEMMA AltersMoney ==
  ASSUME NEW ord, NEW ord2, NEW o, Alters(ord, ord2, o), NEW b \in Bills
  PROVE  /\ \A u : Unrefunded(ord2, b, u) = Unrefunded(ord, b, u)
         /\ Extra(ord, b) \in Int
         /\ Extra(ord2, b) =
              Extra(ord, b) + Bit(Closed(ord, o)) - Bit(Closed(ord2, o))
<1>1. PICK p \in Orders : p = o
  BY DEF Alters, Table
<1>2. Table(ord) /\ Table(ord2)
  BY DEF Alters
<1>3. ASSUME NEW u PROVE Unrefunded(ord2, b, u) = Unrefunded(ord, b, u)
  <2>1. \A y \in Orders : FreezeW(ord2, b, u)[y] = FreezeW(ord, b, u)[y]
    BY <1>1 DEF FreezeW, In, Alters, SameDeal
  <2>2. \A y \in Orders : FreezeW(ord, b, u)[y] \in Int
    BY <1>2, WeightTypes
  <2>. QED BY ONLY <2>1, <2>2, TotalSame DEF Unrefunded
<1>4. PICK w, v : w = ExtraW(ord, b) /\ v = ExtraW(ord2, b)
  OBVIOUS
<1>5. (\A y \in Orders : w[y] \in Int) /\ (\A y \in Orders : v[y] \in Int)
  BY <1>2, <1>4, WeightTypes
<1>6. \A y \in Orders : y # p => v[y] = w[y]
  BY <1>1, <1>4 DEF ExtraW, Closed, In, Alters
<1>7. Total(w) \in Int /\ Total(v) = Total(w) - w[p] + v[p]
  BY ONLY <1>5, <1>6, TotalAt, p \in Orders
<1>8. /\ w[p] = b[p].confirmed + b[p].refunded - Bit(Closed(ord, p))
      /\ v[p] = b[p].confirmed + b[p].refunded - Bit(Closed(ord2, p))
      /\ b[p].confirmed \in Nat /\ b[p].refunded \in Nat
  BY <1>4 DEF ExtraW, Bills
<1>9. Bit(Closed(ord, p)) \in Int /\ Bit(Closed(ord2, p)) \in Int
  BY DEF Bit
<1>. QED BY <1>1, <1>3, <1>4, <1>7, <1>8, <1>9 DEF Extra

\* One more booking of order o, as received or as refunded.
LEMMA BilledExtra ==
  ASSUME NEW ord, Table(ord), NEW b \in Bills, NEW b2 \in Bills, NEW o \in Orders,
         b2[o].confirmed + b2[o].refunded = b[o].confirmed + b[o].refunded + 1,
         \A y \in Orders : y # o => b2[y] = b[y]
  PROVE  Extra(ord, b) \in Int /\ Extra(ord, b2) = Extra(ord, b) + 1
<1>1. PICK w, v : w = ExtraW(ord, b) /\ v = ExtraW(ord, b2)
  OBVIOUS
<1>2. (\A y \in Orders : w[y] \in Int) /\ (\A y \in Orders : v[y] \in Int)
  BY <1>1, WeightTypes
<1>3. \A y \in Orders : y # o => v[y] = w[y]
  BY <1>1 DEF ExtraW
<1>4. Total(w) \in Int /\ Total(v) = Total(w) - w[o] + v[o]
  BY ONLY <1>2, <1>3, TotalAt, o \in Orders
<1>5. /\ w[o] = b[o].confirmed + b[o].refunded - Bit(Closed(ord, o))
      /\ v[o] = b2[o].confirmed + b2[o].refunded - Bit(Closed(ord, o))
      /\ b[o].confirmed \in Nat /\ b[o].refunded \in Nat
      /\ b2[o].confirmed \in Nat /\ b2[o].refunded \in Nat
  BY <1>1 DEF ExtraW, Bills
<1>6. PICK k \in Int : k = Bit(Closed(ord, o))
  BY DEF Bit
<1>7. PICK i \in Int, j \in Int :
        /\ i = b[o].confirmed + b[o].refunded
        /\ j = b2[o].confirmed + b2[o].refunded
  BY DEF Bills
<1>8. w[o] = i - k /\ v[o] = j - k /\ j = i + 1
  BY <1>5, <1>6, <1>7
<1>9. Total(v) = Total(w) + 1
  BY ONLY <1>4, <1>8, i \in Int, j \in Int, k \in Int
<1>. QED BY <1>1, <1>4, <1>9 DEF Extra

LEMMA RefundedMoney ==
  ASSUME NEW ord, Table(ord), NEW b \in Bills, NEW b2 \in Bills, NEW o \in DOMAIN ord,
         b[o].refunded = 0, b2[o].refunded = 1,
         \A y \in Orders : y # o => b2[y] = b[y], NEW u
  PROVE  /\ Unrefunded(ord, b, u) \in Int
         /\ Unrefunded(ord, b2, u) =
              Unrefunded(ord, b, u) - (IF ord[o].user = u THEN ord[o].total ELSE 0)
<1>1. PICK p \in Orders : p = o
  BY DEF Table
<1>2. PICK w, v : w = FreezeW(ord, b, u) /\ v = FreezeW(ord, b2, u)
  OBVIOUS
<1>3. (\A y \in Orders : w[y] \in Int) /\ (\A y \in Orders : v[y] \in Int)
  <2>1. (\A y \in Orders : w[y] \in Nat) /\ (\A y \in Orders : v[y] \in Nat)
    BY <1>2, WeightTypes
  <2>. QED BY <2>1
<1>4. \A y \in Orders : y # p => v[y] = w[y]
  BY <1>1, <1>2 DEF FreezeW
<1>5. Total(w) \in Int /\ Total(v) = Total(w) - w[p] + v[p]
  BY ONLY <1>3, <1>4, TotalAt, p \in Orders
<1>6. /\ w[p] = IF ord[p].user = u THEN ord[p].total ELSE 0
      /\ v[p] = 0
  BY <1>1, <1>2 DEF FreezeW, In
<1>7. ord[p].total \in Nat
  BY <1>1 DEF Table, Row
<1>. QED BY <1>1, <1>2, <1>5, <1>6, <1>7 DEF Unrefunded

\* A confirmation changes no share of the frozen money.
LEMMA ConfirmedMoney ==
  ASSUME NEW ord, Table(ord), NEW b \in Bills, NEW b2,
         \A y \in Orders : b2[y].refunded = b[y].refunded, NEW u
  PROVE  Unrefunded(ord, b2, u) = Unrefunded(ord, b, u)
<1>1. \A y \in Orders : FreezeW(ord, b2, u)[y] = FreezeW(ord, b, u)[y]
  BY DEF FreezeW
<1>2. \A y \in Orders : FreezeW(ord, b, u)[y] \in Int
  <2>1. \A y \in Orders : FreezeW(ord, b, u)[y] \in Nat
    BY WeightTypes
  <2>. QED BY <2>1
<1>. QED BY ONLY <1>1, <1>2, TotalSame DEF Unrefunded

LEMMA PostFreeze ==
  ASSUME NEW l \in Ledgers, NEW v \in Users \cup {Nobody},
         NEW dA \in Int, NEW dF \in Int, NEW dW \in Int, NEW u \in Users
  PROVE  Post(l, v, dA, dF, dW)[u].freeze = l[u].freeze + (IF u = v THEN dF ELSE 0)
<1>1. l[u] \in Balance /\ u # Nobody
  BY MallAssumption DEF Ledgers
<1>2. CASE v = u
  <2>1. Post(l, v, dA, dF, dW)[u] = Change(l[u], dA, dF, dW)
    BY <1>1, <1>2 DEF Post, Ledgers
  <2>. QED BY <1>1, <1>2, <2>1 DEF Change, Balance
<1>3. CASE v # u
  <2>1. Post(l, v, dA, dF, dW)[u] = l[u]
    BY <1>1, <1>3 DEF Post, Ledgers
  <2>. QED BY <1>1, <1>3, <2>1 DEF Balance
<1>. QED BY <1>2, <1>3

LEMMA PostKeepsFreeze ==
  ASSUME NEW l \in Ledgers, NEW v \in Users \cup {Nobody},
         NEW dA \in Int, NEW dF \in Int, NEW dW \in Int, dF = 0, NEW u \in Users
  PROVE  Post(l, v, dA, dF, dW)[u].freeze = l[u].freeze
<1>1. PICK n \in Nat : n = l[u].freeze
  BY DEF Ledgers, Balance
<1>2. Post(l, v, dA, dF, dW)[u].freeze = n + (IF u = v THEN dF ELSE 0)
  BY <1>1, PostFreeze
<1>. QED BY <1>1, <1>2

\* A booked field of a confirmation leaves the frozen money alone.
LEMMA BooksFreeze ==
  ASSUME NEW l \in Ledgers, NEW m, NEW r \in Row, NEW f \in Field, Books(l, m, r, f),
         NEW u \in Users
  PROVE  m[u].freeze = l[u].freeze
<1>1. PICK v \in Users \cup {Nobody} : v = Who(r, f)
  BY WhoType
<1>2. PICK dA \in Int, z \in Int, dW \in Int :
        z = 0 /\ m = Post(l, v, dA, z, dW)
  BY <1>1 DEF Books
<1>. QED BY <1>2, PostKeepsFreeze

-----------------------------------------------------------------------------
(***************************************************************************)
(* The entries, each for a statement of the closing, and several in a row  *)
(* for the writing half of a request.                                      *)
(***************************************************************************)

\* Where nothing is in doubt.
AtEase == {"none", "next", "refund", "take", "rept", "rebate", "levelOne", "levelTwo"}
Tables(ord, b, gd, cn) ==
  Table(ord) /\ b \in Bills /\ gd \in GoodTable /\ cn \in Ledgers
SameFreeze(cn, cn2) == \A u \in Users : cn2[u].freeze = cn[u].freeze

LEMMA AtEaseHand ==
  ASSUME NEW x, x.at \in AtEase
  PROVE  /\ \A o : Charged(x, o) = 0 /\ Repaid(x, o) = 0
         /\ \A g : OffShelf(x, g) = 0 /\ Unsold(x, g) = 0
  BY DEF AtEase, Charged, Repaid, OffShelf, Unsold, Bit

\* A step that moves no book.
LEMMA EntryNone ==
  ASSUME NEW ord, NEW b, NEW gd, NEW cn, NEW x, BooksKept(ord, b, gd, cn, x),
         NEW cn2, SameFreeze(cn, cn2), NEW y,
         \/ x.at \in AtEase /\ y.at \in AtEase
         \/ /\ x.at \in {"readStock", "writeStock"} /\ y.at \in {"readStock", "writeStock"}
            /\ x.row = y.row
         \/ /\ x.at \in {"pay", "setSuccess"} /\ y.at \in {"pay", "setSuccess"}
            /\ x.order = y.order
  PROVE  BooksKept(ord, b, gd, cn2, y)
<1>1. /\ \A o : Charged(x, o) = Charged(y, o) /\ Repaid(x, o) = Repaid(y, o)
      /\ \A g : OffShelf(x, g) = OffShelf(y, g) /\ Unsold(x, g) = Unsold(y, g)
  BY DEF AtEase, Charged, Repaid, OffShelf, Unsold, Bit
<1>2. OrderBook(ord, b, y)
  BY <1>1 DEF BooksKept, OrderBook
<1>3. StockBook(ord, gd, y)
  BY <1>1 DEF BooksKept, StockBook
<1>4. FreezeBook(ord, b, cn2)
  BY DEF BooksKept, FreezeBook, SameFreeze
<1>. QED BY <1>2, <1>3, <1>4 DEF BooksKept

\* The price is refunded.
LEMMA EntryRefund ==
  ASSUME NEW ord, NEW b, NEW gd, NEW cn, Tables(ord, b, gd, cn),
         NEW x, BooksKept(ord, b, gd, cn, x), x.at \in AtEase,
         NEW o \in DOMAIN ord, NotClosed(ord[o]),
         NEW b2 \in Bills, b2[o].refunded = b[o].refunded + 1,
         b2[o].confirmed = b[o].confirmed, \A y \in Orders : y # o => b2[y] = b[y],
         NEW cn2,
         \A u \in Users : cn2[u].freeze =
           cn[u].freeze - (IF ord[o].user = u THEN ord[o].total ELSE 0),
         NEW y, y.at = "setStatus", y.order = o
  PROVE  BooksKept(ord, b2, gd, cn2, y)
<1>1. o \in Orders /\ In(ord, o) /\ Live(ord[o]) /\ ord[o].status # "SUCCESS"
  BY DEF Tables, Table, In, NotClosed, Live
<1>2. \A q : Charged(y, q) = 0 /\ Repaid(y, q) = Bit(q = o)
  BY DEF Charged, Repaid, Bit
<1>3. \A g : OffShelf(y, g) = 0 /\ Unsold(y, g) = 0
  BY DEF OffShelf, Unsold
<1>4. \A q \in Orders :
        /\ b[q].confirmed = Bit(In(ord, q) /\ ord[q].status = "SUCCESS")
        /\ b[q].refunded = Bit(In(ord, q) /\ ~Live(ord[q]))
  BY AtEaseHand DEF BooksKept, OrderBook, Bit
<1>5. b[o].refunded = 0 /\ b2[o].refunded = 1
  BY <1>1, <1>4 DEF Bit
<1>6. OrderBook(ord, b2, y)
  <2>1. ASSUME NEW q \in Orders
        PROVE  /\ b2[q].confirmed = Bit(In(ord, q) /\ ord[q].status = "SUCCESS") + 0
               /\ b2[q].refunded = Bit(In(ord, q) /\ ~Live(ord[q])) + Bit(q = o)
    <3>1. CASE q = o
      BY <1>1, <1>4, <1>5, <3>1 DEF Bit
    <3>2. CASE q # o
      <4>1. b2[q] = b[q]
        BY <3>2
      <4>. QED BY <1>4, <3>2, <4>1 DEF Bit
    <3>. QED BY <3>1, <3>2
  <2>. QED BY <1>2, <2>1 DEF OrderBook
<1>7. StockBook(ord, gd, y)
  BY <1>3, AtEaseHand DEF BooksKept, StockBook
<1>8. FreezeBook(ord, b2, cn2)
  <2>. SUFFICES ASSUME NEW u \in Users PROVE cn2[u].freeze = Unrefunded(ord, b2, u)
    BY DEF FreezeBook
  <2>1. Unrefunded(ord, b2, u) =
          Unrefunded(ord, b, u) - (IF ord[o].user = u THEN ord[o].total ELSE 0)
    BY <1>5, RefundedMoney DEF Tables
  <2>2. cn[u].freeze = Unrefunded(ord, b, u)
    BY DEF BooksKept, FreezeBook
  <2>. QED BY <2>1, <2>2
<1>. QED BY <1>6, <1>7, <1>8 DEF BooksKept

\* An order that was refunded is closed, and its pieces are on their way back.
LEMMA EntryClosed ==
  ASSUME NEW ord, NEW b, NEW gd, NEW cn, Tables(ord, b, gd, cn),
         NEW x, BooksKept(ord, b, gd, cn, x), NEW o, x.at = "setStatus", x.order = o,
         NEW ord2, Alters(ord, ord2, o), NotClosed(ord[o]),
         ~Live(ord2[o]), ord2[o].status # "SUCCESS",
         NEW y, y.at \in {"readStock", "writeStock"}, SameDeal(y.row, ord[o])
  PROVE  BooksKept(ord2, b, gd, cn, y)
<1>1. /\ o \in Orders /\ In(ord, o) /\ In(ord2, o) /\ Live(ord[o])
      /\ ord[o].status # "SUCCESS" /\ ord[o].count \in Nat
  BY DEF Tables, Alters, Table, Row, In, NotClosed, Live
<1>2. \A q : Charged(y, q) = 0 /\ Repaid(y, q) = 0
  BY DEF Charged, Repaid, Bit
<1>3. \A q : Charged(x, q) = 0 /\ Repaid(x, q) = Bit(q = o)
  BY DEF Charged, Repaid, Bit
<1>4. /\ \A g : OffShelf(x, g) = 0 /\ Unsold(x, g) = 0 /\ Unsold(y, g) = 0
      /\ \A g : OffShelf(y, g) = IF ord[o].good = g THEN ord[o].count ELSE 0
  BY DEF OffShelf, Unsold, SameDeal
<1>5. OrderBook(ord2, b, y)
  <2>1. ASSUME NEW q \in Orders
        PROVE  /\ b[q].confirmed = Bit(In(ord2, q) /\ ord2[q].status = "SUCCESS") + 0
               /\ b[q].refunded = Bit(In(ord2, q) /\ ~Live(ord2[q])) + 0
    <3>1. /\ b[q].confirmed = Bit(In(ord, q) /\ ord[q].status = "SUCCESS") + 0
          /\ b[q].refunded = Bit(In(ord, q) /\ ~Live(ord[q])) + Bit(q = o)
      BY <1>3 DEF BooksKept, OrderBook
    <3>2. CASE q = o
      BY <1>1, <3>1, <3>2 DEF Bit
    <3>3. CASE q # o
      <4>1. In(ord2, q) = In(ord, q) /\ (In(ord, q) => ord2[q] = ord[q])
        BY <3>3 DEF Alters, In
      <4>. QED BY <3>1, <3>3, <4>1 DEF Bit
    <3>. QED BY <3>2, <3>3
  <2>. QED BY <1>2, <2>1 DEF OrderBook
<1>6. StockBook(ord2, gd, y)
  <2>. SUFFICES ASSUME NEW g \in Goods
                PROVE  /\ gd[g].stock + LivePieces(ord2, g) + OffShelf(y, g) = InitStock
                       /\ gd[g].sales + Unsold(y, g) = DonePieces(ord2, g)
    BY DEF StockBook
  <2>1. /\ LivePieces(ord, g) \in Int /\ DonePieces(ord, g) \in Int
        /\ LivePieces(ord2, g) =
             LivePieces(ord, g) + (IF ord[o].good = g THEN (0 - 1) * ord[o].count ELSE 0)
        /\ DonePieces(ord2, g) =
             DonePieces(ord, g) + (IF ord[o].good = g THEN (0 - 0) * ord[o].count ELSE 0)
    BY <1>1, AltersStock DEF Bit
  <2>2. /\ gd[g].stock + LivePieces(ord, g) + 0 = InitStock
        /\ gd[g].sales + 0 = DonePieces(ord, g)
    BY <1>4 DEF BooksKept, StockBook
  <2>3. gd[g].stock \in Nat /\ gd[g].sales \in Nat
    BY DEF Tables, GoodTable
  <2>. QED BY <1>1, <1>4, <2>1, <2>2, <2>3
<1>7. FreezeBook(ord2, b, cn)
  BY AltersMoney DEF Tables, BooksKept, FreezeBook
<1>. QED BY <1>5, <1>6, <1>7 DEF BooksKept

\* The pieces are back in stock.
LEMMA EntryReshelved ==
  ASSUME NEW ord, NEW b, NEW gd, NEW cn, Tables(ord, b, gd, cn),
         NEW x, BooksKept(ord, b, gd, cn, x), x.at \in {"readStock", "writeStock"},
         x.row \in Row, NEW gd2,
         \A g \in Goods :
           /\ gd2[g].stock = gd[g].stock + (IF x.row.good = g THEN x.row.count ELSE 0)
           /\ gd2[g].sales = gd[g].sales,
         NEW y, y.at \in AtEase
  PROVE  BooksKept(ord, b, gd2, cn, y)
<1>1. OrderBook(ord, b, y)
  <2>1. \A q : Charged(x, q) = 0 /\ Repaid(x, q) = 0
    BY DEF Charged, Repaid, Bit
  <2>. QED BY <2>1, AtEaseHand DEF BooksKept, OrderBook
<1>2. StockBook(ord, gd2, y)
  <2>. SUFFICES ASSUME NEW g \in Goods
                PROVE  /\ gd2[g].stock + LivePieces(ord, g) + OffShelf(y, g) = InitStock
                       /\ gd2[g].sales + Unsold(y, g) = DonePieces(ord, g)
    BY DEF StockBook
  <2>1. /\ OffShelf(x, g) = IF x.row.good = g THEN x.row.count ELSE 0
        /\ Unsold(x, g) = 0 /\ OffShelf(y, g) = 0 /\ Unsold(y, g) = 0
    BY AtEaseHand DEF OffShelf, Unsold
  <2>2. /\ gd[g].stock + LivePieces(ord, g) + OffShelf(x, g) = InitStock
        /\ gd[g].sales + Unsold(x, g) = DonePieces(ord, g)
    BY DEF BooksKept, StockBook
  <2>3. gd[g].stock \in Nat /\ gd[g].sales \in Nat /\ x.row.count \in Nat
    BY DEF Tables, GoodTable, Row
  <2>4. LivePieces(ord, g) \in Int
    BY WeightTypes, TotalSame DEF Tables, LivePieces
  <2>. QED BY <2>1, <2>2, <2>3, <2>4
<1>. QED BY <1>1, <1>2 DEF BooksKept

\* The price is taken.
LEMMA EntryCharged ==
  ASSUME NEW ord, NEW b, NEW gd, NEW cn, Tables(ord, b, gd, cn),
         NEW x, BooksKept(ord, b, gd, cn, x), x.at \in AtEase,
         NEW o \in DOMAIN ord,
         NEW b2 \in Bills, b2[o].confirmed = b[o].confirmed + 1,
         b2[o].refunded = b[o].refunded, \A y \in Orders : y # o => b2[y] = b[y],
         NEW cn2, SameFreeze(cn, cn2),
         NEW y, y.at \in {"pay", "setSuccess"}, y.order = o
  PROVE  BooksKept(ord, b2, gd, cn2, y)
<1>1. o \in Orders
  BY DEF Tables, Table
<1>2. \A q : Charged(y, q) = Bit(q = o) /\ Repaid(y, q) = 0
  BY DEF Charged, Repaid, Bit
<1>3. \A g : OffShelf(y, g) = 0 /\ Unsold(y, g) = 0
  BY DEF OffShelf, Unsold
<1>4. \A q \in Orders :
        /\ b[q].confirmed = Bit(In(ord, q) /\ ord[q].status = "SUCCESS")
        /\ b[q].refunded = Bit(In(ord, q) /\ ~Live(ord[q]))
  BY AtEaseHand DEF BooksKept, OrderBook, Bit
<1>5. OrderBook(ord, b2, y)
  <2>1. ASSUME NEW q \in Orders
        PROVE  /\ b2[q].confirmed =
                    Bit(In(ord, q) /\ ord[q].status = "SUCCESS") + Bit(q = o)
               /\ b2[q].refunded = Bit(In(ord, q) /\ ~Live(ord[q])) + 0
    <3>1. CASE q = o
      BY <1>1, <1>4, <3>1 DEF Bit
    <3>2. CASE q # o
      <4>1. b2[q] = b[q]
        BY <3>2
      <4>. QED BY <1>4, <3>2, <4>1 DEF Bit
    <3>. QED BY <3>1, <3>2
  <2>. QED BY <1>2, <2>1 DEF OrderBook
<1>6. StockBook(ord, gd, y)
  BY <1>3, AtEaseHand DEF BooksKept, StockBook
<1>7. FreezeBook(ord, b2, cn2)
  <2>. SUFFICES ASSUME NEW u \in Users PROVE cn2[u].freeze = Unrefunded(ord, b2, u)
    BY DEF FreezeBook
  <2>1. \A q \in Orders : b2[q].refunded = b[q].refunded
    BY <1>1
  <2>2. Unrefunded(ord, b2, u) = Unrefunded(ord, b, u)
    BY <2>1, ConfirmedMoney DEF Tables
  <2>. QED BY <2>2 DEF BooksKept, FreezeBook, SameFreeze
<1>. QED BY <1>5, <1>6, <1>7 DEF BooksKept

\* An order whose price was taken is finished, and its pieces are to be
\* entered in the sales figure.
LEMMA EntryFinished ==
  ASSUME NEW ord, NEW b, NEW gd, NEW cn, Tables(ord, b, gd, cn),
         NEW x, BooksKept(ord, b, gd, cn, x), NEW o,
         x.at \in {"pay", "setSuccess"}, x.order = o,
         NEW ord2, Alters(ord, ord2, o), NotClosed(ord[o]),
         Live(ord2[o]), ord2[o].status = "SUCCESS",
         NEW y, y.at = "sales", SameDeal(y.row, ord[o])
  PROVE  BooksKept(ord2, b, gd, cn, y)
<1>1. /\ o \in Orders /\ In(ord, o) /\ In(ord2, o) /\ Live(ord[o])
      /\ ord[o].status # "SUCCESS" /\ ord[o].count \in Nat
  BY DEF Tables, Alters, Table, Row, In, NotClosed, Live
<1>2. \A q : Charged(y, q) = 0 /\ Repaid(y, q) = 0
  BY DEF Charged, Repaid, Bit
<1>3. \A q : Charged(x, q) = Bit(q = o) /\ Repaid(x, q) = 0
  BY DEF Charged, Repaid, Bit
<1>4. /\ \A g : OffShelf(x, g) = 0 /\ Unsold(x, g) = 0 /\ OffShelf(y, g) = 0
      /\ \A g : Unsold(y, g) = IF ord[o].good = g THEN ord[o].count ELSE 0
  BY DEF OffShelf, Unsold, SameDeal
<1>5. OrderBook(ord2, b, y)
  <2>1. ASSUME NEW q \in Orders
        PROVE  /\ b[q].confirmed = Bit(In(ord2, q) /\ ord2[q].status = "SUCCESS") + 0
               /\ b[q].refunded = Bit(In(ord2, q) /\ ~Live(ord2[q])) + 0
    <3>1. /\ b[q].confirmed =
               Bit(In(ord, q) /\ ord[q].status = "SUCCESS") + Bit(q = o)
          /\ b[q].refunded = Bit(In(ord, q) /\ ~Live(ord[q])) + 0
      BY <1>3 DEF BooksKept, OrderBook
    <3>2. CASE q = o
      BY <1>1, <3>1, <3>2 DEF Bit
    <3>3. CASE q # o
      <4>1. In(ord2, q) = In(ord, q) /\ (In(ord, q) => ord2[q] = ord[q])
        BY <3>3 DEF Alters, In
      <4>. QED BY <3>1, <3>3, <4>1 DEF Bit
    <3>. QED BY <3>2, <3>3
  <2>. QED BY <1>2, <2>1 DEF OrderBook
<1>6. StockBook(ord2, gd, y)
  <2>. SUFFICES ASSUME NEW g \in Goods
                PROVE  /\ gd[g].stock + LivePieces(ord2, g) + OffShelf(y, g) = InitStock
                       /\ gd[g].sales + Unsold(y, g) = DonePieces(ord2, g)
    BY DEF StockBook
  <2>1. /\ LivePieces(ord, g) \in Int /\ DonePieces(ord, g) \in Int
        /\ LivePieces(ord2, g) = LivePieces(ord, g)
        /\ DonePieces(ord2, g) =
             DonePieces(ord, g) + (IF ord[o].good = g THEN ord[o].count ELSE 0)
    <3>1. /\ LivePieces(ord, g) \in Int /\ DonePieces(ord, g) \in Int
          /\ LivePieces(ord2, g) =
               LivePieces(ord, g)
                 + (IF ord[o].good = g
                    THEN (Bit(Live(ord2[o])) - Bit(Live(ord[o]))) * ord[o].count ELSE 0)
          /\ DonePieces(ord2, g) =
               DonePieces(ord, g)
                 + (IF ord[o].good = g
                    THEN (Bit(ord2[o].status = "SUCCESS") - Bit(ord[o].status = "SUCCESS"))
                           * ord[o].count
                    ELSE 0)
      BY ONLY Alters(ord, ord2, o), AltersStock
    <3>2. /\ Bit(Live(ord2[o])) = 1 /\ Bit(Live(ord[o])) = 1
          /\ Bit(ord2[o].status = "SUCCESS") = 1 /\ Bit(ord[o].status = "SUCCESS") = 0
      BY <1>1 DEF Bit
    <3>3. PICK n \in Nat : n = ord[o].count
      BY <1>1
    <3>4. (1 - 1) * n = 0 /\ (1 - 0) * n = n
      OBVIOUS
    <3>5. PICK i, j : i = LivePieces(ord, g) /\ j = DonePieces(ord, g)
      OBVIOUS
    <3>6. LivePieces(ord2, g) = i + (IF ord[o].good = g THEN (1 - 1) * n ELSE 0)
      BY ONLY <3>1, <3>2, <3>3, <3>5
    <3>7. DonePieces(ord2, g) = j + (IF ord[o].good = g THEN (1 - 0) * n ELSE 0)
      BY ONLY <3>1, <3>2, <3>3, <3>5
    <3>. QED BY ONLY <3>1, <3>3, <3>4, <3>5, <3>6, <3>7, n \in Nat
  <2>2. /\ gd[g].stock + LivePieces(ord, g) + 0 = InitStock
        /\ gd[g].sales + 0 = DonePieces(ord, g)
    BY <1>4 DEF BooksKept, StockBook
  <2>3. gd[g].stock \in Nat /\ gd[g].sales \in Nat
    BY DEF Tables, GoodTable
  <2>. QED BY <1>1, <1>4, <2>1, <2>2, <2>3
<1>7. FreezeBook(ord2, b, cn)
  BY AltersMoney DEF Tables, BooksKept, FreezeBook
<1>. QED BY <1>5, <1>6, <1>7 DEF BooksKept

\* The sales figure is written.
LEMMA EntrySold ==
  ASSUME NEW ord, NEW b, NEW gd, NEW cn, Tables(ord, b, gd, cn),
         NEW x, BooksKept(ord, b, gd, cn, x), x.at = "sales",
         x.row \in Row, NEW gd2,
         \A g \in Goods :
           /\ gd2[g].sales = gd[g].sales + (IF x.row.good = g THEN x.row.count ELSE 0)
           /\ gd2[g].stock = gd[g].stock,
         NEW y, y.at \in AtEase
  PROVE  BooksKept(ord, b, gd2, cn, y)
<1>1. OrderBook(ord, b, y)
  <2>1. \A q : Charged(x, q) = 0 /\ Repaid(x, q) = 0
    BY DEF Charged, Repaid, Bit
  <2>. QED BY <2>1, AtEaseHand DEF BooksKept, OrderBook
<1>2. StockBook(ord, gd2, y)
  <2>. SUFFICES ASSUME NEW g \in Goods
                PROVE  /\ gd2[g].stock + LivePieces(ord, g) + OffShelf(y, g) = InitStock
                       /\ gd2[g].sales + Unsold(y, g) = DonePieces(ord, g)
    BY DEF StockBook
  <2>1. /\ Unsold(x, g) = IF x.row.good = g THEN x.row.count ELSE 0
        /\ OffShelf(x, g) = 0 /\ OffShelf(y, g) = 0 /\ Unsold(y, g) = 0
    BY AtEaseHand DEF OffShelf, Unsold
  <2>2. /\ gd[g].stock + LivePieces(ord, g) + OffShelf(x, g) = InitStock
        /\ gd[g].sales + Unsold(x, g) = DonePieces(ord, g)
    BY DEF BooksKept, StockBook
  <2>3. gd[g].stock \in Nat /\ gd[g].sales \in Nat /\ x.row.count \in Nat
    BY DEF Tables, GoodTable, Row
  <2>. QED BY <2>1, <2>2, <2>3
<1>. QED BY <1>1, <1>2 DEF BooksKept

\* An order is sent, or its return asked for.
LEMMA EntryKept ==
  ASSUME NEW ord, NEW b, NEW gd, NEW cn, Tables(ord, b, gd, cn),
         NEW x, BooksKept(ord, b, gd, cn, x), NEW o, x.at \in AtEase,
         NEW ord2, Alters(ord, ord2, o), NotClosed(ord[o]), NotClosed(ord2[o])
  PROVE  BooksKept(ord2, b, gd, cn, x)
<1>1. /\ o \in Orders /\ In(ord, o) /\ In(ord2, o) /\ Live(ord[o]) /\ Live(ord2[o])
      /\ ord[o].status # "SUCCESS" /\ ord2[o].status # "SUCCESS" /\ ord[o].count \in Nat
  BY DEF Tables, Alters, Table, Row, In, NotClosed, Live
<1>2. OrderBook(ord2, b, x)
  <2>1. ASSUME NEW q \in Orders
        PROVE  /\ Bit(In(ord2, q) /\ ord2[q].status = "SUCCESS") =
                    Bit(In(ord, q) /\ ord[q].status = "SUCCESS")
               /\ Bit(In(ord2, q) /\ ~Live(ord2[q])) = Bit(In(ord, q) /\ ~Live(ord[q]))
    <3>1. CASE q = o
      BY <1>1, <3>1 DEF Bit
    <3>2. CASE q # o
      <4>1. In(ord2, q) = In(ord, q) /\ (In(ord, q) => ord2[q] = ord[q])
        BY <3>2 DEF Alters, In
      <4>. QED BY <4>1 DEF Bit
    <3>. QED BY <3>1, <3>2
  <2>. QED BY <2>1 DEF OrderBook, BooksKept
<1>3. StockBook(ord2, gd, x)
  <2>. SUFFICES ASSUME NEW g \in Goods
                PROVE  /\ LivePieces(ord2, g) = LivePieces(ord, g)
                       /\ DonePieces(ord2, g) = DonePieces(ord, g)
    BY DEF StockBook, BooksKept
  <2>1. /\ LivePieces(ord, g) \in Int /\ DonePieces(ord, g) \in Int
        /\ LivePieces(ord2, g) =
             LivePieces(ord, g) + (IF ord[o].good = g THEN (1 - 1) * ord[o].count ELSE 0)
        /\ DonePieces(ord2, g) =
             DonePieces(ord, g) + (IF ord[o].good = g THEN (0 - 0) * ord[o].count ELSE 0)
    BY <1>1, AltersStock DEF Bit
  <2>. QED BY <1>1, <2>1
<1>4. FreezeBook(ord2, b, cn)
  BY AltersMoney DEF Tables, BooksKept, FreezeBook
<1>. QED BY <1>2, <1>3, <1>4 DEF BooksKept

-----------------------------------------------------------------------------
\* The lines of a payment become orders, each its own.

Ordered(ord, ord2, lines, id, u) ==
  /\ Table(ord) /\ Table(ord2)
  /\ id \in [lines -> Orders \ DOMAIN ord]
  /\ \A k, l \in lines : id[k] = id[l] => k = l
  /\ DOMAIN ord2 = DOMAIN ord \cup Range(id)
  /\ \A o \in DOMAIN ord : ord2[o] = ord[o]
  /\ \A l \in lines : ord2[id[l]] = NewRow(u, l)

LEMMA PaymentOrders ==
  ASSUME NEW ord, Table(ord), NEW lines, LinesOK(lines), NEW u \in Users,
         NEW id \in [lines -> Orders \ DOMAIN ord], IsInjective(id), NEW ord2,
         ord2 = [o \in DOMAIN ord \cup Range(id) |->
                   IF o \in DOMAIN ord THEN ord[o]
                   ELSE NewRow(u, Inverse(id, lines, Range(id))[o])]
  PROVE  Ordered(ord, ord2, lines, id, u)
<1>1. DOMAIN id = lines /\ Range(id) = {id[l] : l \in lines}
  BY DEF Range
<1>2. \A k, l \in lines : id[k] = id[l] => k = l
  BY <1>1 DEF IsInjective
<1>3. ASSUME NEW l \in lines PROVE ord2[id[l]] = NewRow(u, l)
  <2>1. id[l] \in Range(id) /\ id[l] \notin DOMAIN ord
    BY <1>1
  <2>2. Inverse(id, lines, Range(id))[id[l]] = l
    BY <1>2, <2>1 DEF Inverse
  <2>. QED BY <2>1, <2>2
<1>4. Table(ord2)
  BY NewOrdersGrow DEF Grows
<1>. QED BY <1>2, <1>3, <1>4 DEF Ordered

\* A sum to which every line adds c[l] and no old order anything.
LEMMA OrderedTotal ==
  ASSUME NEW ord, NEW ord2, NEW lines, LinesOK(lines), NEW id, NEW u,
         Ordered(ord, ord2, lines, id, u),
         NEW w, NEW v, \A y \in Orders : w[y] \in Int, \A y \in Orders : v[y] \in Int,
         NEW c, \A l \in lines : c[l] \in Int,
         \A l \in lines : w[id[l]] = 0 /\ v[id[l]] = c[l],
         \A y \in Orders : y \notin Range(id) => v[y] = w[y]
  PROVE  /\ Total(w) \in Int /\ SumFunctionOnSet(c, lines) \in Int
         /\ Total(v) = Total(w) + SumFunctionOnSet(c, lines)
<1>1. IsFiniteSet(Orders) /\ IsFiniteSet(lines)
  BY MallAssumption DEF LinesOK
<1>2. \A y \in Orders : w[y] \in Int /\ v[y] \in Int
  OBVIOUS
<1>3. \A l \in lines : c[l] \in Int
  OBVIOUS
<1>4. id \in [lines -> Orders]
  BY DEF Ordered
<1>5. \A k, l \in lines : id[k] = id[l] => k = l
  BY DEF Ordered
<1>6. \A l \in lines : v[id[l]] = w[id[l]] + c[l]
  OBVIOUS
<1>7. \A y \in Orders : (\A l \in lines : id[l] # y) => v[y] = w[y]
  BY <1>4 DEF Range
<1>8. /\ SumFunctionOnSet(w, Orders) \in Int /\ SumFunctionOnSet(c, lines) \in Int
      /\ SumFunctionOnSet(v, Orders) =
           SumFunctionOnSet(w, Orders) + SumFunctionOnSet(c, lines)
  BY ONLY <1>1, <1>2, <1>3, <1>4, <1>5, <1>6, <1>7, SumSpread
<1>. QED BY <1>8 DEF Total

LEMMA CountNatural ==
  ASSUME NEW lines, LinesOK(lines), NEW g
  PROVE  CountOf(lines, g) \in Nat
<1>1. PICK S \in SUBSET lines : S = {l \in lines : l.good = g}
  OBVIOUS
<1>2. PICK w : w = [l \in lines |-> l.count]
  OBVIOUS
<1>3. IsFiniteSet(S)
  BY FS_Subset DEF LinesOK
<1>4. \A l \in S : w[l] \in Nat
  <2>1. \A l \in lines : l.count \in 1 .. MaxCount /\ MaxCount \in Nat
    BY MallAssumption DEF LinesOK
  <2>. QED BY <1>2, <2>1
<1>5. SumFunctionOnSet(w, S) \in Nat
  BY ONLY <1>3, <1>4, SumNatural
<1>. QED BY <1>1, <1>2, <1>5 DEF CountOf

\* What a new order counts for.
LEMMA NewOrder ==
  ASSUME NEW ord, NEW ord2, NEW lines, NEW id, NEW u, Ordered(ord, ord2, lines, id, u),
         NEW l \in lines
  PROVE  /\ id[l] \in Orders /\ ~In(ord, id[l]) /\ In(ord2, id[l])
         /\ ord2[id[l]].status = "UNSEND" /\ ord2[id[l]].returned = "NORMAL"
         /\ ord2[id[l]].user = u /\ ord2[id[l]].good = l.good
         /\ ord2[id[l]].count = l.count
         /\ ord2[id[l]].total = l.count * Price[l.good]
<1>1. id[l] \in Orders /\ id[l] \notin DOMAIN ord /\ id[l] \in Range(id)
  BY DEF Ordered, Range
<1>2. id[l] \in DOMAIN ord2 /\ ord2[id[l]] = NewRow(u, l)
  BY <1>1 DEF Ordered
<1>. QED BY <1>1, <1>2 DEF In, NewRow

LEMMA OldOrder ==
  ASSUME NEW ord, NEW ord2, NEW lines, NEW id, NEW u, Ordered(ord, ord2, lines, id, u),
         NEW o \in Orders, o \notin Range(id)
  PROVE  In(ord2, o) = In(ord, o) /\ (In(ord, o) => ord2[o] = ord[o])
  BY DEF Ordered, In

\* A fact of every order: of the new ones, and of the others.
LEMMA EveryOrder ==
  ASSUME NEW ord, NEW ord2, NEW lines, NEW id, NEW u, Ordered(ord, ord2, lines, id, u),
         NEW w, NEW v,
         \A l \in lines : v[id[l]] = w[id[l]],
         \A o \in Orders : o \notin Range(id) => v[o] = w[o]
  PROVE  \A o \in Orders : v[o] = w[o]
<1>1. DOMAIN id = lines
  BY DEF Ordered
<1>. QED BY <1>1 DEF Range

LEMMA OrderedStock ==
  ASSUME NEW ord, NEW ord2, NEW lines, LinesOK(lines), NEW id, NEW u,
         Ordered(ord, ord2, lines, id, u), NEW g
  PROVE  /\ LivePieces(ord, g) \in Int
         /\ LivePieces(ord2, g) = LivePieces(ord, g) + CountOf(lines, g)
         /\ DonePieces(ord2, g) = DonePieces(ord, g)
<1>1. Table(ord) /\ Table(ord2) /\ [x \in Orders |-> [confirmed |-> 0, refunded |-> 0]] \in Bills
  BY DEF Ordered, Bills
<1>2. PICK w, v, c : w = LiveW(ord, g) /\ v = LiveW(ord2, g)
                      /\ c = [l \in lines |-> IF l.good = g THEN l.count ELSE 0]
  OBVIOUS
<1>3. (\A y \in Orders : w[y] \in Int) /\ (\A y \in Orders : v[y] \in Int)
  <2>1. (\A y \in Orders : w[y] \in Nat) /\ (\A y \in Orders : v[y] \in Nat)
    BY <1>1, <1>2, WeightTypes
  <2>. QED BY <2>1
<1>4. \A l \in lines : c[l] \in Int
  <2>1. \A l \in lines : l.count \in Int
    BY MallAssumption DEF LinesOK
  <2>. QED BY <1>2, <2>1
<1>5. \A l \in lines : w[id[l]] = 0 /\ v[id[l]] = c[l]
  BY <1>2, NewOrder DEF LiveW, Live
<1>6. \A y \in Orders : y \notin Range(id) => v[y] = w[y]
  BY <1>2, OldOrder DEF LiveW
<1>7. /\ Total(w) \in Int /\ Total(v) = Total(w) + SumFunctionOnSet(c, lines)
  BY <1>3, <1>4, <1>5, <1>6, OrderedTotal
<1>8. SumFunctionOnSet(c, lines) = CountOf(lines, g)
  <2>1. PICK S, k : S = {l \in lines : l.good = g} /\ k = [l \in lines |-> l.count]
    OBVIOUS
  <2>2. IsFiniteSet(lines) /\ S \in SUBSET lines
    BY <2>1 DEF LinesOK
  <2>3. /\ \A y \in lines : c[y] \in Int
        /\ \A y \in S : c[y] = k[y]
        /\ \A y \in lines \ S : c[y] = 0
    BY <1>2, <1>4, <2>1
  <2>4. SumFunctionOnSet(c, lines) = SumFunctionOnSet(k, S)
    BY ONLY <2>2, <2>3, SumGrows
  <2>. QED BY <2>1, <2>4 DEF CountOf
<1>9. DonePieces(ord2, g) = DonePieces(ord, g)
  <2>1. PICK p, q : p = DoneW(ord, g) /\ q = DoneW(ord2, g)
    OBVIOUS
  <2>2. \A y \in Orders : p[y] \in Int
    <3>1. \A y \in Orders : p[y] \in Nat
      BY <1>1, <2>1, WeightTypes
    <3>. QED BY <3>1
  <2>3. \A l \in lines : q[id[l]] = p[id[l]]
    BY <2>1, NewOrder DEF DoneW
  <2>4. \A y \in Orders : y \notin Range(id) => q[y] = p[y]
    BY <2>1, OldOrder DEF DoneW
  <2>5. \A y \in Orders : q[y] = p[y]
    BY <2>3, <2>4, EveryOrder
  <2>6. Total(q) = Total(p)
    BY ONLY <2>2, <2>5, TotalSame
  <2>. QED BY <2>1, <2>6 DEF DonePieces
<1>. QED BY <1>2, <1>7, <1>8, <1>9 DEF LivePieces

LEMMA OrderedMoney ==
  ASSUME NEW ord, NEW ord2, NEW lines, LinesOK(lines), NEW id, NEW u,
         Ordered(ord, ord2, lines, id, u), NEW b \in Bills,
         \A o \in Orders : ~In(ord, o) => b[o].confirmed = 0 /\ b[o].refunded = 0, NEW v
  PROVE  /\ Extra(ord, b) \in Int /\ Extra(ord2, b) = Extra(ord, b)
         /\ Unrefunded(ord, b, v) \in Int
         /\ Unrefunded(ord2, b, v) =
              Unrefunded(ord, b, v) + (IF v = u THEN TotalOf(lines) ELSE 0)
<1>1. Table(ord) /\ Table(ord2)
  BY DEF Ordered
<1>2. Extra(ord, b) \in Int /\ Extra(ord2, b) = Extra(ord, b)
  <2>1. PICK p, q : p = ExtraW(ord, b) /\ q = ExtraW(ord2, b)
    OBVIOUS
  <2>2. \A y \in Orders : p[y] \in Int
    BY <1>1, <2>1, WeightTypes
  <2>3. \A l \in lines : q[id[l]] = p[id[l]]
    BY <2>1, NewOrder DEF ExtraW, Closed, NotClosed, Bit
  <2>4. \A y \in Orders : y \notin Range(id) => q[y] = p[y]
    BY <2>1, OldOrder DEF ExtraW, Closed
  <2>5. \A y \in Orders : q[y] = p[y]
    BY <2>3, <2>4, EveryOrder
  <2>6. Total(q) = Total(p) /\ Total(p) \in Int
    BY ONLY <2>2, <2>5, TotalSame
  <2>. QED BY <2>1, <2>6 DEF Extra
<1>3. PICK p, q : p = FreezeW(ord, b, v) /\ q = FreezeW(ord2, b, v)
  OBVIOUS
<1>4. (\A y \in Orders : p[y] \in Int) /\ (\A y \in Orders : q[y] \in Int)
  <2>1. (\A y \in Orders : p[y] \in Nat) /\ (\A y \in Orders : q[y] \in Nat)
    BY <1>1, <1>3, WeightTypes
  <2>. QED BY <2>1
<1>5. \A y \in Orders : y \notin Range(id) => q[y] = p[y]
  BY <1>3, OldOrder DEF FreezeW
<1>6. \A l \in lines : p[id[l]] = 0
  BY <1>3, NewOrder DEF FreezeW
<1>7. \A l \in lines : q[id[l]] = IF v = u THEN l.count * Price[l.good] ELSE 0
  BY <1>3, NewOrder DEF FreezeW
<1>8. CASE v = u
  <2>1. PICK c : c = [l \in lines |-> l.count * Price[l.good]]
    OBVIOUS
  <2>2. \A l \in lines : p[id[l]] = 0 /\ q[id[l]] = c[l]
    BY <1>6, <1>7, <1>8, <2>1
  <2>3. \A l \in lines : c[l] \in Int
    <3>1. \A l \in lines : id[l] \in Orders
      BY NewOrder
    <3>. QED BY <1>4, <2>2, <3>1
  <2>4. Total(p) \in Int /\ Total(q) = Total(p) + SumFunctionOnSet(c, lines)
    BY <1>4, <1>5, <2>2, <2>3, OrderedTotal
  <2>. QED BY <1>2, <1>3, <1>8, <2>1, <2>4 DEF Unrefunded, TotalOf
<1>9. CASE v # u
  <2>1. \A l \in lines : q[id[l]] = p[id[l]]
    BY <1>6, <1>7, <1>9
  <2>2. \A y \in Orders : q[y] = p[y]
    BY <1>5, <2>1, EveryOrder
  <2>3. Total(q) = Total(p) /\ Total(p) \in Int
    BY ONLY <1>4, <2>2, TotalSame
  <2>. QED BY <1>2, <1>3, <1>9, <2>3 DEF Unrefunded
<1>. QED BY <1>8, <1>9

\* A payment: the orders are new, their pieces leave the stock and their price
\* is frozen.
LEMMA EntryOrdered ==
  ASSUME NEW ord, NEW b, NEW gd, NEW cn, Tables(ord, b, gd, cn),
         NEW x, BooksKept(ord, b, gd, cn, x), x.at \in AtEase,
         NEW ord2, NEW lines, LinesOK(lines), NEW id, NEW u,
         Ordered(ord, ord2, lines, id, u),
         NEW gd2,
         \A g \in Goods :
           /\ gd2[g].stock = gd[g].stock - CountOf(lines, g)
           /\ gd2[g].sales = gd[g].sales,
         NEW cn2,
         \A v \in Users :
           cn2[v].freeze = cn[v].freeze + (IF v = u THEN TotalOf(lines) ELSE 0)
  PROVE  BooksKept(ord2, b, gd2, cn2, x)
<1>1. \A o \in Orders :
        /\ b[o].confirmed = Bit(In(ord, o) /\ ord[o].status = "SUCCESS")
        /\ b[o].refunded = Bit(In(ord, o) /\ ~Live(ord[o]))
  BY AtEaseHand DEF BooksKept, OrderBook, Bit
<1>2. \A o \in Orders : ~In(ord, o) => b[o].confirmed = 0 /\ b[o].refunded = 0
  BY <1>1 DEF Bit
<1>3. OrderBook(ord2, b, x)
  <2>1. PICK p : p = [o \in Orders |-> <<Bit(In(ord, o) /\ ord[o].status = "SUCCESS"),
                                         Bit(In(ord, o) /\ ~Live(ord[o]))>>]
    OBVIOUS
  <2>2. PICK q : q = [o \in Orders |-> <<Bit(In(ord2, o) /\ ord2[o].status = "SUCCESS"),
                                         Bit(In(ord2, o) /\ ~Live(ord2[o]))>>]
    OBVIOUS
  <2>3. \A l \in lines : q[id[l]] = p[id[l]]
    BY <2>1, <2>2, NewOrder DEF Live, Bit
  <2>4. \A o \in Orders : o \notin Range(id) => q[o] = p[o]
    BY <2>1, <2>2, OldOrder
  <2>5. \A o \in Orders : q[o] = p[o]
    BY <2>3, <2>4, EveryOrder
  <2>6. \A o \in Orders :
          /\ Bit(In(ord2, o) /\ ord2[o].status = "SUCCESS") =
               Bit(In(ord, o) /\ ord[o].status = "SUCCESS")
          /\ Bit(In(ord2, o) /\ ~Live(ord2[o])) = Bit(In(ord, o) /\ ~Live(ord[o]))
    BY <2>1, <2>2, <2>5
  <2>. QED BY <2>6 DEF BooksKept, OrderBook
<1>4. StockBook(ord2, gd2, x)
  <2>. SUFFICES ASSUME NEW g \in Goods
                PROVE  /\ gd2[g].stock + LivePieces(ord2, g) + OffShelf(x, g) = InitStock
                       /\ gd2[g].sales + Unsold(x, g) = DonePieces(ord2, g)
    BY DEF StockBook
  <2>1. /\ LivePieces(ord, g) \in Int
        /\ LivePieces(ord2, g) = LivePieces(ord, g) + CountOf(lines, g)
        /\ DonePieces(ord2, g) = DonePieces(ord, g)
    BY OrderedStock
  <2>2. /\ gd[g].stock + LivePieces(ord, g) + OffShelf(x, g) = InitStock
        /\ gd[g].sales + Unsold(x, g) = DonePieces(ord, g)
    BY DEF BooksKept, StockBook
  <2>3. gd[g].stock \in Nat /\ CountOf(lines, g) \in Int /\ OffShelf(x, g) = 0
    BY CountType, AtEaseHand DEF Tables, GoodTable
  <2>. QED BY <2>1, <2>2, <2>3
<1>5. FreezeBook(ord2, b, cn2)
  <2>. SUFFICES ASSUME NEW v \in Users PROVE cn2[v].freeze = Unrefunded(ord2, b, v)
    BY DEF FreezeBook
  <2>1. b \in Bills
    BY DEF Tables
  <2>2. Unrefunded(ord2, b, v) =
          Unrefunded(ord, b, v) + (IF v = u THEN TotalOf(lines) ELSE 0)
    BY <1>2, <2>1, OrderedMoney
  <2>3. cn[v].freeze = Unrefunded(ord, b, v)
    BY DEF BooksKept, FreezeBook
  <2>. QED BY <2>2, <2>3
<1>. QED BY <1>3, <1>4, <1>5 DEF BooksKept

-----------------------------------------------------------------------------
(***************************************************************************)
(* The invariant of a mall in which no request and no closing overlap.     *)
(***************************************************************************)

\* A closing has the mall to itself, and a request acts on what is true.
Alone(q, x) == x # NotClosing => \A t \in Threads : q[t] = Idle
ReadNow(q, ord, gd) ==
  \A t \in Threads :
    /\ q[t] # Idle => q[t].goods = gd
    /\ q[t].op \in OrderOp =>
         /\ q[t].row = ord[q[t].order]
         /\ Check(q[t].op, q[t].row) /\ Offered(q[t].op, q[t].row)

\* What the closing holds of an order and a good is what the tables say.
InWork == InDoubt \cup {"refund", "take"}
Held(x, ord, gd) ==
  /\ x.at \in InWork => ord[x.order] = x.row /\ NotClosed(x.row)
  /\ x.at \in {"take", "pay", "setSuccess"} => x.row.returned = "NORMAL"
  /\ x.at = "take" => x.phase = "SENT" /\ x.row.status = "SENT"
  /\ x.at = "writeStock" => x.seen.stock = gd[x.row.good].stock
  /\ x.at \in {"take", "pay", "setSuccess", "sales"} =>
       x.seen.sales = gd[x.row.good].sales

\* The last list holds sent orders, and orders finished since.
Waiting(x, ord) ==
  x # NotClosing /\ x.phase = "SENT" =>
    \A o \in x.todo :
      \/ ord[o].status = "SENT" /\ ord[o].returned = "NORMAL"
      \/ ~NotClosed(ord[o])

\* Only orders that exist are booked, and a closed order is, like the one in
\* doubt.
Booked(ord, b, x) ==
  /\ \A o \in Orders : ~In(ord, o) => b[o].confirmed = 0 /\ b[o].refunded = 0
  /\ \A o \in DOMAIN ord : ~NotClosed(ord[o]) => b[o].confirmed + b[o].refunded > 0
  /\ x.at \in InDoubt => b[x.order].confirmed + b[x.order].refunded > 0

\* The bookings exceed the closed orders by no more than the faults, each of
\* which may leave a booked order open, and the order in doubt.
Extras(ord, b, x, f) == Extra(ord, b) <= f + Bit(x.at \in InDoubt)

Calm(q, x, ord, gd, b, f) ==
  /\ Alone(q, x) /\ ReadNow(q, ord, gd) /\ Held(x, ord, gd) /\ Waiting(x, ord)
  /\ Booked(ord, b, x) /\ Extras(ord, b, x, f)

\* The rebate on its way to the buyer, and a buyer who cannot pay for r.
Rebating == {"pay", "setSuccess", "sales", "rept", "rebate"}
Coming(x, u) ==
  IF x.at \in Rebating /\ x.row.user = u THEN Percent(x.row.total, BuyRebate) ELSE 0
Poor(x, cn, r) == cn[r.user].award + Coming(x, r.user) < r.total

\* An open order of the seller is still to come, or its buyer was too poor.
Covered(x, ord, cn) ==
  \A o \in DOMAIN ord :
    Owner[ord[o].good] = x.seller /\ NotClosed(ord[o]) =>
      \/ o \in x.todo
      \/ x.at \in InWork /\ x.order = o
      \/ /\ ord[o].status = "SENT" /\ ord[o].returned = "NORMAL"
         /\ x.phase # "SENT" \/ Poor(x, cn, ord[o])
      \/ ord[o].returned = "RETURNING" /\ x.phase = "UNSEND"

BooksInv ==
  /\ ~overlap => Calm(tx, closer, order, good, bills, faults)
  /\ Clean => BooksKept(order, bills, good, coin, closer)
  /\ Clean /\ closer # NotClosing /\ BuyRebate <= 100 => Covered(closer, order, coin)

\* Clients one at a time, who offer what belongs.
OneClient == OrderlyClients = TRUE /\ \A s, t \in Threads : s = t

-----------------------------------------------------------------------------
\* What the steps do to each part of it.

LEMMA AloneKept ==
  ASSUME NEW q, NEW x, Alone(q, x), x # NotClosing, NEW y, NEW ord, NEW gd
  PROVE  Alone(q, y) /\ ReadNow(q, ord, gd)
  BY DEF Alone, ReadNow, Idle, OrderOp

\* Orders are as they were, or closed.
Closing(ord, ord2) ==
  /\ DOMAIN ord2 = DOMAIN ord
  /\ \A o \in DOMAIN ord : NotClosed(ord2[o]) => ord2[o] = ord[o]
SameTask(x, y) == y.seller = x.seller /\ y.phase = x.phase /\ y.todo = x.todo

LEMMA WaitingKept ==
  ASSUME NEW x, NEW ord, x # NotClosing, Waiting(x, ord), Todo(x, ord),
         NEW y, SameTask(x, y), NEW ord2, Closing(ord, ord2)
  PROVE  Waiting(y, ord2)
<1>. SUFFICES ASSUME y.phase = "SENT", NEW o \in y.todo, NotClosed(ord2[o])
              PROVE  ord2[o].status = "SENT" /\ ord2[o].returned = "NORMAL"
  BY DEF Waiting
<1>1. o \in x.todo /\ o \in DOMAIN ord /\ x.phase = "SENT"
  BY DEF SameTask, Todo
<1>2. ord2[o] = ord[o]
  BY <1>1 DEF Closing
<1>. QED BY <1>1, <1>2 DEF Waiting

\* No buyer is richer.
NoRicher(x, cn, y, cn2) ==
  \A u \in Users : cn2[u].award + Coming(y, u) <= cn[u].award + Coming(x, u)

LEMMA ComingType ==
  ASSUME NEW x, x.at \in Rebating => x.row \in Row, NEW u
  PROVE  Coming(x, u) \in Int
<1>1. x.at \in Rebating => x.row.total \in Nat
  BY DEF Row
<1>. QED BY <1>1, PercentType, MallAssumption DEF Coming

LEMMA CoveredKept ==
  ASSUME NEW x, NEW ord, Table(ord), NEW cn \in Ledgers, Covered(x, ord, cn),
         NEW y, SameTask(x, y), NEW ord2, Closing(ord, ord2), NEW cn2 \in Ledgers,
         NoRicher(x, cn, y, cn2),
         x.at \in Rebating => x.row \in Row, y.at \in Rebating => y.row \in Row,
         x.at \in InWork => \/ y.at \in InWork /\ y.order = x.order
                            \/ ~NotClosed(ord2[x.order])
  PROVE  Covered(y, ord2, cn2)
<1>. SUFFICES ASSUME NEW o \in DOMAIN ord2, Owner[ord2[o].good] = y.seller,
                     NotClosed(ord2[o])
              PROVE  \/ o \in y.todo
                     \/ y.at \in InWork /\ y.order = o
                     \/ /\ ord2[o].status = "SENT" /\ ord2[o].returned = "NORMAL"
                        /\ y.phase # "SENT" \/ Poor(y, cn2, ord2[o])
                     \/ ord2[o].returned = "RETURNING" /\ y.phase = "UNSEND"
  BY DEF Covered
<1>1. o \in DOMAIN ord /\ ord2[o] = ord[o]
  BY DEF Closing
<1>2. \/ o \in x.todo
      \/ x.at \in InWork /\ x.order = o
      \/ /\ ord[o].status = "SENT" /\ ord[o].returned = "NORMAL"
         /\ x.phase # "SENT" \/ Poor(x, cn, ord[o])
      \/ ord[o].returned = "RETURNING" /\ x.phase = "UNSEND"
  BY <1>1 DEF Covered, SameTask
<1>3. Poor(x, cn, ord[o]) => Poor(y, cn2, ord[o])
  <2>1. PICK u \in Users, n \in Int : u = ord[o].user /\ n = ord[o].total
    BY <1>1 DEF Table, Row
  <2>2. cn[u].award \in Int /\ cn2[u].award \in Int
    BY DEF Ledgers, Balance
  <2>3. Coming(x, u) \in Int /\ Coming(y, u) \in Int
    BY ComingType
  <2>4. cn2[u].award + Coming(y, u) <= cn[u].award + Coming(x, u)
    BY DEF NoRicher
  <2>. QED BY <2>1, <2>2, <2>3, <2>4 DEF Poor
<1>4. CASE x.at \in InWork /\ x.order = o
  BY <1>4
<1>5. CASE o \in x.todo
  BY <1>5 DEF SameTask
<1>6. CASE /\ ord[o].status = "SENT" /\ ord[o].returned = "NORMAL"
           /\ x.phase # "SENT" \/ Poor(x, cn, ord[o])
  BY <1>1, <1>3, <1>6 DEF SameTask
<1>7. CASE ord[o].returned = "RETURNING" /\ x.phase = "UNSEND"
  BY <1>1, <1>7 DEF SameTask
<1>. QED BY ONLY <1>2, <1>4, <1>5, <1>6, <1>7, Zenon

\* A step that neither books nor closes an order.
LEMMA NothingBooked ==
  ASSUME NEW ord, NEW b, NEW x, NEW f, Booked(ord, b, x), Extras(ord, b, x, f),
         NEW y, y.at \in InDoubt <=> x.at \in InDoubt,
         x.at \in InDoubt => y.order = x.order
  PROVE  Booked(ord, b, y) /\ Extras(ord, b, y, f)
  BY DEF Booked, Extras, Bit

\* A step that books an open order.
LEMMA OneBooked ==
  ASSUME NEW ord, Table(ord), NEW b \in Bills, NEW x, NEW f \in Nat,
         Booked(ord, b, x), Extras(ord, b, x, f), x.at \notin InDoubt,
         NEW o \in DOMAIN ord, NEW b2 \in Bills,
         b2[o].confirmed + b2[o].refunded = b[o].confirmed + b[o].refunded + 1,
         \A z \in Orders : z # o => b2[z] = b[z],
         NEW y, y.at \in InDoubt, y.order = o
  PROVE  Booked(ord, b2, y) /\ Extras(ord, b2, y, f)
<1>1. o \in Orders /\ In(ord, o)
  BY DEF Table, In
<1>2. Extra(ord, b) \in Int /\ Extra(ord, b2) = Extra(ord, b) + 1
  BY <1>1, BilledExtra
<1>3. Extras(ord, b2, y, f)
  BY <1>2 DEF Extras, Bit
<1>4. b[o].confirmed + b[o].refunded \in Nat /\ b2[o].confirmed + b2[o].refunded > 0
  BY <1>1 DEF Bills
<1>5. Booked(ord, b2, y)
  <2>1. \A z \in Orders : ~In(ord, z) => b2[z].confirmed = 0 /\ b2[z].refunded = 0
    BY <1>1 DEF Booked
  <2>2. \A z \in DOMAIN ord : ~NotClosed(ord[z]) => b2[z].confirmed + b2[z].refunded > 0
    BY <1>4 DEF Booked, Table
  <2>. QED BY <1>4, <2>1, <2>2 DEF Booked
<1>. QED BY <1>3, <1>5

\* A step that closes the order in doubt.
LEMMA OneClosed ==
  ASSUME NEW ord, NEW b \in Bills, NEW x, NEW f \in Nat,
         Booked(ord, b, x), Extras(ord, b, x, f),
         NEW o, x.at \in InDoubt, x.order = o,
         NEW ord2, Alters(ord, ord2, o), NotClosed(ord[o]), ~NotClosed(ord2[o]),
         NEW y, y.at \notin InDoubt
  PROVE  Booked(ord2, b, y) /\ Extras(ord2, b, y, f)
<1>1. /\ Extra(ord, b) \in Int
      /\ Extra(ord2, b) = Extra(ord, b) + Bit(Closed(ord, o)) - Bit(Closed(ord2, o))
  BY AltersMoney
<1>2. Bit(Closed(ord, o)) = 0 /\ Bit(Closed(ord2, o)) = 1
  BY DEF Closed, Alters, In, Bit
<1>3. Extra(ord, b) <= f + 1
  BY DEF Extras, Bit
<1>4. Extras(ord2, b, y, f)
  <2>1. Extra(ord2, b) <= f + 0
    BY <1>1, <1>2, <1>3
  <2>. QED BY <2>1 DEF Extras, Bit
<1>5. Booked(ord2, b, y)
  BY DEF Booked, Alters, In
<1>. QED BY <1>4, <1>5

\* A step that leaves an open order open.
LEMMA OneKept ==
  ASSUME NEW ord, NEW b \in Bills, NEW x, NEW f \in Nat,
         Booked(ord, b, x), Extras(ord, b, x, f), NEW o, x.at \notin InDoubt,
         NEW ord2, Alters(ord, ord2, o), NotClosed(ord[o]), NotClosed(ord2[o])
  PROVE  Booked(ord2, b, x) /\ Extras(ord2, b, x, f)
<1>1. /\ Extra(ord, b) \in Int
      /\ Extra(ord2, b) = Extra(ord, b) + Bit(Closed(ord, o)) - Bit(Closed(ord2, o))
  BY AltersMoney
<1>2. Bit(Closed(ord, o)) = 0 /\ Bit(Closed(ord2, o)) = 0
  BY DEF Closed, Bit
<1>3. Extra(ord2, b) = Extra(ord, b)
  BY <1>1, <1>2
<1>4. Booked(ord2, b, x)
  BY DEF Booked, Alters, In
<1>. QED BY <1>3, <1>4 DEF Extras

-----------------------------------------------------------------------------
(***************************************************************************)
(* The statements of a closing preserve it.                                *)
(***************************************************************************)

LEMMA GotoFields ==
  ASSUME NEW x \in Amid, NEW a, a # "none", NEW y, y = [x EXCEPT !.at = a]
  PROVE  /\ y.at = a /\ y.order = x.order /\ y.row = x.row /\ y.seen = x.seen
         /\ SameTask(x, y) /\ y # NotClosing
<1>1. y.at = a /\ y.order = x.order /\ y.row = x.row /\ y.seen = x.seen /\ SameTask(x, y)
  BY DEF Amid, SameTask
<1>2. NotClosing.at = "none"
  BY DEF NotClosing
<1>. QED BY <1>1, <1>2

LEMMA GoneFields ==
  ASSUME closer \in Amid, NEW a, a # "none", Goto(a)
  PROVE  /\ closer'.at = a /\ closer'.order = closer.order /\ closer'.row = closer.row
         /\ closer'.seen = closer.seen /\ SameTask(closer, closer') /\ closer' # NotClosing
<1>1. PICK x, y : /\ x = closer /\ x \in Amid
                  /\ y = closer' /\ y = [x EXCEPT !.at = a]
  BY DEF Goto
<1>2. /\ y.at = a /\ y.order = x.order /\ y.row = x.row /\ y.seen = x.seen
      /\ SameTask(x, y) /\ y # NotClosing
  BY <1>1, GotoFields
<1>. QED BY <1>1, <1>2

LEMMA BackFields ==
  ASSUME NEW x, NEW y,
         y = [at |-> "next", seller |-> x.seller, phase |-> x.phase, todo |-> x.todo]
  PROVE  y.at = "next" /\ SameTask(x, y) /\ y # NotClosing
<1>1. y.at = "next" /\ SameTask(x, y)
  BY DEF SameTask
<1>2. NotClosing.at = "none"
  BY DEF NotClosing
<1>. QED BY <1>1, <1>2

LEMMA NextFacts ==
  ASSUME CloseInv'
  PROVE  coin' \in Ledgers /\ good' \in GoodTable /\ Table(order') /\ bills' \in Bills
  BY DEF CloseInv, BaseInv, TypeOK, Ledgers, GoodTable, Table, Bills

LEMMA CalmFacts ==
  ASSUME BooksInv, ~overlap
  PROVE  /\ Alone(tx, closer) /\ ReadNow(tx, order, good) /\ Held(closer, order, good)
         /\ Waiting(closer, order) /\ Booked(order, bills, closer)
         /\ Extras(order, bills, closer, faults)
  BY DEF BooksInv, Calm

LEMMA CleanFacts ==
  ASSUME BooksInv, CloseInv, Clean
  PROVE  /\ BooksKept(order, bills, good, coin, closer) /\ ~overlap
         /\ Tables(order, bills, good, coin)
         /\ closer # NotClosing /\ BuyRebate <= 100 => Covered(closer, order, coin)
  BY CloseFacts DEF BooksInv, Clean, Tables

LEMMA AmidFacts ==
  ASSUME CloseInv, closer.at \in Refunding \cup Confirming
  PROVE  /\ closer \in Amid /\ closer # NotClosing /\ closer.row \in Row
         /\ closer.order \in DOMAIN order /\ closer.order \in Orders
         /\ Todo(closer, order) /\ Taken(closer, order)
         /\ closer.row.total \in Nat /\ closer.row.count \in Nat
         /\ closer.row.user \in Users /\ closer.row.good \in Goods
<1>1. closer \in Amid /\ Todo(closer, order) /\ Taken(closer, order)
  BY CloseFacts, CloserFacts
<1>2. closer # NotClosing
  BY DEF Refunding, Confirming, NotClosing
<1>3. closer.row \in Row /\ closer.order \in Orders
  BY <1>1 DEF Amid
<1>4. closer.row.total \in Nat /\ closer.row.count \in Nat
      /\ closer.row.user \in Users /\ closer.row.good \in Goods
  BY <1>3, MallAssumption DEF Row
<1>. QED BY <1>1, <1>2, <1>3, <1>4 DEF Taken

\* A statement was executed, and its effects are as they should be.
LEMMA StatementDone ==
  ASSUME CloseInv, CloseInv', BooksInv, closer.at \in Refunding \cup Confirming,
         UNCHANGED <<tx, faults, overlap>>,
         SameTask(closer, closer'), closer' # NotClosing, Closing(order, order'),
         ~overlap => /\ Held(closer', order', good') /\ Booked(order', bills', closer')
                     /\ Extras(order', bills', closer', faults),
         Clean => BooksKept(order', bills', good', coin', closer'),
         Clean /\ BuyRebate <= 100 => Covered(closer', order', coin')
  PROVE  BooksInv'
<1>1. PICK q, x, y, ord, ord2, gd :
        q = tx /\ x = closer /\ y = closer' /\ ord = order /\ ord2 = order' /\ gd = good'
  OBVIOUS
<1>2. ASSUME ~overlap PROVE Calm(tx', closer', order', good', bills', faults')
  <2>1. x # NotClosing /\ Alone(q, x) /\ Waiting(x, ord) /\ Todo(x, ord)
    BY <1>1, <1>2, CalmFacts, AmidFacts
  <2>2. Alone(q, y) /\ ReadNow(q, ord2, gd)
    BY <2>1, AloneKept
  <2>3. SameTask(x, y) /\ Closing(ord, ord2)
    BY <1>1
  <2>4. Waiting(y, ord2)
    BY <2>1, <2>3, WaitingKept
  <2>. QED BY <1>1, <1>2, <2>2, <2>4 DEF Calm
<1>. QED BY <1>2 DEF BooksInv, Clean

\* The order table stays, or the order in hand is closed.
LEMMA ClosingSame ==
  ASSUME NEW ord PROVE Closing(ord, ord)
  BY DEF Closing

LEMMA ClosingOne ==
  ASSUME NEW ord, NEW ord2, NEW o, Alters(ord, ord2, o), ~NotClosed(ord2[o])
  PROVE  Closing(ord, ord2)
  BY DEF Closing, Alters

LEMMA SameAward ==
  ASSUME NEW x, NEW cn \in Ledgers, NEW y, NEW cn2,
         \A u \in Users : cn2[u].award = cn[u].award,
         x.at \in Rebating => x.row \in Row,
         \A u \in Users : Coming(y, u) = Coming(x, u)
  PROVE  NoRicher(x, cn, y, cn2)
<1>. SUFFICES ASSUME NEW u \in Users
              PROVE  cn2[u].award + Coming(y, u) <= cn[u].award + Coming(x, u)
  BY DEF NoRicher
<1>1. cn[u].award \in Int /\ Coming(x, u) \in Int
  BY ComingType DEF Ledgers, Balance
<1>. QED BY <1>1

\* A posting that leaves the award balances alone, or the frozen ones.
SameAwards(cn, cn2) == \A u \in Users : cn2[u].award = cn[u].award

LEMMA PostAward ==
  ASSUME NEW l \in Ledgers, NEW v \in Users \cup {Nobody},
         NEW dA \in Int, NEW dF \in Int, NEW dW \in Int, dW = 0, NEW m,
         m = Post(l, v, dA, dF, dW)
  PROVE  SameAwards(l, m)
<1>1. ASSUME NEW u \in Users PROVE m[u].award = l[u].award
  <2>1. /\ Post(l, v, dA, dF, dW)[u].available + Post(l, v, dA, dF, dW)[u].freeze =
             l[u].available + l[u].freeze + (IF u = v THEN dA + dF ELSE 0)
        /\ Post(l, v, dA, dF, dW)[u].award = l[u].award + (IF u = v THEN dW ELSE 0)
        /\ l[u].available + l[u].freeze \in Int /\ l[u].award \in Int
    BY PostRow
  <2>. QED BY <2>1
<1>. QED BY <1>1 DEF SameAwards

LEMMA PostNoFreeze ==
  ASSUME NEW l \in Ledgers, NEW v \in Users \cup {Nobody},
         NEW dA \in Int, NEW dF \in Int, NEW dW \in Int, dF = 0, NEW m,
         m = Post(l, v, dA, dF, dW)
  PROVE  SameFreeze(l, m)
<1>1. ASSUME NEW u \in Users PROVE m[u].freeze = l[u].freeze
  <2>1. Post(l, v, dA, dF, dW)[u].freeze = l[u].freeze + (IF u = v THEN dF ELSE 0)
    BY PostFreeze
  <2>2. l[u].freeze \in Int
    BY DEF Ledgers, Balance
  <2>. QED BY <2>1, <2>2
<1>. QED BY <1>1 DEF SameFreeze

LEMMA SameLedger == ASSUME NEW l PROVE SameFreeze(l, l)
  BY DEF SameFreeze

\* An order of the table gets a new status, or a new return mark.
LEMMA StatusAlters ==
  ASSUME NEW ord, Table(ord), NEW o \in DOMAIN ord,
         NEW st \in {"UNSEND", "SENT", "SUCCESS", "CANCEL"},
         NEW ord2, ord2 = [ord EXCEPT ![o].status = st]
  PROVE  Alters(ord, ord2, o)
<1>1. Grows(ord, ord2) /\ DOMAIN ord2 = DOMAIN ord
  BY StatusGrows
<1>2. ord[o] \in Row
  BY DEF Table
<1>3. ord2[o] = [ord[o] EXCEPT !.status = st]
  BY DEF Table
<1>4. \A y \in DOMAIN ord : y # o => ord2[y] = ord[y]
  BY DEF Table
<1>. QED BY <1>1, <1>2, <1>3, <1>4 DEF Alters, Grows, Row

LEMMA StatusFields ==
  ASSUME NEW ord, Table(ord), NEW o \in DOMAIN ord,
         NEW st \in {"UNSEND", "SENT", "SUCCESS", "CANCEL"},
         NEW ord2, ord2 = [ord EXCEPT ![o].status = st]
  PROVE  ord2[o].status = st /\ ord2[o].returned = ord[o].returned
<1>1. ord[o] \in Row
  BY DEF Table
<1>2. ord2[o] = [ord[o] EXCEPT !.status = st]
  BY DEF Table
<1>. QED BY <1>1, <1>2 DEF Row

LEMMA ReturnedAlters ==
  ASSUME NEW ord, Table(ord), NEW o \in DOMAIN ord,
         NEW st \in {"NORMAL", "RETURNING", "RETURNED"},
         NEW ord2, ord2 = [ord EXCEPT ![o].returned = st]
  PROVE  Alters(ord, ord2, o)
<1>1. Grows(ord, ord2) /\ DOMAIN ord2 = DOMAIN ord
  BY ReturnedGrows
<1>2. ord[o] \in Row
  BY DEF Table
<1>3. ord2[o] = [ord[o] EXCEPT !.returned = st]
  BY DEF Table
<1>4. \A y \in DOMAIN ord : y # o => ord2[y] = ord[y]
  BY DEF Table
<1>. QED BY <1>1, <1>2, <1>3, <1>4 DEF Alters, Grows, Row

LEMMA ReturnedFields ==
  ASSUME NEW ord, Table(ord), NEW o \in DOMAIN ord,
         NEW st \in {"NORMAL", "RETURNING", "RETURNED"},
         NEW ord2, ord2 = [ord EXCEPT ![o].returned = st]
  PROVE  ord2[o].returned = st /\ ord2[o].status = ord[o].status
<1>1. ord[o] \in Row
  BY DEF Table
<1>2. ord2[o] = [ord[o] EXCEPT !.returned = st]
  BY DEF Table
<1>. QED BY <1>1, <1>2 DEF Row

\* One more booking of order o, as received or as refunded.
Confirms(b, b2, o) ==
  /\ b2 \in Bills /\ b2[o].confirmed = b[o].confirmed + 1
  /\ b2[o].refunded = b[o].refunded
  /\ b2[o].confirmed + b2[o].refunded = b[o].confirmed + b[o].refunded + 1
  /\ \A z \in Orders : z # o => b2[z] = b[z]
Refunds(b, b2, o) ==
  /\ b2 \in Bills /\ b2[o].refunded = b[o].refunded + 1
  /\ b2[o].confirmed = b[o].confirmed
  /\ b2[o].confirmed + b2[o].refunded = b[o].confirmed + b[o].refunded + 1
  /\ \A z \in Orders : z # o => b2[z] = b[z]

LEMMA ConfirmedOnce ==
  ASSUME NEW b \in Bills, NEW o \in Orders, NEW b2,
         b2 = [b EXCEPT ![o].confirmed = b[o].confirmed + 1]
  PROVE  Confirms(b, b2, o)
<1>1. /\ b[o].confirmed \in Nat /\ b[o].refunded \in Nat
      /\ b2[o].confirmed = b[o].confirmed + 1 /\ b2[o].refunded = b[o].refunded
      /\ \A z \in Orders : z # o => b2[z] = b[z]
  BY DEF Bills
<1>2. b2 \in Bills
  BY <1>1 DEF Bills
<1>. QED BY <1>1, <1>2 DEF Confirms

LEMMA RefundedOnce ==
  ASSUME NEW b \in Bills, NEW o \in Orders, NEW b2,
         b2 = [b EXCEPT ![o].refunded = b[o].refunded + 1]
  PROVE  Refunds(b, b2, o)
<1>1. /\ b[o].confirmed \in Nat /\ b[o].refunded \in Nat
      /\ b2[o].refunded = b[o].refunded + 1 /\ b2[o].confirmed = b[o].confirmed
      /\ \A z \in Orders : z # o => b2[z] = b[z]
  BY DEF Bills
<1>2. b2 \in Bills
  BY <1>1 DEF Bills
<1>. QED BY <1>1, <1>2 DEF Refunds

\* A statement that books and closes nothing.
LEMMA StatementKept ==
  ASSUME CloseInv, CloseInv', BooksInv, closer.at \in Refunding \cup Confirming,
         UNCHANGED <<order, bills, tx, faults, overlap>>,
         SameTask(closer, closer'), closer' # NotClosing,
         closer'.at \in InDoubt <=> closer.at \in InDoubt,
         closer.at \in InDoubt => closer'.order = closer.order,
         closer.at \in InWork => closer'.at \in InWork /\ closer'.order = closer.order,
         closer'.at \in Rebating => closer'.row = closer.row,
         ~overlap => Held(closer', order, good'),
         Clean => BooksKept(order, bills, good', coin', closer'),
         NoRicher(closer, coin, closer', coin')
  PROVE  BooksInv'
<1>1. PICK x, y, ord, b, cn, cn2, f :
        /\ x = closer /\ y = closer' /\ ord = order /\ b = bills
        /\ cn = coin /\ cn2 = coin' /\ f = faults
  OBVIOUS
<1>2. ASSUME ~overlap PROVE Booked(ord, b, y) /\ Extras(ord, b, y, f)
  <2>1. Booked(ord, b, x) /\ Extras(ord, b, x, f)
    BY <1>1, <1>2, CalmFacts
  <2>2. y.at \in InDoubt <=> x.at \in InDoubt
    BY <1>1
  <2>3. x.at \in InDoubt => y.order = x.order
    BY <1>1
  <2>. QED BY ONLY <2>1, <2>2, <2>3, NothingBooked
<1>3. ASSUME Clean, BuyRebate <= 100 PROVE Covered(y, ord, cn2)
  <2>1. Covered(x, ord, cn) /\ Table(ord) /\ cn \in Ledgers /\ cn2 \in Ledgers
    BY <1>1, <1>3, CleanFacts, CloseFacts, AmidFacts, NextFacts
  <2>2. SameTask(x, y) /\ Closing(ord, ord) /\ NoRicher(x, cn, y, cn2)
    BY <1>1, ClosingSame
  <2>3. (x.at \in Rebating => x.row \in Row) /\ (y.at \in Rebating => y.row \in Row)
    BY <1>1, AmidFacts
  <2>4. x.at \in InWork => y.at \in InWork /\ y.order = x.order
    BY <1>1
  <2>. QED BY ONLY <2>1, <2>2, <2>3, <2>4, CoveredKept
<1>4. Closing(order, order')
  BY ClosingSame
<1>. QED BY <1>1, <1>2, <1>3, <1>4, StatementDone

\* A statement that moves no award: readStock, the writes of the good, the
\* rating, and the credits of seller and inviters.
LEMMA NoAward ==
  ASSUME CloseInv, closer.at \in Refunding \cup Confirming,
         \A u \in Users : coin'[u].award = coin[u].award,
         closer.at \in Rebating <=> closer'.at \in Rebating,
         closer.at \in Rebating => closer'.row = closer.row
  PROVE  NoRicher(closer, coin, closer', coin')
<1>1. PICK x, y, cn, cn2 : x = closer /\ y = closer' /\ cn = coin /\ cn2 = coin'
  OBVIOUS
<1>2. cn \in Ledgers /\ x.row \in Row /\ \A u \in Users : cn2[u].award = cn[u].award
  BY <1>1, CloseFacts, AmidFacts
<1>3. \A u \in Users : Coming(y, u) = Coming(x, u)
  BY <1>1 DEF Coming
<1>4. NoRicher(x, cn, y, cn2)
  BY <1>2, <1>3, SameAward
<1>. QED BY <1>1, <1>4

LEMMA BooksReadStock ==
  ASSUME CloseInv, CloseInv', BooksInv, readStock
  PROVE  BooksInv'
<1>1. /\ closer.at = "readStock" /\ closer \in Amid
      /\ closer.row \in Row /\ closer.row.good \in Goods
  BY AmidFacts DEF readStock, Refunding
<1>2. /\ closer'.at = "writeStock" /\ closer'.order = closer.order
      /\ closer'.row = closer.row /\ closer'.seen = good[closer.row.good]
      /\ SameTask(closer, closer')
  BY <1>1 DEF readStock, Amid, SameTask
<1>3. closer' # NotClosing
  BY <1>2 DEF NotClosing
<1>4. UNCHANGED <<coin, good, order, bills, tx, faults, overlap>>
  BY DEF readStock, vars
<1>5. Held(closer', order, good')
  BY <1>2, <1>4 DEF Held, InWork, InDoubt
<1>6. ASSUME Clean PROVE BooksKept(order, bills, good', coin', closer')
  <2>1. PICK x, y : x = closer /\ y = closer'
    OBVIOUS
  <2>2. BooksKept(order, bills, good, coin, x) /\ SameFreeze(coin, coin)
    BY <1>6, <2>1, CleanFacts, SameLedger
  <2>3. /\ x.at \in {"readStock", "writeStock"} /\ y.at \in {"readStock", "writeStock"}
        /\ x.row = y.row
    BY <1>1, <1>2, <2>1
  <2>4. BooksKept(order, bills, good, coin, y)
    BY <2>2, <2>3, EntryNone
  <2>. QED BY <1>4, <2>1, <2>4
<1>7. NoRicher(closer, coin, closer', coin')
  BY <1>1, <1>2, <1>4, NoAward DEF Refunding, Rebating
<1>. QED BY <1>1, <1>2, <1>3, <1>4, <1>5, <1>6, <1>7, StatementKept
         DEF Refunding, InDoubt, InWork, Rebating

LEMMA BooksWriteStock ==
  ASSUME CloseInv, CloseInv', BooksInv, writeStock
  PROVE  BooksInv'
<1>1. /\ closer.at = "writeStock" /\ closer.row \in Row
      /\ closer.row.good \in Goods /\ closer.row.count \in Nat
  BY AmidFacts DEF writeStock, Refunding
<1>2. closer'.at = "next" /\ SameTask(closer, closer') /\ closer' # NotClosing
  BY BackFields DEF writeStock, Back
<1>3. UNCHANGED <<coin, order, bills, tx, faults, overlap>>
  BY DEF writeStock
<1>4. Held(closer', order, good')
  BY <1>2 DEF Held, InWork, InDoubt
<1>5. ASSUME Clean PROVE BooksKept(order, bills, good', coin', closer')
  <2>1. PICK x, y, gd, gd2 : x = closer /\ y = closer' /\ gd = good /\ gd2 = good'
    OBVIOUS
  <2>2. /\ BooksKept(order, bills, gd, coin, x) /\ Tables(order, bills, gd, coin)
        /\ gd \in GoodTable
    BY <1>5, <2>1, CleanFacts, CloseFacts
  <2>3. x.seen.stock = gd[x.row.good].stock
    BY <1>1, <1>5, <2>1, CleanFacts, CalmFacts DEF Held
  <2>4. PICK h, n : /\ h \in Goods /\ h = x.row.good /\ n = x.seen.stock + x.row.count
                     /\ gd2 = [gd EXCEPT ![h].stock = n]
    BY <1>1, <2>1 DEF writeStock
  <2>5. \A g \in Goods : /\ gd2[g].stock = IF g = h THEN n ELSE gd[g].stock
                         /\ gd2[g].sales = gd[g].sales
    BY <2>2, <2>4 DEF GoodTable
  <2>6. \A g \in Goods : gd[g].stock \in Nat
    BY <2>2 DEF GoodTable
  <2>7. \A g \in Goods :
          /\ gd2[g].stock = gd[g].stock + (IF x.row.good = g THEN x.row.count ELSE 0)
          /\ gd2[g].sales = gd[g].sales
    BY <2>3, <2>4, <2>5, <2>6
  <2>8. x.at \in {"readStock", "writeStock"} /\ x.row \in Row /\ y.at \in AtEase
    BY <1>1, <1>2, <2>1 DEF AtEase
  <2>9. BooksKept(order, bills, gd2, coin, y)
    BY <2>2, <2>7, <2>8, EntryReshelved
  <2>. QED BY <1>3, <2>1, <2>9
<1>6. NoRicher(closer, coin, closer', coin')
  BY <1>1, <1>2, <1>3, NoAward DEF Refunding, Rebating
<1>. QED BY <1>1, <1>2, <1>3, <1>4, <1>5, <1>6, StatementKept
         DEF Refunding, InDoubt, InWork, Rebating

LEMMA BooksSales ==
  ASSUME CloseInv, CloseInv', BooksInv, sales
  PROVE  BooksInv'
<1>1. /\ closer.at = "sales" /\ closer \in Amid /\ closer.row \in Row
      /\ closer.row.good \in Goods /\ closer.row.count \in Nat
  BY AmidFacts DEF sales, Confirming
<1>2. /\ closer'.at = "rept" /\ closer'.row = closer.row
      /\ SameTask(closer, closer') /\ closer' # NotClosing
  <2>1. Goto("rept")
    BY DEF sales
  <2>. QED BY <1>1, <2>1, GoneFields
<1>3. UNCHANGED <<coin, order, bills, tx, faults, overlap>>
  BY DEF sales
<1>4. Held(closer', order, good')
  BY <1>2 DEF Held, InWork, InDoubt
<1>5. ASSUME Clean PROVE BooksKept(order, bills, good', coin', closer')
  <2>1. PICK x, y, gd, gd2 : x = closer /\ y = closer' /\ gd = good /\ gd2 = good'
    OBVIOUS
  <2>2. /\ BooksKept(order, bills, gd, coin, x) /\ Tables(order, bills, gd, coin)
        /\ gd \in GoodTable
    BY <1>5, <2>1, CleanFacts, CloseFacts
  <2>3. x.seen.sales = gd[x.row.good].sales
    BY <1>1, <1>5, <2>1, CleanFacts, CalmFacts DEF Held
  <2>4. PICK h, n : /\ h \in Goods /\ h = x.row.good /\ n = x.seen.sales + x.row.count
                     /\ gd2 = [gd EXCEPT ![h].sales = n]
    BY <1>1, <2>1 DEF sales
  <2>5. \A g \in Goods : /\ gd2[g].sales = IF g = h THEN n ELSE gd[g].sales
                         /\ gd2[g].stock = gd[g].stock
    BY <2>2, <2>4 DEF GoodTable
  <2>6. \A g \in Goods : gd[g].sales \in Nat
    BY <2>2 DEF GoodTable
  <2>7. \A g \in Goods :
          /\ gd2[g].sales = gd[g].sales + (IF x.row.good = g THEN x.row.count ELSE 0)
          /\ gd2[g].stock = gd[g].stock
    BY <2>3, <2>4, <2>5, <2>6
  <2>8. x.at = "sales" /\ x.row \in Row /\ y.at \in AtEase
    BY <1>1, <1>2, <2>1 DEF AtEase
  <2>9. BooksKept(order, bills, gd2, coin, y)
    BY <2>2, <2>7, <2>8, EntrySold
  <2>. QED BY <1>3, <2>1, <2>9
<1>6. NoRicher(closer, coin, closer', coin')
  BY <1>1, <1>2, <1>3, NoAward DEF Confirming, Rebating
<1>. QED BY <1>1, <1>2, <1>3, <1>4, <1>5, <1>6, StatementKept
         DEF Confirming, InDoubt, InWork, Rebating

LEMMA BooksRept ==
  ASSUME CloseInv, CloseInv', BooksInv, addGoodRept
  PROVE  BooksInv'
<1>1. closer.at = "rept" /\ closer \in Amid
  BY AmidFacts DEF addGoodRept, Confirming
<1>2. /\ closer'.at = "rebate" /\ closer'.row = closer.row
      /\ SameTask(closer, closer') /\ closer' # NotClosing
  <2>1. Goto("rebate")
    BY DEF addGoodRept
  <2>. QED BY <1>1, <2>1, GoneFields
<1>3. UNCHANGED <<coin, good, order, bills, tx, faults, overlap>>
  BY DEF addGoodRept
<1>4. Held(closer', order, good')
  BY <1>2 DEF Held, InWork, InDoubt
<1>5. ASSUME Clean PROVE BooksKept(order, bills, good', coin', closer')
  <2>1. PICK x, y : x = closer /\ y = closer'
    OBVIOUS
  <2>2. BooksKept(order, bills, good, coin, x) /\ SameFreeze(coin, coin)
    BY <1>5, <2>1, CleanFacts, SameLedger
  <2>3. x.at \in AtEase /\ y.at \in AtEase
    BY <1>1, <1>2, <2>1 DEF AtEase
  <2>4. BooksKept(order, bills, good, coin, y)
    BY <2>2, <2>3, EntryNone
  <2>. QED BY <1>3, <2>1, <2>4
<1>6. NoRicher(closer, coin, closer', coin')
  BY <1>1, <1>2, <1>3, NoAward DEF Confirming, Rebating
<1>. QED BY <1>1, <1>2, <1>3, <1>4, <1>5, <1>6, StatementKept
         DEF Confirming, InDoubt, InWork, Rebating

\* A credit moves no frozen money.
LEMMA CreditMoney ==
  ASSUME CloseInv, NEW v \in Users \cup {Nobody}, NEW n \in Nat, NEW w \in Nat,
         coin' = Post(coin, v, n, 0, w)
  PROVE  /\ SameFreeze(coin, coin')
         /\ w = 0 => \A u \in Users : coin'[u].award = coin[u].award
<1>1. PICK l \in Ledgers, z \in Int : l = coin /\ z = 0
  BY CloseFacts
<1>2. PICK m : m = coin' /\ m = Post(l, v, n, z, w)
  BY <1>1
<1>3. n \in Int /\ w \in Int
  OBVIOUS
<1>4. SameFreeze(l, m)
  BY <1>1, <1>2, <1>3, PostNoFreeze
<1>5. ASSUME w = 0 PROVE SameAwards(l, m)
  BY <1>2, <1>3, <1>5, PostAward
<1>. QED BY <1>1, <1>2, <1>4, <1>5 DEF SameAwards

\* A credit of the confirmation in hand: nothing is booked, and the books do
\* not speak of it.
LEMMA BooksCredit ==
  ASSUME CloseInv, CloseInv', BooksInv, closer \in Amid,
         UNCHANGED <<good, order, bills, tx, faults, overlap>>,
         SameTask(closer, closer'), closer' # NotClosing,
         \/ /\ closer.at = "pay" /\ closer'.at = "setSuccess"
            /\ closer'.order = closer.order /\ closer'.seen = closer.seen
         \/ /\ closer.at \in {"rebate", "levelOne", "levelTwo"}
            /\ closer'.at \in {"levelOne", "levelTwo", "next"},
         closer'.at = "setSuccess" => closer'.row = closer.row,
         SameFreeze(coin, coin'), NoRicher(closer, coin, closer', coin')
  PROVE  BooksInv'
<1>1. PICK x, y, cn2 : x = closer /\ y = closer' /\ cn2 = coin'
  OBVIOUS
<1>2. ASSUME ~overlap PROVE Held(y, order, good)
  <2>1. Held(x, order, good)
    BY <1>1, <1>2, CalmFacts
  <2>. QED BY <1>1, <2>1 DEF Held, InWork, InDoubt
<1>3. ASSUME Clean PROVE BooksKept(order, bills, good, cn2, y)
  <2>1. BooksKept(order, bills, good, coin, x) /\ SameFreeze(coin, cn2)
    BY <1>1, <1>3, CleanFacts
  <2>2. \/ x.at \in AtEase /\ y.at \in AtEase
        \/ /\ x.at \in {"readStock", "writeStock"} /\ y.at \in {"readStock", "writeStock"}
           /\ x.row = y.row
        \/ /\ x.at \in {"pay", "setSuccess"} /\ y.at \in {"pay", "setSuccess"}
           /\ x.order = y.order
    BY <1>1 DEF AtEase
  <2>. QED BY ONLY <2>1, <2>2, EntryNone
<1>4. closer.at \in Refunding \cup Confirming
  BY DEF Confirming
<1>. QED BY <1>1, <1>2, <1>3, <1>4, StatementKept DEF InDoubt, InWork, Rebating

LEMMA BooksPay ==
  ASSUME CloseInv, CloseInv', BooksInv, pay
  PROVE  BooksInv'
<1>1. closer.at = "pay" /\ closer \in Amid /\ closer.row.total \in Nat
  BY AmidFacts DEF pay, Confirming
<1>2. Goto("setSuccess")
  BY DEF pay
<1>3. /\ closer'.at = "setSuccess" /\ closer'.order = closer.order
      /\ closer'.row = closer.row /\ closer'.seen = closer.seen
      /\ SameTask(closer, closer') /\ closer' # NotClosing
  BY <1>1, <1>2, GoneFields
<1>4. UNCHANGED <<good, order, bills, tx, faults, overlap>>
  BY DEF pay, Credit
<1>5. SameFreeze(coin, coin') /\ \A u \in Users : coin'[u].award = coin[u].award
  <2>1. PICK v \in Users \cup {Nobody}, n \in Nat, w \in Nat :
          w = 0 /\ coin' = Post(coin, v, n, 0, w)
    BY <1>1 DEF pay, Credit, Amid
  <2>. QED BY <2>1, CreditMoney
<1>6. NoRicher(closer, coin, closer', coin')
  BY <1>1, <1>3, <1>5, NoAward DEF Confirming, Rebating
<1>. QED BY <1>1, <1>3, <1>4, <1>5, <1>6, BooksCredit

LEMMA BooksRebate ==
  ASSUME CloseInv, CloseInv', BooksInv, rebate
  PROVE  BooksInv'
<1>1. /\ closer.at = "rebate" /\ closer \in Amid /\ closer.row.total \in Nat
      /\ closer.row.user \in Users
  BY AmidFacts DEF rebate, Confirming
<1>2. Goto("levelOne")
  BY DEF rebate
<1>3. /\ closer'.at = "levelOne" /\ closer'.order = closer.order
      /\ closer'.row = closer.row /\ closer'.seen = closer.seen
      /\ SameTask(closer, closer') /\ closer' # NotClosing
  BY <1>1, <1>2, GoneFields
<1>4. UNCHANGED <<good, order, bills, tx, faults, overlap>>
  BY DEF rebate, Credit
<1>5. PICK v \in Users \cup {Nobody}, z \in Nat, n \in Nat :
        /\ v = closer.row.user /\ z = 0 /\ n = Percent(closer.row.total, BuyRebate)
        /\ coin' = Post(coin, v, z, 0, n)
  BY <1>1, PercentType, MallAssumption DEF rebate, Credit
<1>6. SameFreeze(coin, coin')
  BY <1>5, CreditMoney
<1>7. NoRicher(closer, coin, closer', coin')
  <2>1. PICK l, m, x, y :
          /\ l = coin /\ l \in Ledgers /\ m = coin' /\ x = closer /\ y = closer'
          /\ m = Post(l, v, z, z, n)
    BY <1>5, CloseFacts
  <2>2. z \in Int /\ n \in Int
    OBVIOUS
  <2>. SUFFICES ASSUME NEW u \in Users
                PROVE  m[u].award + Coming(y, u) <= l[u].award + Coming(x, u)
    BY <2>1 DEF NoRicher
  <2>3. /\ m[u].available + m[u].freeze =
             l[u].available + l[u].freeze + (IF u = v THEN z + z ELSE 0)
        /\ m[u].award = l[u].award + (IF u = v THEN n ELSE 0)
    BY <2>1, <2>2, PostRow
  <2>4. Coming(x, u) = (IF u = v THEN n ELSE 0) /\ Coming(y, u) = 0
    BY <1>1, <1>3, <1>5, <2>1 DEF Coming, Rebating
  <2>5. l[u].award \in Nat
    BY <2>1 DEF Ledgers, Balance
  <2>. QED BY <2>3, <2>4, <2>5
<1>. QED BY <1>1, <1>3, <1>4, <1>6, <1>7, BooksCredit

LEMMA InviterType ==
  ASSUME NEW v \in Users \cup {Nobody}
  PROVE  InviterOf(v) \in Users \cup {Nobody}
  BY MallAssumption DEF InviterOf

LEMMA BooksLevelOne ==
  ASSUME CloseInv, CloseInv', BooksInv, levelOne
  PROVE  BooksInv'
<1>1. /\ closer.at = "levelOne" /\ closer \in Amid /\ closer.row.total \in Nat
      /\ closer.row.user \in Users
  BY AmidFacts DEF levelOne, Confirming
<1>2. Goto("levelTwo")
  BY DEF levelOne
<1>3. /\ closer'.at = "levelTwo" /\ SameTask(closer, closer') /\ closer' # NotClosing
  BY <1>1, <1>2, GoneFields
<1>4. UNCHANGED <<good, order, bills, tx, faults, overlap>>
  BY DEF levelOne, Credit
<1>5. SameFreeze(coin, coin') /\ \A u \in Users : coin'[u].award = coin[u].award
  <2>1. PICK v \in Users \cup {Nobody}, n \in Nat, w \in Nat :
          /\ v = InviterOf(closer.row.user) /\ n = Percent(closer.row.total, OneLevel)
          /\ w = 0 /\ coin' = Post(coin, v, n, 0, w)
    BY <1>1, InviterType, PercentType, MallAssumption DEF levelOne, Credit
  <2>. QED BY <2>1, CreditMoney
<1>6. NoRicher(closer, coin, closer', coin')
  BY <1>1, <1>3, <1>5, NoAward DEF Confirming, Rebating
<1>. QED BY <1>1, <1>3, <1>4, <1>5, <1>6, BooksCredit

LEMMA BooksLevelTwo ==
  ASSUME CloseInv, CloseInv', BooksInv, levelTwo
  PROVE  BooksInv'
<1>1. /\ closer.at = "levelTwo" /\ closer \in Amid /\ closer.row.total \in Nat
      /\ closer.row.user \in Users
  BY AmidFacts DEF levelTwo, Confirming
<1>2. closer'.at = "next" /\ SameTask(closer, closer') /\ closer' # NotClosing
  BY BackFields DEF levelTwo, Back
<1>3. UNCHANGED <<good, order, bills, tx, faults, overlap>>
  BY DEF levelTwo, Credit
<1>4. SameFreeze(coin, coin') /\ \A u \in Users : coin'[u].award = coin[u].award
  <2>1. PICK v \in Users \cup {Nobody}, n \in Nat, w \in Nat :
          /\ v = InviterOf(InviterOf(closer.row.user))
          /\ n = Percent(closer.row.total, TwoLevel)
          /\ w = 0 /\ coin' = Post(coin, v, n, 0, w)
    BY <1>1, InviterType, PercentType, MallAssumption DEF levelTwo, Credit
  <2>. QED BY <2>1, CreditMoney
<1>5. NoRicher(closer, coin, closer', coin')
  BY <1>1, <1>2, <1>4, NoAward DEF Confirming, Rebating
<1>. QED BY <1>1, <1>2, <1>3, <1>4, <1>5, BooksCredit

\* The rebate is no more than the price.
LEMMA PercentAtMost ==
  ASSUME NEW n \in Nat, NEW r \in Nat, r <= 100
  PROVE  Percent(n, r) <= n
<1>1. PICK k \in Nat : k = 100 - r
  OBVIOUS
<1>2. n * k \in Nat /\ n * r \in Nat
  OBVIOUS
<1>3. n * r + n * k = n * 100
  BY <1>1
<1>4. n * r <= 100 * n
  BY <1>2, <1>3
<1>5. ASSUME NEW m \in Nat, m <= 100 * n PROVE (m + 50) \div 100 <= n
  BY <1>5
<1>. QED BY <1>2, <1>4, <1>5 DEF Percent

\* A statement that books the order in hand.
LEMMA BooksBilled ==
  ASSUME CloseInv, CloseInv', BooksInv, closer \in Amid,
         closer.at \in {"refund", "take"},
         UNCHANGED <<good, order, tx, faults, overlap>>,
         SameTask(closer, closer'), closer' # NotClosing,
         closer.at = "refund" => closer'.at = "setStatus",
         closer.at = "take" => closer'.at = "pay",
         closer'.order = closer.order, closer'.row = closer.row,
         closer'.seen = closer.seen,
         bills'[closer.order].confirmed + bills'[closer.order].refunded =
           bills[closer.order].confirmed + bills[closer.order].refunded + 1,
         \A z \in Orders : z # closer.order => bills'[z] = bills[z],
         Clean => BooksKept(order, bills', good, coin', closer'),
         BuyRebate <= 100 => NoRicher(closer, coin, closer', coin')
  PROVE  BooksInv'
<1>1. PICK x, y, b2, cn2, o, ord, b, cn, f :
        /\ x = closer /\ y = closer' /\ b2 = bills' /\ cn2 = coin'
        /\ o = closer.order /\ ord = order /\ b = bills /\ cn = coin /\ f = faults
  OBVIOUS
<1>2. /\ closer.at \in Refunding \cup Confirming /\ Table(ord) /\ b \in Bills
      /\ b2 \in Bills /\ cn \in Ledgers /\ cn2 \in Ledgers /\ f \in Nat
      /\ o \in DOMAIN ord /\ x.row \in Row
  <2>1. closer.at \in Refunding \cup Confirming
    BY DEF Refunding, Confirming
  <2>2. f \in Nat
    BY <1>1, CloseFacts, ShopCloseAssumption
  <2>. QED BY <1>1, <2>1, <2>2, CloseFacts, NextFacts, AmidFacts
<1>3. ASSUME ~overlap PROVE Held(y, ord, good)
  <2>1. Held(x, ord, good)
    BY <1>1, <1>3, CalmFacts
  <2>2. y.at \in {"setStatus", "pay"} /\ (y.at = "pay" => x.at = "take")
    BY <1>1
  <2>. QED BY <1>1, <2>1, <2>2 DEF Held, InWork, InDoubt
<1>4. ASSUME ~overlap PROVE Booked(ord, b2, y) /\ Extras(ord, b2, y, f)
  <2>1. Booked(ord, b, x) /\ Extras(ord, b, x, f)
    BY <1>1, <1>4, CalmFacts
  <2>2. x.at \notin InDoubt /\ y.at \in InDoubt /\ y.order = o
    BY <1>1 DEF InDoubt
  <2>3. b2[o].confirmed + b2[o].refunded = b[o].confirmed + b[o].refunded + 1
    BY <1>1
  <2>4. \A z \in Orders : z # o => b2[z] = b[z]
    BY <1>1
  <2>. QED BY ONLY <1>2, <2>1, <2>2, <2>3, <2>4, OneBooked
<1>5. ASSUME Clean, BuyRebate <= 100 PROVE Covered(y, ord, cn2)
  <2>1. Covered(x, ord, cn)
    BY <1>1, <1>2, <1>5, CleanFacts, AmidFacts
  <2>2. SameTask(x, y) /\ Closing(ord, ord) /\ NoRicher(x, cn, y, cn2)
    BY <1>1, <1>5, ClosingSame
  <2>3. (x.at \in Rebating => x.row \in Row) /\ (y.at \in Rebating => y.row \in Row)
    BY <1>1, <1>2
  <2>4. x.at \in InWork => y.at \in InWork /\ y.order = x.order
    BY <1>1 DEF InWork, InDoubt
  <2>. QED BY ONLY <1>2, <2>1, <2>2, <2>3, <2>4, CoveredKept
<1>6. Closing(order, order')
  BY ClosingSame
<1>. QED BY <1>1, <1>2, <1>3, <1>4, <1>5, <1>6, StatementDone

LEMMA BooksTake ==
  ASSUME CloseInv, CloseInv', BooksInv, take
  PROVE  BooksInv'
<1>1. /\ closer.at = "take" /\ closer \in Amid /\ closer.row \in Row
      /\ closer.row.total \in Nat /\ closer.row.user \in Users
      /\ closer.order \in DOMAIN order /\ closer.order \in Orders
  BY AmidFacts DEF take, Confirming
<1>2. Goto("pay")
  BY DEF take
<1>3. /\ closer'.at = "pay" /\ closer'.order = closer.order
      /\ closer'.row = closer.row /\ closer'.seen = closer.seen
      /\ SameTask(closer, closer') /\ closer' # NotClosing
  BY <1>1, <1>2, GoneFields
<1>4. UNCHANGED <<good, order, tx, faults, overlap>>
  BY DEF take
<1>5. PICK x, y, ord, b2, cn2, o :
        /\ x = closer /\ y = closer' /\ ord = order /\ b2 = bills' /\ cn2 = coin'
        /\ o = closer.order
  OBVIOUS
<1>6. PICK b \in Bills, l \in Ledgers : b = bills /\ l = coin
  BY CloseFacts
<1>7. /\ b2 \in Bills /\ b2[o].confirmed = b[o].confirmed + 1
      /\ b2[o].refunded = b[o].refunded
      /\ b2[o].confirmed + b2[o].refunded = b[o].confirmed + b[o].refunded + 1
      /\ \A z \in Orders : z # o => b2[z] = b[z]
  <2>1. o \in Orders /\ b2 = [b EXCEPT ![o].confirmed = b[o].confirmed + 1]
    BY <1>1, <1>5, <1>6 DEF take
  <2>2. Confirms(b, b2, o)
    BY <2>1, ConfirmedOnce
  <2>. QED BY <2>2 DEF Confirms
<1>8. PICK v \in Users \cup {Nobody}, n \in Nat, z \in Int, w \in Int :
        /\ v = closer.row.user /\ n = closer.row.total /\ z = 0 /\ w = 0 - n
        /\ cn2 = Post(l, v, z, z, w)
  BY <1>1, <1>5, <1>6 DEF take
<1>9. SameFreeze(l, cn2)
  BY <1>8, PostNoFreeze
<1>10. ASSUME BuyRebate <= 100 PROVE NoRicher(x, l, y, cn2)
  <2>. SUFFICES ASSUME NEW u \in Users
                PROVE  cn2[u].award + Coming(y, u) <= l[u].award + Coming(x, u)
    BY DEF NoRicher
  <2>1. /\ cn2[u].available + cn2[u].freeze =
             l[u].available + l[u].freeze + (IF u = v THEN z + z ELSE 0)
        /\ cn2[u].award = l[u].award + (IF u = v THEN w ELSE 0)
    BY <1>8, PostRow
  <2>2. PICK p \in Nat : p = Percent(n, BuyRebate) /\ p <= n
    <3>1. BuyRebate \in Nat
      BY MallAssumption
    <3>. QED BY <1>10, <3>1, PercentType, PercentAtMost
  <2>3. Coming(x, u) = 0 /\ Coming(y, u) = (IF u = v THEN p ELSE 0)
    BY <1>1, <1>3, <1>5, <1>8, <2>2 DEF Coming, Rebating
  <2>4. l[u].award \in Nat
    BY DEF Ledgers, Balance
  <2>. QED BY <1>8, <2>1, <2>2, <2>3, <2>4
<1>11. ASSUME Clean PROVE BooksKept(ord, b2, good, cn2, y)
  <2>1. BooksKept(ord, b, good, l, x) /\ Tables(ord, b, good, l)
    BY <1>5, <1>6, <1>11, CleanFacts
  <2>2. x.at \in AtEase /\ o \in DOMAIN ord /\ y.at \in {"pay", "setSuccess"} /\ y.order = o
    BY <1>1, <1>3, <1>5 DEF AtEase
  <2>. QED BY <1>7, <1>9, <2>1, <2>2, EntryCharged
<1>12. bills'[closer.order].confirmed + bills'[closer.order].refunded =
         bills[closer.order].confirmed + bills[closer.order].refunded + 1
  BY <1>5, <1>6, <1>7
<1>13. \A z1 \in Orders : z1 # closer.order => bills'[z1] = bills[z1]
  BY <1>5, <1>6, <1>7
<1>14. Clean => BooksKept(order, bills', good, coin', closer')
  BY <1>5, <1>11
<1>15. BuyRebate <= 100 => NoRicher(closer, coin, closer', coin')
  BY <1>5, <1>6, <1>10
<1>. QED BY <1>1, <1>3, <1>4, <1>12, <1>13, <1>14, <1>15, BooksBilled

LEMMA BooksRefund ==
  ASSUME CloseInv, CloseInv', BooksInv, refund
  PROVE  BooksInv'
<1>1. /\ closer.at = "refund" /\ closer \in Amid /\ closer.row \in Row
      /\ closer.row.total \in Nat /\ closer.row.user \in Users
      /\ closer.order \in DOMAIN order /\ closer.order \in Orders
  BY AmidFacts DEF refund, Refunding
<1>2. Goto("setStatus")
  BY DEF refund
<1>3. /\ closer'.at = "setStatus" /\ closer'.order = closer.order
      /\ closer'.row = closer.row /\ closer'.seen = closer.seen
      /\ SameTask(closer, closer') /\ closer' # NotClosing
  BY <1>1, <1>2, GoneFields
<1>4. UNCHANGED <<good, order, tx, faults, overlap>>
  BY DEF refund
<1>5. PICK x, y, ord, b2, cn2, o :
        /\ x = closer /\ y = closer' /\ ord = order /\ b2 = bills' /\ cn2 = coin'
        /\ o = closer.order
  OBVIOUS
<1>6. PICK b \in Bills, l \in Ledgers : b = bills /\ l = coin
  BY CloseFacts
<1>7. /\ b2 \in Bills /\ b2[o].refunded = b[o].refunded + 1
      /\ b2[o].confirmed = b[o].confirmed
      /\ b2[o].confirmed + b2[o].refunded = b[o].confirmed + b[o].refunded + 1
      /\ \A z \in Orders : z # o => b2[z] = b[z]
  <2>1. o \in Orders /\ b2 = [b EXCEPT ![o].refunded = b[o].refunded + 1]
    BY <1>1, <1>5, <1>6 DEF refund
  <2>2. Refunds(b, b2, o)
    BY <2>1, RefundedOnce
  <2>. QED BY <2>2 DEF Refunds
<1>8. PICK v \in Users \cup {Nobody}, n \in Nat, k \in Int, z \in Int :
        /\ v = closer.row.user /\ n = closer.row.total /\ z = 0 /\ k = 0 - n
        /\ cn2 = Post(l, v, n, k, z)
  BY <1>1, <1>5, <1>6 DEF refund
<1>9. \A u \in Users : cn2[u].award = l[u].award
  <2>1. n \in Int
    OBVIOUS
  <2>2. SameAwards(l, cn2)
    BY <1>8, <2>1, PostAward
  <2>. QED BY <2>2 DEF SameAwards
<1>10. NoRicher(x, l, y, cn2)
  <2>1. \A u \in Users : Coming(y, u) = Coming(x, u)
    BY <1>1, <1>3, <1>5 DEF Coming, Rebating
  <2>2. x.at \in Rebating => x.row \in Row
    BY <1>1, <1>5
  <2>. QED BY ONLY <1>9, <2>1, <2>2, l \in Ledgers, SameAward
<1>11. ASSUME Clean PROVE BooksKept(ord, b2, good, cn2, y)
  <2>1. BooksKept(ord, b, good, l, x) /\ Tables(ord, b, good, l)
    BY <1>5, <1>6, <1>11, CleanFacts
  <2>2. x.at \in AtEase /\ o \in DOMAIN ord /\ y.at = "setStatus" /\ y.order = o
    BY <1>1, <1>3, <1>5 DEF AtEase
  <2>3. ord[o] = x.row /\ NotClosed(ord[o])
    BY <1>1, <1>5, <1>11, CleanFacts, CalmFacts DEF Held, InWork
  <2>4. ASSUME NEW u \in Users
        PROVE  cn2[u].freeze = l[u].freeze - (IF ord[o].user = u THEN ord[o].total ELSE 0)
    <3>1. n \in Int
      OBVIOUS
    <3>2. Post(l, v, n, k, z)[u].freeze = l[u].freeze + (IF u = v THEN k ELSE 0)
      BY <3>1, PostFreeze
    <3>3. l[u].freeze \in Nat /\ ord[o].user = v /\ ord[o].total = n
      BY <1>5, <1>8, <2>3 DEF Ledgers, Balance
    <3>. QED BY <1>8, <3>2, <3>3
  <2>. QED BY <1>7, <2>1, <2>2, <2>3, <2>4, EntryRefund
<1>12. bills'[closer.order].confirmed + bills'[closer.order].refunded =
         bills[closer.order].confirmed + bills[closer.order].refunded + 1
  BY <1>5, <1>6, <1>7
<1>13. \A z1 \in Orders : z1 # closer.order => bills'[z1] = bills[z1]
  BY <1>5, <1>6, <1>7
<1>14. Clean => BooksKept(order, bills', good, coin', closer')
  BY <1>5, <1>11
<1>15. NoRicher(closer, coin, closer', coin')
  BY <1>5, <1>6, <1>10
<1>. QED BY <1>1, <1>3, <1>4, <1>12, <1>13, <1>14, <1>15, BooksBilled

\* A statement that closes the order in hand, which was booked before.
LEMMA BooksClosed ==
  ASSUME CloseInv, CloseInv', BooksInv, closer.at \in {"setStatus", "setSuccess"},
         UNCHANGED <<coin, good, bills, tx, faults, overlap>>,
         SameTask(closer, closer'), closer' # NotClosing,
         closer'.row = closer.row, closer'.seen = closer.seen,
         closer.at = "setStatus" => closer'.at = "readStock",
         closer.at = "setSuccess" => closer'.at = "sales",
         Alters(order, order', closer.order), ~NotClosed(order'[closer.order]),
         Clean => BooksKept(order', bills, good, coin, closer')
  PROVE  BooksInv'
<1>1. PICK x, y, ord, ord2, b, f, o, cn :
        /\ x = closer /\ y = closer' /\ ord = order /\ ord2 = order' /\ b = bills
        /\ f = faults /\ o = closer.order /\ cn = coin
  OBVIOUS
<1>2. /\ closer.at \in Refunding \cup Confirming /\ Table(ord) /\ b \in Bills
      /\ cn \in Ledgers /\ f \in Nat /\ x.row \in Row
  <2>1. closer.at \in Refunding \cup Confirming
    BY DEF Refunding, Confirming
  <2>2. f \in Nat
    BY <1>1, CloseFacts, ShopCloseAssumption
  <2>. QED BY <1>1, <2>1, <2>2, CloseFacts, AmidFacts
<1>3. Alters(ord, ord2, o) /\ ~NotClosed(ord2[o]) /\ Closing(ord, ord2)
  BY <1>1, ClosingOne
<1>4. ASSUME ~overlap PROVE Held(y, ord2, good)
  <2>1. Held(x, ord, good)
    BY <1>1, <1>4, CalmFacts
  <2>. QED BY <1>1, <2>1 DEF Held, InWork, InDoubt
<1>5. ASSUME ~overlap PROVE Booked(ord2, b, y) /\ Extras(ord2, b, y, f)
  <2>1. Booked(ord, b, x) /\ Extras(ord, b, x, f)
    BY <1>1, <1>5, CalmFacts
  <2>2. x.at \in InDoubt /\ x.order = o /\ y.at \notin InDoubt
    BY <1>1 DEF InDoubt
  <2>3. NotClosed(ord[o])
    <3>1. Held(x, ord, good) /\ x.at \in InWork
      BY <1>1, <1>5, <2>2, CalmFacts DEF InWork
    <3>. QED BY <2>2, <3>1 DEF Held
  <2>. QED BY ONLY <1>2, <1>3, <2>1, <2>2, <2>3, OneClosed
<1>6. ASSUME Clean, BuyRebate <= 100 PROVE Covered(y, ord2, cn)
  <2>1. Covered(x, ord, cn)
    BY <1>1, <1>2, <1>6, CleanFacts, AmidFacts
  <2>2. SameTask(x, y)
    BY <1>1
  <2>3. NoRicher(x, cn, y, cn)
    <3>1. closer.at \in Rebating <=> closer'.at \in Rebating
      BY DEF Rebating
    <3>2. NoRicher(closer, coin, closer', coin')
      BY <1>2, <3>1, NoAward
    <3>. QED BY <1>1, <3>2
  <2>4. (x.at \in Rebating => x.row \in Row) /\ (y.at \in Rebating => y.row \in Row)
    BY <1>1, <1>2
  <2>5. x.at \in InWork => ~NotClosed(ord2[x.order])
    BY <1>1, <1>3
  <2>. QED BY ONLY <1>2, <1>3, <2>1, <2>2, <2>3, <2>4, <2>5, CoveredKept
<1>. QED BY <1>1, <1>2, <1>3, <1>4, <1>5, <1>6, StatementDone

LEMMA BooksSetStatus ==
  ASSUME CloseInv, CloseInv', BooksInv, setStatus
  PROVE  BooksInv'
<1>1. /\ closer.at = "setStatus" /\ closer \in Amid
      /\ closer.order \in DOMAIN order
  BY AmidFacts DEF setStatus, Refunding
<1>2. Goto("readStock")
  BY DEF setStatus
<1>3. /\ closer'.at = "readStock" /\ closer'.row = closer.row
      /\ closer'.seen = closer.seen /\ SameTask(closer, closer') /\ closer' # NotClosing
  BY <1>1, <1>2, GoneFields
<1>4. UNCHANGED <<coin, good, bills, tx, faults, overlap>>
  BY DEF setStatus
<1>5. PICK x, y, ord, ord2, o, b, gd, cn :
        /\ x = closer /\ y = closer' /\ ord = order /\ ord2 = order'
        /\ o = closer.order /\ b = bills /\ gd = good /\ cn = coin
  OBVIOUS
<1>6. Table(ord) /\ o \in DOMAIN ord
  BY <1>1, <1>5, CloseFacts
<1>7. /\ Alters(ord, ord2, o) /\ ~Live(ord2[o])
      /\ ord2[o].status \in {"CANCEL", ord[o].status}
  <2>1. CASE closer.phase = "UNSEND"
    <3>1. PICK st \in {"UNSEND", "SENT", "SUCCESS", "CANCEL"} :
            st = "CANCEL" /\ ord2 = [ord EXCEPT ![o].status = st]
      BY <1>5, <2>1 DEF setStatus
    <3>2. Alters(ord, ord2, o)
      BY <1>6, <3>1, StatusAlters
    <3>3. ord2[o].status = st
      BY <1>6, <3>1, StatusFields
    <3>. QED BY <3>1, <3>2, <3>3 DEF Live
  <2>2. CASE closer.phase # "UNSEND"
    <3>1. PICK st \in {"NORMAL", "RETURNING", "RETURNED"} :
            st = "RETURNED" /\ ord2 = [ord EXCEPT ![o].returned = st]
      BY <1>5, <2>2 DEF setStatus
    <3>2. Alters(ord, ord2, o)
      BY <1>6, <3>1, ReturnedAlters
    <3>3. ord2[o].returned = st /\ ord2[o].status = ord[o].status
      BY <1>6, <3>1, ReturnedFields
    <3>. QED BY <3>1, <3>2, <3>3 DEF Live
  <2>. QED BY <2>1, <2>2
<1>8. Alters(ord, ord2, o) /\ ~NotClosed(ord2[o])
  BY <1>7 DEF Live, NotClosed
<1>9. ASSUME Clean PROVE BooksKept(ord2, b, gd, cn, y)
  <2>1. BooksKept(ord, b, gd, cn, x) /\ Tables(ord, b, gd, cn)
    BY <1>5, <1>9, CleanFacts
  <2>2. ord[o] = x.row /\ NotClosed(ord[o])
    <3>1. Held(x, ord, gd) /\ x.at \in InWork
      BY <1>1, <1>5, <1>9, CleanFacts, CalmFacts DEF InWork, InDoubt
    <3>. QED BY <1>5, <3>1 DEF Held
  <2>3. /\ x.at = "setStatus" /\ x.order = o /\ y.at \in {"readStock", "writeStock"}
        /\ SameDeal(y.row, ord[o])
    BY <1>1, <1>3, <1>5, <2>2 DEF SameDeal
  <2>4. ~Live(ord2[o]) /\ ord2[o].status # "SUCCESS"
    BY <1>7, <2>2 DEF NotClosed
  <2>. QED BY ONLY <1>8, <2>1, <2>2, <2>3, <2>4, EntryClosed
<1>10. Clean => BooksKept(order', bills, good, coin, closer')
  BY <1>5, <1>9
<1>11. Alters(order, order', closer.order) /\ ~NotClosed(order'[closer.order])
  BY <1>5, <1>8
<1>. QED BY <1>1, <1>3, <1>4, <1>10, <1>11, BooksClosed

LEMMA BooksSetSuccess ==
  ASSUME CloseInv, CloseInv', BooksInv, setSuccess
  PROVE  BooksInv'
<1>1. /\ closer.at = "setSuccess" /\ closer \in Amid
      /\ closer.order \in DOMAIN order
  BY AmidFacts DEF setSuccess, Confirming
<1>2. Goto("sales")
  BY DEF setSuccess
<1>3. /\ closer'.at = "sales" /\ closer'.row = closer.row
      /\ closer'.seen = closer.seen /\ SameTask(closer, closer') /\ closer' # NotClosing
  BY <1>1, <1>2, GoneFields
<1>4. UNCHANGED <<coin, good, bills, tx, faults, overlap>>
  BY DEF setSuccess
<1>5. PICK x, y, ord, ord2, o, b, gd, cn :
        /\ x = closer /\ y = closer' /\ ord = order /\ ord2 = order'
        /\ o = closer.order /\ b = bills /\ gd = good /\ cn = coin
  OBVIOUS
<1>6. Table(ord) /\ o \in DOMAIN ord
  BY <1>1, <1>5, CloseFacts
<1>7. /\ Alters(ord, ord2, o) /\ ord2[o].status = "SUCCESS"
      /\ ord2[o].returned = ord[o].returned
  <2>1. PICK st \in {"UNSEND", "SENT", "SUCCESS", "CANCEL"} :
          st = "SUCCESS" /\ ord2 = [ord EXCEPT ![o].status = st]
    BY <1>5 DEF setSuccess
  <2>2. Alters(ord, ord2, o)
    BY <1>6, <2>1, StatusAlters
  <2>3. ord2[o].status = st /\ ord2[o].returned = ord[o].returned
    BY <1>6, <2>1, StatusFields
  <2>. QED BY <2>1, <2>2, <2>3
<1>8. Alters(ord, ord2, o) /\ ~NotClosed(ord2[o])
  BY <1>7 DEF NotClosed
<1>9. ASSUME Clean PROVE BooksKept(ord2, b, gd, cn, y)
  <2>1. BooksKept(ord, b, gd, cn, x) /\ Tables(ord, b, gd, cn)
    BY <1>5, <1>9, CleanFacts
  <2>2. ord[o] = x.row /\ NotClosed(ord[o])
    <3>1. Held(x, ord, gd) /\ x.at \in InWork
      BY <1>1, <1>5, <1>9, CleanFacts, CalmFacts DEF InWork, InDoubt
    <3>. QED BY <1>5, <3>1 DEF Held
  <2>3. /\ x.at \in {"pay", "setSuccess"} /\ x.order = o /\ y.at = "sales"
        /\ SameDeal(y.row, ord[o])
    BY <1>1, <1>3, <1>5, <2>2 DEF SameDeal
  <2>4. Live(ord2[o]) /\ ord2[o].status = "SUCCESS"
    BY <1>7, <2>2 DEF NotClosed, Live
  <2>. QED BY ONLY <1>8, <2>1, <2>2, <2>3, <2>4, EntryFinished
<1>10. Clean => BooksKept(order', bills, good, coin, closer')
  BY <1>5, <1>9
<1>11. Alters(order, order', closer.order) /\ ~NotClosed(order'[closer.order])
  BY <1>5, <1>8
<1>. QED BY <1>1, <1>3, <1>4, <1>10, <1>11, BooksClosed

\* The closing moves on and nothing else happens.
LEMMA BooksMoved ==
  ASSUME CloseInv, CloseInv', BooksInv, UNCHANGED <<vars, faults>>,
         ~overlap' => ~overlap, closer.at \in AtEase, closer'.at \in AtEase,
         ~overlap' => /\ Alone(tx, closer') /\ Held(closer', order, good)
                      /\ Waiting(closer', order),
         Clean' /\ closer' # NotClosing /\ BuyRebate <= 100 =>
           Covered(closer', order, coin)
  PROVE  BooksInv'
<1>1. PICK q, x, y, ord, b, gd, cn, f :
        /\ q = tx /\ x = closer /\ y = closer' /\ ord = order /\ b = bills
        /\ gd = good /\ cn = coin /\ f = faults
  OBVIOUS
<1>2. UNCHANGED <<coin, good, order, bills, tx, faults>>
  BY DEF vars
<1>3. ASSUME ~overlap' PROVE Calm(q, y, ord, gd, b, f)
  <2>1. ReadNow(q, ord, gd) /\ Booked(ord, b, x) /\ Extras(ord, b, x, f)
    BY <1>1, <1>3, CalmFacts
  <2>2. Alone(q, y) /\ Held(y, ord, gd) /\ Waiting(y, ord)
    BY <1>1, <1>3
  <2>3. x.at \notin InDoubt /\ y.at \notin InDoubt
    BY <1>1 DEF AtEase, InDoubt
  <2>4. Booked(ord, b, y) /\ Extras(ord, b, y, f)
    BY <2>1, <2>3, NothingBooked
  <2>. QED BY <2>1, <2>2, <2>4 DEF Calm
<1>4. ASSUME Clean' PROVE BooksKept(ord, b, gd, cn, y)
  <2>1. Clean
    BY <1>2, <1>4 DEF Clean
  <2>2. BooksKept(ord, b, gd, cn, x) /\ SameFreeze(cn, cn)
    BY <1>1, <2>1, CleanFacts, SameLedger
  <2>3. x.at \in AtEase /\ y.at \in AtEase
    BY <1>1
  <2>. QED BY <2>2, <2>3, EntryNone
<1>. QED BY <1>1, <1>2, <1>3, <1>4 DEF BooksInv

\* Poverty is judged by the award balance alone between two orders.
LEMMA NothingComing ==
  ASSUME NEW x, x.at \in {"next", "refund", "take"}
  PROVE  \A u : Coming(x, u) = 0
  BY DEF Coming, Rebating

\* The price of an order that was not refunded is frozen.
LEMMA PriceFrozen ==
  ASSUME NEW ord, Table(ord), NEW b \in Bills, NEW gd, NEW cn, NEW x,
         BooksKept(ord, b, gd, cn, x), x.at = "refund",
         NEW o \in DOMAIN ord, NotClosed(ord[o])
  PROVE  ord[o].total <= cn[ord[o].user].freeze
<1>1. PICK p \in Orders : p = o
  BY DEF Table
<1>2. PICK u \in Users : u = ord[p].user
  BY <1>1 DEF Table, Row
<1>3. b[p].refunded = 0
  <2>1. b[p].refunded = Bit(In(ord, p) /\ ~Live(ord[p])) + Repaid(x, p)
    BY DEF BooksKept, OrderBook
  <2>2. Live(ord[p])
    BY <1>1 DEF NotClosed, Live
  <2>3. Repaid(x, p) = 0
    BY DEF Repaid, Bit
  <2>. QED BY <2>1, <2>2, <2>3 DEF Bit
<1>4. PICK w : w = FreezeW(ord, b, u)
  OBVIOUS
<1>5. \A y \in Orders : w[y] \in Nat
  BY <1>4, WeightTypes
<1>6. w[p] <= SumFunctionOnSet(w, Orders)
  BY <1>5, SumMember, MallAssumption
<1>7. w[p] = ord[p].total
  BY <1>1, <1>2, <1>3, <1>4 DEF FreezeW, In
<1>8. cn[u].freeze = SumFunctionOnSet(w, Orders)
  BY <1>4 DEF BooksKept, FreezeBook, Unrefunded, Total
<1>. QED BY <1>1, <1>2, <1>6, <1>7, <1>8

LEMMA BooksInsufficient ==
  ASSUME CloseInv, CloseInv', BooksInv, insufficient
  PROVE  BooksInv'
<1>1. closer.at \in {"refund", "take"}
  BY DEF insufficient
<1>2. /\ closer \in Amid /\ closer # NotClosing /\ closer.row \in Row
      /\ closer.row.total \in Nat /\ closer.row.user \in Users
      /\ closer.order \in DOMAIN order /\ Todo(closer, order)
  BY <1>1, AmidFacts DEF Refunding, Confirming
<1>3. closer'.at = "next" /\ SameTask(closer, closer') /\ closer' # NotClosing
  BY BackFields DEF insufficient, Back
<1>4. UNCHANGED <<vars, faults, overlap>>
  BY DEF insufficient
<1>5. PICK q, x, y, ord, gd, b, cn :
        /\ q = tx /\ x = closer /\ y = closer' /\ ord = order /\ gd = good
        /\ b = bills /\ cn = coin /\ cn \in Ledgers
  BY CloseFacts
<1>6. ASSUME ~overlap PROVE Alone(q, y) /\ Held(y, ord, gd) /\ Waiting(y, ord)
  <2>1. Alone(q, x) /\ x # NotClosing /\ Waiting(x, ord) /\ Todo(x, ord)
    BY <1>2, <1>5, <1>6, CalmFacts
  <2>2. Alone(q, y)
    BY <2>1, AloneKept
  <2>3. Waiting(y, ord)
    BY <1>3, <1>5, <2>1, ClosingSame, WaitingKept
  <2>4. Held(y, ord, gd)
    BY <1>3, <1>5 DEF Held, InWork, InDoubt
  <2>. QED BY <2>2, <2>3, <2>4
<1>7. ASSUME Clean, BuyRebate <= 100 PROVE Covered(y, ord, cn)
  <2>1. /\ Covered(x, ord, cn) /\ BooksKept(ord, b, gd, cn, x) /\ Held(x, ord, gd)
        /\ Table(ord) /\ b \in Bills
    BY <1>2, <1>5, <1>7, CleanFacts, CalmFacts, CloseFacts
  <2>2. ord[x.order] = x.row /\ NotClosed(x.row)
    BY <1>1, <1>5, <2>1 DEF Held, InWork
  <2>3. PICK u \in Users, n \in Nat : u = x.row.user /\ n = x.row.total
    BY <1>2, <1>5
  <2>4. cn[u].available \in Nat /\ cn[u].freeze \in Nat /\ cn[u].award \in Nat
    BY <1>5 DEF Ledgers, Balance
  <2>5. CASE x.at = "refund"
    <3>1. ~(/\ cn[u].available + n >= 0 /\ cn[u].freeze + (0 - n) >= 0
            /\ cn[u].award + 0 >= 0)
      BY <1>5, <2>3, <2>5 DEF insufficient, Can, CanChange
    <3>2. x.order \in DOMAIN ord /\ NotClosed(ord[x.order])
      BY <1>2, <1>5, <2>2
    <3>3. ord[x.order].total <= cn[ord[x.order].user].freeze
      BY <2>1, <2>5, <3>2, PriceFrozen
    <3>4. n <= cn[u].freeze
      BY <2>2, <2>3, <3>3
    <3>. QED BY <2>4, <3>1, <3>4
  <2>6. CASE x.at = "take"
    <3>1. ~(/\ cn[u].available + 0 >= 0 /\ cn[u].freeze + 0 >= 0
            /\ cn[u].award + (0 - n) >= 0)
      BY <1>5, <2>3, <2>6 DEF insufficient, Can, CanChange
    <3>2. cn[u].award + 0 < n
      BY <2>4, <3>1
    <3>3. (\A v : Coming(x, v) = 0) /\ (\A v : Coming(y, v) = 0)
      BY <1>3, <1>5, <2>6, NothingComing
    <3>4. Poor(y, cn, x.row)
      BY <2>3, <3>2, <3>3 DEF Poor
    <3>5. x.row.status = "SENT" /\ x.row.returned = "NORMAL"
      BY <2>1, <2>6 DEF Held
    <3>6. \A r : Poor(x, cn, r) <=> Poor(y, cn, r)
      BY <3>3 DEF Poor
    <3>. QED BY <1>3, <1>5, <2>1, <2>2, <2>6, <3>4, <3>5, <3>6 DEF Covered, SameTask
  <2>. QED BY <1>1, <1>5, <2>5, <2>6
<1>8. Clean' => Clean
  BY <1>4 DEF Clean
<1>. QED BY <1>1, <1>3, <1>4, <1>5, <1>6, <1>7, <1>8, BooksMoved DEF AtEase

LEMMA BooksNextList ==
  ASSUME CloseInv, CloseInv', BooksInv, nextList
  PROVE  BooksInv'
<1>1. /\ closer.at = "next" /\ closer.todo = {} /\ closer \in Between
      /\ closer.phase \in Phase /\ closer # NotClosing
  <2>1. closer.at = "next" /\ closer.todo = {} /\ closer \in Between
    BY CloseFacts, CloserFacts DEF nextList
  <2>. QED BY <2>1 DEF Between, NotClosing
<1>2. UNCHANGED <<vars, faults, overlap>>
  BY DEF nextList
<1>3. PICK q, x, y, ord, gd, cn :
        /\ q = tx /\ x = closer /\ y = closer' /\ ord = order /\ gd = good
        /\ cn = coin
  OBVIOUS
<1>4. CASE closer.phase = "SENT"
  <2>1. closer' = NotClosing /\ closer'.at = "none"
    BY <1>4 DEF nextList, NotClosing
  <2>2. Alone(q, y) /\ Held(y, ord, gd) /\ Waiting(y, ord)
    BY <1>3, <2>1 DEF Alone, Held, Waiting, InWork, InDoubt
  <2>. QED BY <1>1, <1>2, <1>3, <2>1, <2>2, BooksMoved DEF AtEase
<1>5. CASE closer.phase # "SENT"
  <2>1. closer' = [closer EXCEPT !.phase = Following[closer.phase],
                                 !.todo = Listed(closer.seller, Following[closer.phase])]
    BY <1>5 DEF nextList
  <2>2. /\ y.at = "next" /\ y.seller = x.seller /\ y.phase = Following[x.phase]
        /\ y.todo = Listed(x.seller, Following[x.phase])
    BY <1>1, <1>3, <2>1 DEF Between
  <2>3. \/ x.phase = "UNSEND" /\ y.phase = "RETURNING"
        \/ x.phase = "RETURNING" /\ y.phase = "SENT"
    BY <1>1, <1>3, <1>5, <2>2 DEF Phase, Following
  <2>4. \A o \in DOMAIN ord :
          o \in y.todo <=>
            /\ Owner[ord[o].good] = x.seller
            /\ IF y.phase = "RETURNING" THEN ord[o].returned = "RETURNING"
               ELSE ord[o].status = y.phase /\ ord[o].returned = "NORMAL"
    BY <1>3, <2>2 DEF Listed
  <2>5. y.todo \subseteq DOMAIN ord
    BY <1>3, <2>2 DEF Listed
  <2>6. ASSUME ~overlap PROVE Alone(q, y) /\ Held(y, ord, gd) /\ Waiting(y, ord)
    <3>1. Alone(q, x) /\ x # NotClosing
      BY <1>1, <1>3, <2>6, CalmFacts
    <3>2. Alone(q, y)
      BY <3>1, AloneKept
    <3>3. Held(y, ord, gd)
      BY <2>2 DEF Held, InWork, InDoubt
    <3>4. Waiting(y, ord)
      BY <2>3, <2>4, <2>5 DEF Waiting
    <3>. QED BY <3>2, <3>3, <3>4
  <2>7. ASSUME Clean, BuyRebate <= 100 PROVE Covered(y, ord, cn)
    <3>1. Covered(x, ord, cn)
      BY <1>1, <1>3, <2>7, CleanFacts
    <3>2. x.at \notin InWork /\ x.todo = {}
      BY <1>1, <1>3 DEF InWork, InDoubt
    <3>. SUFFICES ASSUME NEW o \in DOMAIN ord, Owner[ord[o].good] = x.seller,
                         NotClosed(ord[o])
                  PROVE  \/ o \in y.todo
                         \/ /\ ord[o].status = "SENT" /\ ord[o].returned = "NORMAL"
                            /\ y.phase # "SENT"
      BY <2>2 DEF Covered
    <3>3. \/ ord[o].status = "SENT" /\ ord[o].returned = "NORMAL"
          \/ ord[o].returned = "RETURNING" /\ x.phase = "UNSEND"
      BY <3>1, <3>2 DEF Covered
    <3>. QED BY <2>3, <2>4, <3>3
  <2>8. Clean' => Clean
    BY <1>2 DEF Clean
  <2>. QED BY <1>1, <1>2, <1>3, <2>2, <2>6, <2>7, <2>8, BooksMoved DEF AtEase
<1>. QED BY <1>4, <1>5

LEMMA BooksCloseBegin ==
  ASSUME CloseInv, CloseInv', BooksInv, NEW s, closeOrderByUserId(s)
  PROVE  BooksInv'
<1>1. /\ closer = NotClosing /\ closer.at = "none"
      /\ closer' = [at |-> "next", seller |-> s, phase |-> "UNSEND",
                    todo |-> Listed(s, "UNSEND")]
      /\ overlap' = (overlap \/ \E t \in Threads : tx[t] # Idle)
      /\ UNCHANGED <<vars, faults>>
  BY DEF closeOrderByUserId, NotClosing
<1>2. PICK q, x, y, ord, gd, cn :
        /\ q = tx /\ x = closer /\ y = closer' /\ ord = order /\ gd = good
        /\ cn = coin
  OBVIOUS
<1>3. /\ y.at = "next" /\ y.seller = s /\ y.phase = "UNSEND"
      /\ \A o \in DOMAIN ord :
           o \in y.todo <=> /\ Owner[ord[o].good] = s
                            /\ ord[o].status = "UNSEND" /\ ord[o].returned = "NORMAL"
  BY <1>1, <1>2 DEF Listed
<1>4. ASSUME ~overlap' PROVE Alone(q, y) /\ Held(y, ord, gd) /\ Waiting(y, ord)
  <2>1. \A t \in Threads : q[t] = Idle
    BY <1>1, <1>2, <1>4
  <2>. QED BY <1>3, <2>1 DEF Alone, Held, Waiting, InWork, InDoubt
<1>5. Covered(y, ord, cn)
  <2>. SUFFICES ASSUME NEW o \in DOMAIN ord, Owner[ord[o].good] = y.seller,
                       NotClosed(ord[o])
                PROVE  \/ o \in y.todo
                       \/ /\ ord[o].status = "SENT" /\ ord[o].returned = "NORMAL"
                          /\ y.phase # "SENT"
                       \/ ord[o].returned = "RETURNING" /\ y.phase = "UNSEND"
    BY DEF Covered
  <2>1. ord[o] \in Row
    BY <1>2, CloseFacts DEF Table
  <2>2. /\ ord[o].status \in {"UNSEND", "SENT"}
        /\ ord[o].returned \in {"NORMAL", "RETURNING"}
    BY <2>1 DEF Row, NotClosed
  <2>. QED BY <1>3, <2>2
<1>6. ~overlap' => ~overlap
  BY <1>1
<1>. QED BY <1>1, <1>2, <1>3, <1>4, <1>5, <1>6, BooksMoved DEF AtEase

LEMMA BooksTakeUp ==
  ASSUME CloseInv, CloseInv', BooksInv, NEW o, takeUp(o)
  PROVE  BooksInv'
<1>1. /\ closer.at = "next" /\ o \in closer.todo /\ closer \in Between
      /\ closer.phase \in Phase /\ closer # NotClosing /\ o \in DOMAIN order
      /\ Todo(closer, order)
  <2>1. /\ closer.at = "next" /\ o \in closer.todo /\ closer \in Between
        /\ Todo(closer, order)
    BY CloseFacts, CloserFacts DEF takeUp
  <2>. QED BY <2>1 DEF Between, NotClosing, Todo
<1>2. UNCHANGED <<vars, faults, overlap>>
  BY DEF takeUp
<1>3. PICK q, x, y, ord, gd, cn, r :
        /\ q = tx /\ x = closer /\ y = closer' /\ ord = order /\ gd = good
        /\ cn = coin /\ r = order[o]
  OBVIOUS
<1>4. /\ y.seller = x.seller /\ y.phase = x.phase /\ y.todo = x.todo \ {o}
      /\ y.at \in {"next", "take", "refund"}
      /\ y.at = "take" => x.phase = "SENT"
      /\ y.at # "next" => /\ y.order = o /\ y.row = r /\ y.seen = gd[r.good]
                          /\ Check(Handler[x.phase], r)
      /\ y.at = "refund" => x.phase # "SENT"
      /\ y.at = "next" => ~Check(Handler[x.phase], r)
  <2>1. CASE Check(Handler[closer.phase], order[o])
    BY <1>1, <1>3, <2>1 DEF takeUp
  <2>2. CASE ~Check(Handler[closer.phase], order[o])
    BY <1>1, <1>3, <2>2 DEF takeUp, Between
  <2>. QED BY <2>1, <2>2
<1>5. Check(Handler[x.phase], r) <=>
        NotClosed(r) /\ (x.phase = "SENT" => r.returned = "NORMAL")
  <2>1. CASE x.phase = "SENT"
    <3>1. Handler[x.phase] = "confirmOrder"
      BY <2>1 DEF Handler
    <3>2. Check("confirmOrder", r) <=> NotClosed(r) /\ r.returned = "NORMAL"
      BY Zenon DEF Check
    <3>. QED BY <2>1, <3>1, <3>2
  <2>2. CASE x.phase # "SENT"
    <3>1. Handler[x.phase] \in {"confirmReturnOrder", "cancelUnsendOrder"}
      BY <1>1, <1>3, <2>2 DEF Handler, Phase
    <3>2. ASSUME NEW h \in {"confirmReturnOrder", "cancelUnsendOrder"}
          PROVE  Check(h, r) <=> NotClosed(r)
      BY DEF Check, NotClosed
    <3>. QED BY <2>2, <3>1, <3>2
  <2>. QED BY <2>1, <2>2
<1>6. ASSUME ~overlap PROVE Alone(q, y) /\ Held(y, ord, gd) /\ Waiting(y, ord)
  <2>1. Alone(q, x) /\ x # NotClosing /\ Waiting(x, ord)
    BY <1>1, <1>3, <1>6, CalmFacts
  <2>2. Alone(q, y)
    BY <2>1, AloneKept
  <2>3. Waiting(y, ord)
    BY <1>4, <2>1 DEF Waiting
  <2>4. Held(y, ord, gd)
    <3>1. CASE y.at = "next"
      BY <3>1 DEF Held, InWork, InDoubt
    <3>2. CASE y.at = "refund"
      BY <1>3, <1>4, <1>5, <3>2 DEF Held
    <3>3. CASE y.at = "take"
      <4>1. y.row = r /\ NotClosed(r) /\ r.returned = "NORMAL" /\ y.phase = "SENT"
        BY <1>4, <1>5, <3>3
      <4>2. r.status = "SENT"
        BY <1>1, <1>3, <1>4, <2>1, <3>3, <4>1 DEF Waiting
      <4>3. ord[y.order] = r /\ y.seen.sales = gd[y.row.good].sales
        BY <1>3, <1>4, <3>3
      <4>. QED BY <3>3, <4>1, <4>2, <4>3 DEF Held
    <3>. QED BY <1>4, <3>1, <3>2, <3>3
  <2>. QED BY <2>2, <2>3, <2>4
<1>7. ASSUME Clean, BuyRebate <= 100 PROVE Covered(y, ord, cn)
  <2>1. Covered(x, ord, cn) /\ Waiting(x, ord)
    BY <1>1, <1>3, <1>7, CleanFacts, CalmFacts
  <2>2. x.at \notin InWork /\ \A p : Poor(x, cn, p) <=> Poor(y, cn, p)
    <3>1. (\A v : Coming(x, v) = 0) /\ (\A v : Coming(y, v) = 0)
      BY <1>1, <1>3, <1>4, NothingComing
    <3>. QED BY <1>1, <1>3, <3>1 DEF Poor, InWork, InDoubt
  <2>3. NotClosed(r) => Check(Handler[x.phase], r)
    BY <1>1, <1>3, <1>5, <2>1 DEF Waiting
  <2>. SUFFICES ASSUME NEW p \in DOMAIN ord, Owner[ord[p].good] = y.seller,
                       NotClosed(ord[p])
                PROVE  \/ p \in y.todo
                       \/ y.at \in InWork /\ y.order = p
                       \/ /\ ord[p].status = "SENT" /\ ord[p].returned = "NORMAL"
                          /\ y.phase # "SENT" \/ Poor(y, cn, ord[p])
                       \/ ord[p].returned = "RETURNING" /\ y.phase = "UNSEND"
    BY DEF Covered
  <2>4. CASE p = o
    <3>1. y.at \in {"take", "refund"} /\ y.order = p
      BY <1>3, <1>4, <2>3, <2>4
    <3>. QED BY <3>1 DEF InWork
  <2>5. CASE p # o
    BY <1>4, <2>1, <2>2, <2>5 DEF Covered
  <2>. QED BY <2>4, <2>5
<1>8. Clean' => Clean
  BY <1>2 DEF Clean
<1>9. closer.at \in AtEase /\ closer'.at \in AtEase
  BY <1>1, <1>3, <1>4 DEF AtEase
<1>. QED BY <1>2, <1>3, <1>6, <1>7, <1>8, <1>9, BooksMoved

-----------------------------------------------------------------------------
\* A fault leaves the order in doubt open and booked, which it is counted for.
LEMMA OneFault ==
  ASSUME NEW ord, Table(ord), NEW b \in Bills, NEW x, NEW f \in Nat,
         Booked(ord, b, x), Extras(ord, b, x, f), NEW y, y.at \notin InDoubt
  PROVE  Booked(ord, b, y) /\ Extras(ord, b, y, f + 1)
<1>1. Extra(ord, b) \in Int
  <2>1. \A o \in Orders : ExtraW(ord, b)[o] \in Int
    BY WeightTypes
  <2>2. SumFunctionOnSet(ExtraW(ord, b), Orders) \in Int
    BY <2>1, SumType, MallAssumption
  <2>. QED BY <2>2 DEF Extra, Total
<1>2. Extra(ord, b) <= f + 1 + 0
  BY <1>1 DEF Extras, Bit
<1>3. Extras(ord, b, y, f + 1)
  BY <1>1, <1>2 DEF Extras, Bit
<1>4. Booked(ord, b, y)
  BY DEF Booked
<1>. QED BY <1>3, <1>4

LEMMA BooksFault ==
  ASSUME CloseInv, CloseInv', BooksInv, faults' = faults + 1,
         UNCHANGED <<good, order, bills, overlap>>, closer'.at \in {"none", "next"},
         ~overlap => /\ Alone(tx', closer') /\ ReadNow(tx', order, good)
                     /\ Waiting(closer', order)
  PROVE  BooksInv'
<1>1. PICK q, x, y, ord, b, gd, f, g :
        /\ q = tx' /\ x = closer /\ y = closer' /\ ord = order /\ b = bills
        /\ gd = good /\ f = faults /\ g = faults'
  OBVIOUS
<1>2. f \in Nat /\ g = f + 1 /\ Table(ord) /\ b \in Bills
  BY <1>1, CloseFacts, ShopCloseAssumption
<1>3. y.at \notin InDoubt /\ y.at \notin InWork
  BY <1>1 DEF InDoubt, InWork
<1>4. ASSUME ~overlap PROVE Calm(q, y, ord, gd, b, g)
  <2>1. Booked(ord, b, x) /\ Extras(ord, b, x, f)
    BY <1>1, <1>4, CalmFacts
  <2>2. Booked(ord, b, y) /\ Extras(ord, b, y, f + 1)
    BY <1>2, <1>3, <2>1, OneFault
  <2>3. Alone(q, y) /\ ReadNow(q, ord, gd) /\ Waiting(y, ord)
    BY <1>1, <1>4
  <2>4. Held(y, ord, gd)
    BY <1>1, <1>3 DEF Held
  <2>. QED BY <1>2, <2>2, <2>3, <2>4 DEF Calm
<1>5. ~Clean'
  BY <1>1, <1>2 DEF Clean
<1>. QED BY <1>1, <1>4, <1>5 DEF BooksInv

LEMMA BooksStatementFails ==
  ASSUME CloseInv, CloseInv', BooksInv, StatementFails
  PROVE  BooksInv'
<1>1. /\ closer.at \in Refunding \cup Confirming /\ faults' = faults + 1
      /\ UNCHANGED <<vars, overlap>>
  BY DEF StatementFails
<1>2. closer # NotClosing /\ Todo(closer, order)
  BY <1>1, AmidFacts
<1>3. closer'.at = "next" /\ SameTask(closer, closer') /\ closer' # NotClosing
  BY BackFields DEF StatementFails, Back
<1>4. PICK q, x, y, ord, gd :
        /\ q = tx /\ x = closer /\ y = closer' /\ ord = order /\ gd = good
  OBVIOUS
<1>5. ASSUME ~overlap PROVE Alone(q, y) /\ ReadNow(q, ord, gd) /\ Waiting(y, ord)
  <2>1. /\ Alone(q, x) /\ x # NotClosing /\ Waiting(x, ord) /\ Todo(x, ord)
        /\ SameTask(x, y)
    BY <1>2, <1>3, <1>4, <1>5, CalmFacts
  <2>2. Alone(q, y) /\ ReadNow(q, ord, gd)
    BY <2>1, AloneKept
  <2>3. Waiting(y, ord)
    BY <2>1, ClosingSame, WaitingKept
  <2>. QED BY <2>2, <2>3
<1>6. UNCHANGED <<good, order, bills, tx, overlap>>
  BY <1>1 DEF vars
<1>. QED BY <1>1, <1>3, <1>4, <1>5, <1>6, BooksFault

LEMMA BooksCrash ==
  ASSUME CloseInv, CloseInv', BooksInv, Crash
  PROVE  BooksInv'
<1>1. /\ faults' = faults + 1 /\ closer' = NotClosing /\ closer'.at = "none"
      /\ tx' = [t \in Threads |-> Idle] /\ UNCHANGED <<good, order, bills, overlap>>
  BY DEF Crash, NotClosing
<1>2. PICK q, y, ord, gd : q = tx' /\ y = closer' /\ ord = order /\ gd = good
  OBVIOUS
<1>3. Alone(q, y) /\ Waiting(y, ord)
  BY <1>1, <1>2 DEF Alone, Waiting
<1>4. ReadNow(q, ord, gd)
  BY <1>1, <1>2 DEF ReadNow, Idle, OrderOp
<1>. QED BY <1>1, <1>2, <1>3, <1>4, BooksFault

-----------------------------------------------------------------------------
(***************************************************************************)
(* So do the requests, one client at a time.                               *)
(***************************************************************************)

\* The step is a request.
Requested ==
  /\ CloseInv /\ CloseInv' /\ BooksInv /\ UNCHANGED <<closer, faults>>
  /\ overlap' = (overlap \/ closer # NotClosing)

LEMMA BooksRequest ==
  ASSUME Requested,
         ~overlap /\ closer = NotClosing =>
           /\ ReadNow(tx', order', good') /\ Booked(order', bills', closer)
           /\ Extras(order', bills', closer, faults),
         Clean /\ closer = NotClosing => BooksKept(order', bills', good', coin', closer)
  PROVE  BooksInv'
<1>1. PICK q, ord, gd, b, f, x, y :
        /\ q = tx' /\ ord = order' /\ gd = good' /\ b = bills' /\ f = faults
        /\ x = closer /\ y = closer'
  OBVIOUS
<1>2. y = x /\ faults' = f /\ UNCHANGED faults
  BY <1>1 DEF Requested
<1>3. ~overlap' => ~overlap /\ x = NotClosing
  BY <1>1 DEF Requested
<1>4. ASSUME ~overlap' PROVE Calm(q, y, ord, gd, b, f)
  <2>1. ReadNow(q, ord, gd) /\ Booked(ord, b, y) /\ Extras(ord, b, y, f)
    BY <1>1, <1>2, <1>3, <1>4
  <2>2. y = NotClosing /\ y.at = "none"
    BY <1>2, <1>3, <1>4 DEF NotClosing
  <2>3. Alone(q, y) /\ Held(y, ord, gd) /\ Waiting(y, ord)
    BY <2>2 DEF Alone, Held, Waiting, InWork, InDoubt
  <2>. QED BY <2>1, <2>3 DEF Calm
<1>5. ASSUME Clean' PROVE BooksKept(order', bills', good', coin', closer')
  <2>1. Clean /\ closer = NotClosing
    BY <1>1, <1>2, <1>3, <1>5 DEF Clean
  <2>. QED BY <1>1, <1>2, <2>1
<1>6. Clean' => closer' = NotClosing
  BY <1>1, <1>2, <1>3 DEF Clean
<1>. QED BY <1>1, <1>2, <1>4, <1>5, <1>6 DEF BooksInv

\* After its writing half the only thread is idle.
LEMMA ReadDone ==
  ASSUME OneClient, CloseInv, NEW t \in Threads, tx' = [tx EXCEPT ![t] = Idle],
         NEW ord, NEW gd
  PROVE  ReadNow(tx', ord, gd)
<1>1. PICK q : q = tx'
  OBVIOUS
<1>2. \A s \in Threads : q[s] = Idle
  <2>1. DOMAIN tx = Threads
    BY CloseFacts DEF TxShape
  <2>. QED BY <1>1, <2>1 DEF OneClient
<1>3. ReadNow(q, ord, gd)
  BY <1>2 DEF ReadNow, Idle, OrderOp
<1>. QED BY <1>1, <1>3

\* A reading half books nothing.
LEMMA BooksReading ==
  ASSUME Requested, UNCHANGED <<coin, good, order, bills>>,
         ~overlap => ReadNow(tx', order, good)
  PROVE  BooksInv'
<1>1. PICK q, ord, gd, b, f, x, cn :
        /\ q = tx' /\ ord = order /\ gd = good /\ b = bills /\ f = faults
        /\ x = closer /\ cn = coin
  OBVIOUS
<1>2. ASSUME ~overlap
      PROVE  ReadNow(q, ord, gd) /\ Booked(ord, b, x) /\ Extras(ord, b, x, f)
  BY <1>1, <1>2, CalmFacts DEF Requested
<1>3. ASSUME Clean PROVE BooksKept(ord, b, gd, cn, x)
  BY <1>1, <1>3, CleanFacts DEF Requested
<1>. QED BY <1>1, <1>2, <1>3, BooksRequest

LEMMA BooksPayRead ==
  ASSUME OneClient, Requested, NEW t \in Threads, NEW u, NEW lines, PayRead(t, u, lines)
  PROVE  BooksInv'
<1>1. ReadNow(tx', order, good)
  <2>1. PICK q, q2, gd, ord, r :
          /\ q = tx /\ q2 = tx' /\ gd = good /\ ord = order
          /\ r = [op |-> "payOrder", user |-> u, lines |-> lines, goods |-> gd]
    OBVIOUS
  <2>2. DOMAIN q = Threads
    BY <2>1, CloseFacts DEF TxShape, Requested
  <2>3. q2 = [q EXCEPT ![t] = r]
    BY <2>1 DEF PayRead
  <2>4. \A s \in Threads : q2[s] = r
    BY <2>2, <2>3 DEF OneClient
  <2>5. r.op = "payOrder" /\ r.goods = gd
    BY <2>1
  <2>6. ReadNow(q2, ord, gd)
    BY <2>4, <2>5 DEF ReadNow, OrderOp
  <2>. QED BY <2>1, <2>6
<1>. QED BY <1>1, BooksReading DEF PayRead

LEMMA BooksRead ==
  ASSUME OneClient, Requested, NEW t \in Threads, NEW op \in OrderOp, NEW o, Read(t, op, o)
  PROVE  BooksInv'
<1>1. ReadNow(tx', order, good)
  <2>1. PICK q, q2, gd, ord, r :
          /\ q = tx /\ q2 = tx' /\ gd = good /\ ord = order
          /\ r = [op |-> op, order |-> o, row |-> ord[o], goods |-> gd]
    OBVIOUS
  <2>2. DOMAIN q = Threads
    BY <2>1, CloseFacts DEF TxShape, Requested
  <2>3. q2 = [q EXCEPT ![t] = r] /\ Check(op, ord[o]) /\ Offered(op, ord[o])
    BY <2>1 DEF Read, OneClient
  <2>4. \A s \in Threads : q2[s] = r
    BY <2>2, <2>3 DEF OneClient
  <2>5. r.op = op /\ r.goods = gd /\ r.row = ord[r.order] /\ r.row = ord[o]
    BY <2>1
  <2>6. ReadNow(q2, ord, gd)
    BY <2>3, <2>4, <2>5 DEF ReadNow
  <2>. QED BY <2>1, <2>6
<1>. QED BY <1>1, BooksReading DEF Read

LEMMA BooksRollback ==
  ASSUME OneClient, Requested, NEW t \in Threads, Rollback(t)
  PROVE  BooksInv'
<1>1. ReadNow(tx', order, good)
  BY ReadDone DEF Rollback, Requested
<1>. QED BY <1>1, BooksReading DEF Rollback

-----------------------------------------------------------------------------
\* What a writing half knows of its order.
LEMMA ReadFacts ==
  ASSUME Requested, NEW t \in Threads, tx[t].op \in OrderOp
  PROVE  /\ tx[t].order \in DOMAIN order /\ tx[t].order \in Orders
         /\ tx[t].row \in Row /\ Table(order)
         /\ ~overlap => /\ tx[t].goods = good /\ tx[t].row = order[tx[t].order]
                        /\ Check(tx[t].op, order[tx[t].order])
                        /\ Offered(tx[t].op, order[tx[t].order])
<1>1. PICK x : x = tx[t]
  OBVIOUS
<1>2. OpState(x, order) /\ Table(order)
  BY <1>1, CloseFacts, OpFacts DEF Requested
<1>3. x.order \in DOMAIN order /\ x.order \in Orders /\ x.row \in Row
  BY <1>2 DEF OpState, Table
<1>4. ASSUME ~overlap
      PROVE  /\ x.goods = good /\ x.row = order[x.order]
             /\ Check(x.op, x.row) /\ Offered(x.op, x.row)
  <2>1. ReadNow(tx, order, good)
    BY <1>4, CalmFacts DEF Requested
  <2>2. x # Idle
    BY <1>1 DEF Idle, OrderOp
  <2>. QED BY <1>1, <2>1, <2>2 DEF ReadNow
<1>. QED BY <1>1, <1>2, <1>3, <1>4

\* An order is sent, or its return asked for: it was open and stays open.
LEMMA BooksOpen ==
  ASSUME OneClient, Requested, NEW t \in Threads, tx' = [tx EXCEPT ![t] = Idle],
         UNCHANGED <<coin, good, bills>>, NEW o,
         ~overlap => /\ Alters(order, order', o) /\ NotClosed(order[o])
                     /\ NotClosed(order'[o])
  PROVE  BooksInv'
<1>1. PICK ord, ord2, gd, b, f, x, cn :
        /\ ord = order /\ ord2 = order' /\ gd = good /\ b = bills /\ f = faults
        /\ x = closer /\ cn = coin
  OBVIOUS
<1>2. b \in Bills /\ f \in Nat
  BY <1>1, CloseFacts, ShopCloseAssumption DEF Requested
<1>3. ASSUME ~overlap PROVE Alters(ord, ord2, o) /\ NotClosed(ord[o]) /\ NotClosed(ord2[o])
  BY <1>1, <1>3
<1>4. closer = NotClosing => x.at \notin InDoubt /\ x.at \in AtEase
  BY <1>1 DEF NotClosing, InDoubt, AtEase
<1>5. ASSUME ~overlap, closer = NotClosing
      PROVE  Booked(ord2, b, x) /\ Extras(ord2, b, x, f)
  <2>1. Booked(ord, b, x) /\ Extras(ord, b, x, f) /\ x.at \notin InDoubt
    BY <1>1, <1>4, <1>5, CalmFacts DEF Requested
  <2>2. Alters(ord, ord2, o) /\ NotClosed(ord[o]) /\ NotClosed(ord2[o])
    BY <1>3, <1>5
  <2>. QED BY ONLY <1>2, <2>1, <2>2, OneKept
<1>6. ASSUME Clean, closer = NotClosing PROVE BooksKept(ord2, b, gd, cn, x)
  <2>1. BooksKept(ord, b, gd, cn, x) /\ Tables(ord, b, gd, cn) /\ ~overlap
    BY <1>1, <1>6, CleanFacts DEF Requested
  <2>2. Alters(ord, ord2, o) /\ NotClosed(ord[o]) /\ NotClosed(ord2[o]) /\ x.at \in AtEase
    BY <1>3, <1>4, <1>6, <2>1
  <2>. QED BY ONLY <2>1, <2>2, EntryKept
<1>7. ReadNow(tx', order', good')
  BY ReadDone DEF Requested
<1>. QED BY <1>1, <1>5, <1>6, <1>7, BooksRequest

LEMMA BooksSend ==
  ASSUME OneClient, Requested, NEW t \in Threads, sendOrder(t)
  PROVE  BooksInv'
<1>1. tx[t].op = "sendOrder" /\ tx[t].op \in OrderOp
  BY DEF sendOrder, OrderOp
<1>2. PICK o, ord, ord2 : o = tx[t].order /\ ord = order /\ ord2 = order'
  OBVIOUS
<1>3. PICK st \in {"UNSEND", "SENT", "SUCCESS", "CANCEL"} :
        st = "SENT" /\ ord2 = [ord EXCEPT ![o].status = st]
  BY <1>2 DEF sendOrder
<1>4. Table(ord) /\ o \in DOMAIN ord
  BY <1>1, <1>2, ReadFacts
<1>5. Alters(ord, ord2, o)
  BY <1>3, <1>4, StatusAlters
<1>6. ord2[o].status = st /\ ord2[o].returned = ord[o].returned
  BY <1>3, <1>4, StatusFields
<1>7. ASSUME ~overlap PROVE NotClosed(ord[o]) /\ NotClosed(ord2[o])
  <2>1. Offered("sendOrder", ord[o])
    BY <1>1, <1>2, <1>7, ReadFacts
  <2>2. ord[o].status = "UNSEND" /\ ord[o].returned = "NORMAL"
    BY <2>1 DEF Offered
  <2>. QED BY <1>3, <1>6, <2>2 DEF NotClosed
<1>8. tx' = [tx EXCEPT ![t] = Idle] /\ UNCHANGED <<coin, good, bills>>
  BY DEF sendOrder
<1>. QED BY <1>2, <1>5, <1>7, <1>8, BooksOpen

LEMMA BooksReturn ==
  ASSUME OneClient, Requested, NEW t \in Threads, returnOrder(t)
  PROVE  BooksInv'
<1>1. tx[t].op = "returnOrder" /\ tx[t].op \in OrderOp
  BY DEF returnOrder, OrderOp
<1>2. PICK o, ord, ord2 : o = tx[t].order /\ ord = order /\ ord2 = order'
  OBVIOUS
<1>3. PICK st \in {"NORMAL", "RETURNING", "RETURNED"} :
        st = "RETURNING" /\ ord2 = [ord EXCEPT ![o].returned = st]
  BY <1>2 DEF returnOrder
<1>4. Table(ord) /\ o \in DOMAIN ord
  BY <1>1, <1>2, ReadFacts
<1>5. Alters(ord, ord2, o)
  BY <1>3, <1>4, ReturnedAlters
<1>6. ord2[o].returned = st /\ ord2[o].status = ord[o].status
  BY <1>3, <1>4, ReturnedFields
<1>7. ASSUME ~overlap PROVE NotClosed(ord[o]) /\ NotClosed(ord2[o])
  <2>1. Offered("returnOrder", ord[o])
    BY <1>1, <1>2, <1>7, ReadFacts
  <2>2. ord[o].status \in {"UNSEND", "SENT"} /\ ord[o].returned = "NORMAL"
    BY <2>1 DEF Offered
  <2>. QED BY <1>3, <1>6, <2>2 DEF NotClosed
<1>8. tx' = [tx EXCEPT ![t] = Idle] /\ UNCHANGED <<coin, good, bills>>
  BY DEF returnOrder
<1>. QED BY <1>2, <1>5, <1>7, <1>8, BooksOpen

\* New orders are open, and not booked.
LEMMA OrderedBooked ==
  ASSUME NEW ord, NEW ord2, NEW lines, LinesOK(lines), NEW id, NEW u,
         Ordered(ord, ord2, lines, id, u), NEW b \in Bills, NEW x, NEW f,
         x.at \notin InDoubt, Booked(ord, b, x), Extras(ord, b, x, f)
  PROVE  Booked(ord2, b, x) /\ Extras(ord2, b, x, f)
<1>1. \A o \in Orders : ~In(ord, o) => b[o].confirmed = 0 /\ b[o].refunded = 0
  BY DEF Booked
<1>2. Extra(ord2, b) = Extra(ord, b)
  BY <1>1, OrderedMoney
<1>3. \A o \in Orders : ~In(ord2, o) => b[o].confirmed = 0 /\ b[o].refunded = 0
  BY <1>1 DEF Ordered, In
<1>4. ASSUME NEW o \in DOMAIN ord2, ~NotClosed(ord2[o])
      PROVE  b[o].confirmed + b[o].refunded > 0
  <2>1. CASE o \in DOMAIN ord
    BY <1>4, <2>1 DEF Booked, Ordered
  <2>2. CASE o \notin DOMAIN ord
    <3>1. o \in Range(id)
      BY <2>2 DEF Ordered
    <3>2. PICK l \in lines : o = id[l]
      BY <3>1 DEF Ordered, Range
    <3>3. ord2[o].status = "UNSEND" /\ ord2[o].returned = "NORMAL"
      BY <3>2, NewOrder
    <3>. QED BY <1>4, <3>3 DEF NotClosed
  <2>. QED BY <2>1, <2>2
<1>5. Booked(ord2, b, x)
  BY <1>3, <1>4 DEF Booked
<1>. QED BY <1>2, <1>5 DEF Extras

LEMMA BooksPayWrite ==
  ASSUME OneClient, Requested, NEW t \in Threads, PayWrite(t)
  PROVE  BooksInv'
<1>1. PICK lines, u, ord, ord2, gd, gd2, b, f, x, cn, cn2, old :
        /\ lines = tx[t].lines /\ u = tx[t].user /\ ord = order /\ ord2 = order'
        /\ gd = good /\ gd2 = good' /\ b = bills /\ f = faults /\ x = closer
        /\ cn = coin /\ cn2 = coin' /\ old = tx[t].goods
  OBVIOUS
<1>2. tx[t].op = "payOrder"
  BY DEF PayWrite
<1>3. /\ u \in Users /\ LinesOK(lines) /\ Table(ord) /\ b \in Bills /\ cn \in Ledgers
      /\ gd \in GoodTable
  BY <1>1, <1>2, PayFacts, CloseFacts DEF PayState, Requested
<1>4. /\ cn2 = Post(cn, u, 0 - TotalOf(lines), TotalOf(lines), 0)
      /\ gd2 = [g \in Goods |->
                  IF CountOf(lines, g) > 0
                  THEN [gd[g] EXCEPT !.stock = old[g].stock - CountOf(lines, g)]
                  ELSE gd[g]]
      /\ \E id \in [lines -> Orders \ DOMAIN ord] :
           /\ IsInjective(id)
           /\ ord2 = [o \in DOMAIN ord \cup Range(id) |->
                        IF o \in DOMAIN ord THEN ord[o]
                        ELSE NewRow(u, Inverse(id, lines, Range(id))[o])]
  BY <1>1 DEF PayWrite
<1>5. PICK id : Ordered(ord, ord2, lines, id, u)
  <2>1. PICK id \in [lines -> Orders \ DOMAIN ord] :
          /\ IsInjective(id)
          /\ ord2 = [o \in DOMAIN ord \cup Range(id) |->
                        IF o \in DOMAIN ord THEN ord[o]
                        ELSE NewRow(u, Inverse(id, lines, Range(id))[o])]
    BY <1>4
  <2>2. Ordered(ord, ord2, lines, id, u)
    BY <1>3, <2>1, PaymentOrders
  <2>. QED BY <2>2
<1>6. closer = NotClosing => x.at \notin InDoubt /\ x.at \in AtEase
  BY <1>1 DEF NotClosing, InDoubt, AtEase
<1>7. ASSUME ~overlap, closer = NotClosing
      PROVE  Booked(ord2, b, x) /\ Extras(ord2, b, x, f)
  <2>1. Booked(ord, b, x) /\ Extras(ord, b, x, f) /\ x.at \notin InDoubt
    BY <1>1, <1>6, <1>7, CalmFacts DEF Requested
  <2>. QED BY ONLY <1>3, <1>5, <2>1, OrderedBooked
<1>8. ASSUME Clean, closer = NotClosing PROVE BooksKept(ord2, b, gd2, cn2, x)
  <2>1. BooksKept(ord, b, gd, cn, x) /\ Tables(ord, b, gd, cn) /\ x.at \in AtEase
    BY <1>1, <1>6, <1>8, CleanFacts DEF Requested
  <2>2. old = gd
    <3>1. ReadNow(tx, order, good)
      BY <1>8, CleanFacts, CalmFacts DEF Requested
    <3>2. tx[t] # Idle
      BY <1>2 DEF Idle
    <3>. QED BY <1>1, <3>1, <3>2 DEF ReadNow
  <2>3. ASSUME NEW g \in Goods
        PROVE  gd2[g].stock = gd[g].stock - CountOf(lines, g) /\ gd2[g].sales = gd[g].sales
    <3>1. PICK n \in Nat : n = CountOf(lines, g)
      BY <1>3, CountNatural
    <3>2. gd[g] \in [stock : Nat, sales : Nat]
      BY <1>3 DEF GoodTable
    <3>3. gd2[g] = IF n > 0 THEN [gd[g] EXCEPT !.stock = gd[g].stock - n] ELSE gd[g]
      BY <1>4, <2>2, <3>1
    <3>. QED BY <3>1, <3>2, <3>3
  <2>4. ASSUME NEW v \in Users
        PROVE  cn2[v].freeze = cn[v].freeze + (IF v = u THEN TotalOf(lines) ELSE 0)
    <3>1. PICK T \in Int : T = TotalOf(lines)
      BY <1>3, TotalType
    <3>2. PICK w \in Users \cup {Nobody}, dA \in Int, z \in Int :
            w = u /\ dA = 0 - T /\ z = 0
      BY <1>3, <3>1
    <3>3. Post(cn, w, dA, T, z)[v].freeze = cn[v].freeze + (IF v = w THEN T ELSE 0)
      BY <1>3, <3>1, <3>2, PostFreeze
    <3>. QED BY <1>4, <3>1, <3>2, <3>3
  <2>. QED BY ONLY <1>3, <1>5, <2>1, <2>3, <2>4, EntryOrdered
<1>9. ReadNow(tx', order', good')
  BY ReadDone DEF Requested, PayWrite
<1>10. bills' = bills
  BY DEF PayWrite
<1>. QED BY <1>1, <1>7, <1>8, <1>9, <1>10, BooksRequest

\* The writing half of a handler that books and closes its order.
BookAndClose(ord, ord2, b, b2, o) ==
  /\ Alters(ord, ord2, o) /\ NotClosed(ord[o]) /\ ~NotClosed(ord2[o])
  /\ b2 \in Bills
  /\ b2[o].confirmed + b2[o].refunded = b[o].confirmed + b[o].refunded + 1
  /\ \A z \in Orders : z # o => b2[z] = b[z]

LEMMA BookedAndClosed ==
  ASSUME NEW ord, Table(ord), NEW ord2, NEW b \in Bills, NEW b2, NEW o,
         BookAndClose(ord, ord2, b, b2, o), NEW x, x.at \notin InDoubt, NEW f \in Nat,
         Booked(ord, b, x), Extras(ord, b, x, f)
  PROVE  Booked(ord2, b2, x) /\ Extras(ord2, b2, x, f)
<1>1. PICK p \in DOMAIN ord : p = o
  BY DEF BookAndClose, Alters
<1>2. PICK y : y = [at |-> "setStatus", order |-> p]
  OBVIOUS
<1>3. y.at = "setStatus" /\ y.order = p /\ y.at \in InDoubt
  BY <1>2 DEF InDoubt
<1>4. /\ b2 \in Bills
      /\ b2[p].confirmed + b2[p].refunded = b[p].confirmed + b[p].refunded + 1
  BY <1>1 DEF BookAndClose
<1>5. \A z \in Orders : z # p => b2[z] = b[z]
  BY <1>1 DEF BookAndClose
<1>6. Booked(ord, b2, y) /\ Extras(ord, b2, y, f)
  BY <1>3, <1>4, <1>5, OneBooked
<1>7. Alters(ord, ord2, p) /\ NotClosed(ord[p]) /\ ~NotClosed(ord2[p])
  BY <1>1 DEF BookAndClose
<1>. QED BY <1>3, <1>4, <1>6, <1>7, OneClosed

LEMMA BooksFinal ==
  ASSUME OneClient, Requested, NEW t \in Threads, tx' = [tx EXCEPT ![t] = Idle], NEW o,
         ~overlap => BookAndClose(order, order', bills, bills', o),
         Clean /\ closer = NotClosing => BooksKept(order', bills', good', coin', closer)
  PROVE  BooksInv'
<1>1. PICK ord, ord2, b, b2, f, x :
        /\ ord = order /\ ord2 = order' /\ b = bills /\ b2 = bills' /\ f = faults
        /\ x = closer
  OBVIOUS
<1>2. Table(ord) /\ b \in Bills /\ f \in Nat
  BY <1>1, CloseFacts, ShopCloseAssumption DEF Requested
<1>3. ASSUME ~overlap, closer = NotClosing
      PROVE  Booked(ord2, b2, x) /\ Extras(ord2, b2, x, f)
  <2>1. Booked(ord, b, x) /\ Extras(ord, b, x, f)
    BY <1>1, <1>3, CalmFacts DEF Requested
  <2>2. x.at \notin InDoubt
    BY <1>1, <1>3 DEF NotClosing, InDoubt
  <2>3. BookAndClose(ord, ord2, b, b2, o)
    BY <1>1, <1>3
  <2>. QED BY ONLY <1>2, <2>1, <2>2, <2>3, BookedAndClosed
<1>4. ReadNow(tx', order', good')
  BY ReadDone DEF Requested
<1>. QED BY <1>1, <1>3, <1>4, BooksRequest

LEMMA BooksGiveBack ==
  ASSUME OneClient, Requested, NEW t \in Threads,
         confirmReturnOrder(t) \/ cancelUnsendOrder(t)
  PROVE  BooksInv'
<1>1. GiveBack(t) /\ tx[t].op \in {"confirmReturnOrder", "cancelUnsendOrder"}
      /\ tx[t].op \in OrderOp
  BY DEF confirmReturnOrder, cancelUnsendOrder, OrderOp
<1>2. PICK o, r, ord, ord2, gd, gd2, b, b2, cn, cn2, x, old :
        /\ o = tx[t].order /\ r = tx[t].row /\ ord = order /\ ord2 = order'
        /\ gd = good /\ gd2 = good' /\ b = bills /\ b2 = bills'
        /\ cn = coin /\ cn2 = coin' /\ x = closer /\ old = tx[t].goods
  OBVIOUS
<1>3. /\ Table(ord) /\ o \in DOMAIN ord /\ o \in Orders /\ r \in Row
      /\ b \in Bills /\ cn \in Ledgers /\ gd \in GoodTable
      /\ r.user \in Users /\ r.total \in Nat /\ r.good \in Goods /\ r.count \in Nat
  <2>1. r \in Row
    BY <1>1, <1>2, ReadFacts
  <2>2. r.user \in Users /\ r.total \in Nat /\ r.good \in Goods /\ r.count \in Nat
    BY <2>1, MallAssumption DEF Row
  <2>. QED BY <1>1, <1>2, <2>1, <2>2, ReadFacts, CloseFacts DEF Requested
<1>4. cn2 \in Ledgers /\ Table(ord2)
  BY <1>2, NextFacts DEF Requested
<1>5. /\ cn2 = Post(cn, r.user, r.total, 0 - r.total, 0)
      /\ gd2 = [gd EXCEPT ![r.good].stock = old[r.good].stock + r.count]
      /\ b2 = [b EXCEPT ![o].refunded = b[o].refunded + 1]
  BY <1>1, <1>2 DEF GiveBack
<1>6. Refunds(b, b2, o)
  BY <1>3, <1>5, RefundedOnce
<1>7. /\ Alters(ord, ord2, o) /\ ~Live(ord2[o])
      /\ ord2[o].status \in {"CANCEL", ord[o].status}
  <2>1. CASE cancelUnsendOrder(t)
    <3>1. PICK st \in {"UNSEND", "SENT", "SUCCESS", "CANCEL"} :
            st = "CANCEL" /\ ord2 = [ord EXCEPT ![o].status = st]
      BY <1>2, <2>1 DEF cancelUnsendOrder
    <3>2. Alters(ord, ord2, o)
      BY <1>3, <3>1, StatusAlters
    <3>3. ord2[o].status = st
      BY <1>3, <3>1, StatusFields
    <3>. QED BY <3>1, <3>2, <3>3 DEF Live
  <2>2. CASE confirmReturnOrder(t)
    <3>1. PICK st \in {"NORMAL", "RETURNING", "RETURNED"} :
            st = "RETURNED" /\ ord2 = [ord EXCEPT ![o].returned = st]
      BY <1>2, <2>2 DEF confirmReturnOrder
    <3>2. Alters(ord, ord2, o)
      BY <1>3, <3>1, ReturnedAlters
    <3>3. ord2[o].returned = st /\ ord2[o].status = ord[o].status
      BY <1>3, <3>1, ReturnedFields
    <3>. QED BY <3>1, <3>2, <3>3 DEF Live
  <2>. QED BY <2>1, <2>2
<1>8. ASSUME ~overlap
      PROVE  r = ord[o] /\ NotClosed(ord[o]) /\ old = gd
  <2>1. r = ord[o] /\ old = gd /\ Check(tx[t].op, ord[o])
    BY <1>1, <1>2, <1>8, ReadFacts
  <2>2. ASSUME NEW op \in {"confirmReturnOrder", "cancelUnsendOrder"}, Check(op, ord[o])
        PROVE  NotClosed(ord[o])
    BY <2>2 DEF Check, NotClosed
  <2>. QED BY <1>1, <2>1, <2>2
<1>9. ASSUME ~overlap PROVE BookAndClose(ord, ord2, b, b2, o)
  BY <1>6, <1>7, <1>8, <1>9 DEF BookAndClose, Refunds, Live, NotClosed
<1>10. ASSUME Clean, closer = NotClosing PROVE BooksKept(ord2, b2, gd2, cn2, x)
  <2>1. /\ BooksKept(ord, b, gd, cn, x) /\ Tables(ord, b, gd, cn) /\ ~overlap
        /\ x.at \in AtEase
    BY <1>2, <1>10, CleanFacts DEF Requested, NotClosing, AtEase
  <2>2. PICK y, z : /\ y = [at |-> "setStatus", order |-> o, row |-> r]
                    /\ z = [at |-> "writeStock", order |-> o, row |-> r]
    OBVIOUS
  <2>3. /\ y.at = "setStatus" /\ y.order = o
        /\ z.at \in {"readStock", "writeStock"} /\ z.row = r
    BY <2>2
  <2>4. /\ b2 \in Bills /\ b2[o].refunded = b[o].refunded + 1
        /\ b2[o].confirmed = b[o].confirmed
    BY <1>6 DEF Refunds
  <2>5. \A q \in Orders : q # o => b2[q] = b[q]
    BY <1>6 DEF Refunds
  <2>6. ASSUME NEW u \in Users
        PROVE  cn2[u].freeze = cn[u].freeze - (IF ord[o].user = u THEN ord[o].total ELSE 0)
    <3>1. PICK v \in Users \cup {Nobody}, n \in Int, k \in Int, i \in Int :
            v = r.user /\ n = r.total /\ k = 0 - n /\ i = 0
      BY <1>3
    <3>2. Post(cn, v, n, k, i)[u].freeze = cn[u].freeze + (IF u = v THEN k ELSE 0)
      BY <1>3, PostFreeze
    <3>3. cn2 = Post(cn, v, n, k, i)
      BY <1>5, <3>1
    <3>4. cn[u].freeze \in Nat /\ ord[o].user = v /\ ord[o].total = n
      BY <1>3, <1>8, <2>1, <3>1 DEF Ledgers, Balance
    <3>. QED BY <3>1, <3>2, <3>3, <3>4
  <2>7. NotClosed(ord[o]) /\ r = ord[o] /\ old = gd
    BY <1>8, <2>1
  <2>8. BooksKept(ord, b2, gd, cn2, y)
    BY ONLY <1>3, <2>1, <2>3, <2>4, <2>5, <2>6, <2>7, EntryRefund
  <2>9. Tables(ord, b2, gd, cn2) /\ Tables(ord2, b2, gd, cn2)
    BY <1>3, <1>4, <2>4 DEF Tables
  <2>10. ~Live(ord2[o]) /\ ord2[o].status # "SUCCESS" /\ Alters(ord, ord2, o)
    BY <1>7, <2>7 DEF NotClosed
  <2>11. SameDeal(z.row, ord[o])
    BY <2>3, <2>7 DEF SameDeal
  <2>12. BooksKept(ord2, b2, gd, cn2, z)
    BY ONLY <2>3, <2>7, <2>8, <2>9, <2>10, <2>11, EntryClosed
  <2>13. ASSUME NEW g \in Goods
         PROVE  /\ gd2[g].stock = gd[g].stock + (IF z.row.good = g THEN z.row.count ELSE 0)
                /\ gd2[g].sales = gd[g].sales
    <3>1. PICK h, n : h \in Goods /\ h = r.good /\ n = gd[h].stock + r.count
      BY <1>3
    <3>2. gd2 = [gd EXCEPT ![h].stock = n]
      BY <1>5, <2>7, <3>1
    <3>3. /\ gd2[g].stock = IF g = h THEN n ELSE gd[g].stock
          /\ gd2[g].sales = gd[g].sales /\ gd[g].stock \in Nat
      BY <1>3, <3>2 DEF GoodTable
    <3>. QED BY <2>3, <3>1, <3>3
  <2>14. z.row \in Row
    BY <1>3, <2>3
  <2>. QED BY ONLY <2>1, <2>3, <2>9, <2>12, <2>13, <2>14, EntryReshelved
<1>11. tx' = [tx EXCEPT ![t] = Idle]
  BY <1>1 DEF GiveBack
<1>12. ~overlap => BookAndClose(order, order', bills, bills', o)
  BY <1>2, <1>9
<1>13. Clean /\ closer = NotClosing => BooksKept(order', bills', good', coin', closer)
  BY <1>2, <1>10
<1>. QED BY <1>11, <1>12, <1>13, BooksFinal

\* A whole confirmation moves no frozen money.
LEMMA ConfirmFreeze ==
  ASSUME BaseInv, NEW t \in Threads, confirmOrder(t)
  PROVE  SameFreeze(coin, coin')
<1>1. PICK r \in Row : r = tx[t].row
  BY OpFacts DEF confirmOrder, OrderOp, OpState
<1>2. PICK l, l2 : l = coin /\ l2 = coin' /\ l \in Ledgers
  BY BaseFacts
<1>3. PICK m1, m2, m3, m4 :
        /\ Books(l, m1, r, "taken") /\ Books(m1, m2, r, "seller")
        /\ Books(m2, m3, r, "rebate") /\ Books(m3, m4, r, "one")
        /\ Books(m4, l2, r, "two")
  BY <1>1, <1>2, ConfirmBooks
<1>4. \A f \in {"taken", "seller", "rebate", "one", "two"} : f \in Field
  BY DEF Field
<1>5. m1 \in Ledgers /\ m2 \in Ledgers /\ m3 \in Ledgers /\ m4 \in Ledgers
  BY <1>2, <1>3, <1>4, BooksType
<1>6. ASSUME NEW u \in Users PROVE l2[u].freeze = l[u].freeze
  <2>1. m1[u].freeze = l[u].freeze
    BY <1>2, <1>3, <1>4, BooksFreeze
  <2>2. m2[u].freeze = m1[u].freeze
    BY <1>3, <1>4, <1>5, BooksFreeze
  <2>3. m3[u].freeze = m2[u].freeze
    BY <1>3, <1>4, <1>5, BooksFreeze
  <2>4. m4[u].freeze = m3[u].freeze
    BY <1>3, <1>4, <1>5, BooksFreeze
  <2>5. l2[u].freeze = m4[u].freeze
    BY <1>3, <1>4, <1>5, BooksFreeze
  <2>. QED BY <2>1, <2>2, <2>3, <2>4, <2>5
<1>. QED BY <1>2, <1>6 DEF SameFreeze

LEMMA BooksConfirm ==
  ASSUME OneClient, Requested, NEW t \in Threads, confirmOrder(t)
  PROVE  BooksInv'
<1>1. tx[t].op = "confirmOrder" /\ tx[t].op \in OrderOp
  BY DEF confirmOrder, OrderOp
<1>2. PICK o, r, ord, ord2, gd, gd2, b, b2, cn, cn2, x, old :
        /\ o = tx[t].order /\ r = tx[t].row /\ ord = order /\ ord2 = order'
        /\ gd = good /\ gd2 = good' /\ b = bills /\ b2 = bills'
        /\ cn = coin /\ cn2 = coin' /\ x = closer /\ old = tx[t].goods
  OBVIOUS
<1>3. /\ Table(ord) /\ o \in DOMAIN ord /\ o \in Orders /\ r \in Row
      /\ b \in Bills /\ cn \in Ledgers /\ gd \in GoodTable
      /\ r.good \in Goods /\ r.count \in Nat
  <2>1. r \in Row
    BY <1>1, <1>2, ReadFacts
  <2>2. r.good \in Goods /\ r.count \in Nat
    BY <2>1, MallAssumption DEF Row
  <2>. QED BY <1>1, <1>2, <2>1, <2>2, ReadFacts, CloseFacts DEF Requested
<1>4. cn2 \in Ledgers /\ Table(ord2)
  BY <1>2, NextFacts DEF Requested
<1>5. SameFreeze(cn, cn2)
  BY <1>2, CloseFacts, ConfirmFreeze DEF Requested
<1>6. /\ gd2 = [gd EXCEPT ![r.good].sales = old[r.good].sales + r.count]
      /\ b2 = [b EXCEPT ![o].confirmed = b[o].confirmed + 1]
      /\ tx' = [tx EXCEPT ![t] = Idle]
  BY <1>2 DEF confirmOrder
<1>7. Confirms(b, b2, o)
  BY <1>3, <1>6, ConfirmedOnce
<1>8. PICK st \in {"UNSEND", "SENT", "SUCCESS", "CANCEL"} :
        st = "SUCCESS" /\ ord2 = [ord EXCEPT ![o].status = st]
  BY <1>2 DEF confirmOrder
<1>9. Alters(ord, ord2, o)
  BY <1>3, <1>8, StatusAlters
<1>10. ord2[o].status = st /\ ord2[o].returned = ord[o].returned
  BY <1>3, <1>8, StatusFields
<1>11. ASSUME ~overlap
       PROVE  /\ r = ord[o] /\ NotClosed(ord[o]) /\ old = gd
              /\ ord[o].returned = "NORMAL"
  <2>1. r = ord[o] /\ old = gd /\ Check("confirmOrder", ord[o])
    BY <1>1, <1>2, <1>11, ReadFacts
  <2>2. Check("confirmOrder", ord[o]) <=> NotClosed(ord[o]) /\ ord[o].returned = "NORMAL"
    BY Zenon DEF Check
  <2>. QED BY <2>1, <2>2
<1>12. ASSUME ~overlap PROVE BookAndClose(ord, ord2, b, b2, o)
  BY <1>7, <1>8, <1>9, <1>10, <1>11, <1>12 DEF BookAndClose, Confirms, NotClosed
<1>13. ASSUME Clean, closer = NotClosing PROVE BooksKept(ord2, b2, gd2, cn2, x)
  <2>1. /\ BooksKept(ord, b, gd, cn, x) /\ Tables(ord, b, gd, cn) /\ ~overlap
        /\ x.at \in AtEase
    BY <1>2, <1>13, CleanFacts DEF Requested, NotClosing, AtEase
  <2>2. PICK y, z : /\ y = [at |-> "pay", order |-> o, row |-> r]
                    /\ z = [at |-> "sales", order |-> o, row |-> r]
    OBVIOUS
  <2>3. y.at \in {"pay", "setSuccess"} /\ y.order = o /\ z.at = "sales" /\ z.row = r
    BY <2>2
  <2>4. /\ b2 \in Bills /\ b2[o].confirmed = b[o].confirmed + 1
        /\ b2[o].refunded = b[o].refunded
    BY <1>7 DEF Confirms
  <2>5. \A q \in Orders : q # o => b2[q] = b[q]
    BY <1>7 DEF Confirms
  <2>6. NotClosed(ord[o]) /\ r = ord[o] /\ old = gd /\ ord[o].returned = "NORMAL"
    BY <1>11, <2>1
  <2>7. BooksKept(ord, b2, gd, cn2, y)
    BY ONLY <1>3, <1>5, <2>1, <2>3, <2>4, <2>5, EntryCharged
  <2>8. Tables(ord, b2, gd, cn2) /\ Tables(ord2, b2, gd, cn2)
    BY <1>3, <1>4, <2>4 DEF Tables
  <2>9. Live(ord2[o]) /\ ord2[o].status = "SUCCESS"
    BY <1>8, <1>10, <2>6 DEF Live
  <2>10. SameDeal(z.row, ord[o])
    BY <2>3, <2>6 DEF SameDeal
  <2>11. BooksKept(ord2, b2, gd, cn2, z)
    BY ONLY <1>9, <2>3, <2>6, <2>7, <2>8, <2>9, <2>10, EntryFinished
  <2>12. ASSUME NEW g \in Goods
         PROVE  /\ gd2[g].sales = gd[g].sales + (IF z.row.good = g THEN z.row.count ELSE 0)
                /\ gd2[g].stock = gd[g].stock
    <3>1. PICK h, n : h \in Goods /\ h = r.good /\ n = gd[h].sales + r.count
      BY <1>3
    <3>2. gd2 = [gd EXCEPT ![h].sales = n]
      BY <1>6, <2>6, <3>1
    <3>3. /\ gd2[g].sales = IF g = h THEN n ELSE gd[g].sales
          /\ gd2[g].stock = gd[g].stock /\ gd[g].sales \in Nat
      BY <1>3, <3>2 DEF GoodTable
    <3>. QED BY <2>3, <3>1, <3>3
  <2>13. z.row \in Row
    BY <1>3, <2>3
  <2>. QED BY ONLY <2>1, <2>3, <2>8, <2>11, <2>12, <2>13, EntrySold
<1>14. ~overlap => BookAndClose(order, order', bills, bills', o)
  BY <1>2, <1>12
<1>15. Clean /\ closer = NotClosing => BooksKept(order', bills', good', coin', closer')
  BY <1>2, <1>13 DEF Requested
<1>. QED BY <1>2, <1>6, <1>14, <1>13, BooksFinal

-----------------------------------------------------------------------------
LEMMA BooksRequests ==
  ASSUME OneClient, CloseInv, CloseInv', BooksInv, Request
  PROVE  BooksInv'
<1>1. Requested
  BY DEF Requested, Request
<1>2. PICK t \in Threads :
        \/ Pay(t)
        \/ \E op \in OrderOp, o \in Orders : Read(t, op, o)
        \/ Write(t)
        \/ Rollback(t)
  BY DEF Request, Next
<1>3. CASE Pay(t)
  <2>1. PICK u, lines : PayRead(t, u, lines)
    BY <1>3 DEF Pay
  <2>. QED BY <1>1, <2>1, BooksPayRead
<1>4. CASE \E op \in OrderOp, o \in Orders : Read(t, op, o)
  BY <1>1, <1>4, BooksRead
<1>5. CASE Write(t)
  BY <1>1, <1>5, BooksPayWrite, BooksConfirm, BooksSend, BooksReturn, BooksGiveBack
     DEF Write
<1>6. CASE Rollback(t)
  BY <1>1, <1>6, BooksRollback
<1>. QED BY <1>2, <1>3, <1>4, <1>5, <1>6

LEMMA BooksStutter ==
  ASSUME BooksInv, UNCHANGED closeVars
  PROVE  BooksInv'
  BY DEF BooksInv, Clean, closeVars

LEMMA BooksInvNext ==
  OneClient /\ CloseInv /\ BooksInv /\ [CloseNext]_closeVars => BooksInv'
<1>. SUFFICES ASSUME OneClient, CloseInv, BooksInv, [CloseNext]_closeVars
              PROVE  BooksInv'
  OBVIOUS
<1>1. CloseInv'
  BY CloseInvNext
<1>2. CASE Request
  BY <1>1, <1>2, BooksRequests
<1>3. CASE CloseStep
  BY <1>1, <1>3, BooksCloseBegin, BooksNextList, BooksTakeUp, BooksInsufficient,
     BooksRefund, BooksSetStatus, BooksReadStock, BooksWriteStock, BooksTake, BooksPay,
     BooksSetSuccess, BooksSales, BooksRept, BooksRebate, BooksLevelOne, BooksLevelTwo
     DEF CloseStep
<1>4. CASE StatementFails
  BY <1>1, <1>4, BooksStatementFails
<1>5. CASE Crash
  BY <1>1, <1>5, BooksCrash
<1>6. CASE UNCHANGED closeVars
  BY <1>6, BooksStutter
<1>. QED BY <1>2, <1>3, <1>4, <1>5, <1>6 DEF CloseNext

\* Where every share is nothing the sum is nothing.
LEMMA TotalNothing ==
  ASSUME NEW w, \A o \in Orders : w[o] = 0
  PROVE  Total(w) = 0
<1>1. PICK S : S = {}
  OBVIOUS
<1>2. S \in SUBSET Orders /\ IsFiniteSet(Orders)
  BY <1>1, MallAssumption
<1>3. \A y \in Orders : w[y] \in Int
  OBVIOUS
<1>4. \A y \in S : w[y] = w[y]
  OBVIOUS
<1>5. \A y \in Orders \ S : w[y] = 0
  OBVIOUS
<1>6. SumFunctionOnSet(w, Orders) = SumFunctionOnSet(w, S)
  BY ONLY <1>2, <1>3, <1>4, <1>5, SumGrows
<1>. QED BY <1>1, <1>6, SumEmpty DEF Total

LEMMA BooksInvInit == CloseInit => BooksInv
<1>. SUFFICES ASSUME CloseInit PROVE BooksInv
  OBVIOUS
<1>1. PICK q, x, ord, gd, b, f, cn :
        /\ q = tx /\ x = closer /\ ord = order /\ gd = good /\ b = bills
        /\ f = faults /\ cn = coin
  OBVIOUS
<1>2. /\ x = NotClosing /\ x.at = "none" /\ f = 0
      /\ \A t \in Threads : q[t] = Idle
      /\ \A o : ~In(ord, o)
      /\ \A o \in Orders : b[o].confirmed = 0 /\ b[o].refunded = 0
      /\ \A g \in Goods : gd[g].stock = InitStock /\ gd[g].sales = 0
      /\ \A u \in Users : cn[u].freeze = 0
  BY <1>1 DEF CloseInit, Init, NotClosing, In
<1>3. DOMAIN ord = {}
  BY <1>2 DEF In
<1>4. \A o \in Orders : ExtraW(ord, b)[o] = 0
  BY <1>2 DEF ExtraW, Closed, Bit
<1>5. Extra(ord, b) = 0
  BY <1>4, TotalNothing DEF Extra
<1>6. Booked(ord, b, x) /\ Extras(ord, b, x, f)
  BY <1>2, <1>3, <1>5 DEF Booked, Extras, InDoubt, Bit
<1>7. Alone(q, x) /\ ReadNow(q, ord, gd) /\ Held(x, ord, gd) /\ Waiting(x, ord)
  BY <1>2 DEF Alone, ReadNow, Held, Waiting, Idle, OrderOp, InWork, InDoubt
<1>8. OrderBook(ord, b, x)
  BY <1>2 DEF OrderBook, Charged, Repaid, Bit
<1>9. ASSUME NEW g PROVE LivePieces(ord, g) = 0 /\ DonePieces(ord, g) = 0
  <2>1. \A o \in Orders : LiveW(ord, g)[o] = 0
    BY <1>2 DEF LiveW
  <2>2. \A o \in Orders : DoneW(ord, g)[o] = 0
    BY <1>2 DEF DoneW
  <2>. QED BY <2>1, <2>2, TotalNothing DEF LivePieces, DonePieces
<1>10. StockBook(ord, gd, x)
  BY <1>2, <1>9, MallAssumption DEF StockBook, OffShelf, Unsold
<1>11. ASSUME NEW u PROVE Unrefunded(ord, b, u) = 0
  <2>1. \A o \in Orders : FreezeW(ord, b, u)[o] = 0
    BY <1>2 DEF FreezeW
  <2>. QED BY <2>1, TotalNothing DEF Unrefunded
<1>12. FreezeBook(ord, b, cn)
  BY <1>2, <1>11 DEF FreezeBook
<1>. QED BY <1>1, <1>2, <1>6, <1>7, <1>8, <1>10, <1>12 DEF BooksInv, Calm, BooksKept

LEMMA BooksInvHolds ==
  ASSUME OneClient PROVE CloseSpec => [](CloseInv /\ BooksInv)
<1>1. CloseInv /\ BooksInv /\ [CloseNext]_closeVars => CloseInv' /\ BooksInv'
  BY CloseInvNext, BooksInvNext
<1>. QED BY <1>1, CloseInvInit, BooksInvInit, PTL DEF CloseSpec

-----------------------------------------------------------------------------
\* Sums over the live and the finished orders of a good.
LEMMA PiecesOfOrders ==
  ASSUME Table(order), NEW g
  PROVE  /\ Pieces(LiveOrders(g)) = LivePieces(order, g)
         /\ Pieces(DoneOrders(g)) = DonePieces(order, g)
<1>1. PICK ord, c : /\ ord = order
                    /\ c = [o \in DOMAIN order |-> order[o].count]
  OBVIOUS
<1>2. PICK T, S : T = LiveOrders(g) /\ S = DoneOrders(g)
  OBVIOUS
<1>3. PICK w, v : w = LiveW(ord, g) /\ v = DoneW(ord, g)
  OBVIOUS
<1>4. /\ T = {o \in DOMAIN ord : ord[o].good = g /\ Live(ord[o])}
      /\ S = {o \in DOMAIN ord : ord[o].good = g /\ ord[o].status = "SUCCESS"}
  BY <1>1, <1>2 DEF LiveOrders, DoneOrders
<1>5. IsFiniteSet(Orders) /\ T \in SUBSET Orders /\ S \in SUBSET Orders /\ Table(ord)
  BY <1>1, <1>4, MallAssumption DEF Table
<1>6. \E b : b \in Bills
  <2>1. [o \in Orders |-> [confirmed |-> 0, refunded |-> 0]] \in Bills
    BY DEF Bills
  <2>. QED BY <2>1
<1>7. \A y \in Orders : w[y] \in Int
  BY <1>3, <1>5, <1>6, WeightTypes
<1>8. \A y \in Orders : v[y] \in Int
  BY <1>3, <1>5, <1>6, WeightTypes
<1>9. \A y \in T : w[y] = c[y]
  BY <1>1, <1>3, <1>4, <1>5 DEF LiveW, In
<1>10. \A y \in Orders \ T : w[y] = 0
  BY <1>3, <1>4, <1>5 DEF LiveW, In
<1>11. SumFunctionOnSet(w, Orders) = SumFunctionOnSet(c, T)
  BY ONLY <1>5, <1>7, <1>9, <1>10, SumGrows
<1>12. \A y \in S : v[y] = c[y]
  BY <1>1, <1>3, <1>4, <1>5 DEF DoneW, In
<1>13. \A y \in Orders \ S : v[y] = 0
  BY <1>3, <1>4, <1>5 DEF DoneW, In
<1>14. SumFunctionOnSet(v, Orders) = SumFunctionOnSet(c, S)
  BY ONLY <1>5, <1>8, <1>12, <1>13, SumGrows
<1>. QED BY <1>1, <1>2, <1>3, <1>11, <1>14 DEF Pieces, LivePieces, DonePieces, Total

\* Of one client at a time who is offered what belongs, between closings that
\* met no fault, the stock and the live orders make up the initial stock, the
\* sales figure counts the finished orders, and every order is booked once,
\* although statement after statement is committed by itself and writes back
\* what was read before.
THEOREM ClosingBooksCorrect ==
  ASSUME OneClient PROVE CloseSpec => []ClosingKeepsBooks
<1>1. CloseInv /\ BooksInv => ClosingKeepsBooks
  <2>. SUFFICES ASSUME CloseInv, BooksInv, Clean, closer = NotClosing
                PROVE  StockFollowsOrders /\ BookedOnce
    BY DEF ClosingKeepsBooks
  <2>1. BooksKept(order, bills, good, coin, closer) /\ Table(order)
    BY CleanFacts, CloseFacts
  <2>2. closer.at \in AtEase
    BY DEF NotClosing, AtEase
  <2>3. /\ \A o : Charged(closer, o) = 0 /\ Repaid(closer, o) = 0
        /\ \A g : OffShelf(closer, g) = 0 /\ Unsold(closer, g) = 0
    BY <2>2, AtEaseHand
  <2>4. StockFollowsOrders
    <3>. SUFFICES ASSUME NEW g \in Goods
                  PROVE  /\ good[g].stock + Pieces(LiveOrders(g)) = InitStock
                         /\ good[g].sales = Pieces(DoneOrders(g))
      BY DEF StockFollowsOrders
    <3>1. /\ good[g].stock + LivePieces(order, g) + 0 = InitStock
          /\ good[g].sales + 0 = DonePieces(order, g)
      BY <2>1, <2>3 DEF BooksKept, StockBook
    <3>2. good[g].stock \in Nat /\ good[g].sales \in Nat
      BY CloseFacts DEF GoodTable
    <3>3. LivePieces(order, g) \in Int
      <4>1. \E b : b \in Bills
        BY CloseFacts
      <4>2. \A o \in Orders : LiveW(order, g)[o] \in Nat
        BY <2>1, <4>1, WeightTypes
      <4>3. \A o \in Orders : LiveW(order, g)[o] \in Int
        BY <4>2
      <4>4. SumFunctionOnSet(LiveW(order, g), Orders) \in Int
        BY <4>3, SumType, MallAssumption
      <4>. QED BY <4>4 DEF LivePieces, Total
    <3>4. Pieces(LiveOrders(g)) = LivePieces(order, g)
      BY <2>1, PiecesOfOrders
    <3>5. Pieces(DoneOrders(g)) = DonePieces(order, g)
      BY <2>1, PiecesOfOrders
    <3>. QED BY <3>1, <3>2, <3>3, <3>4, <3>5
  <2>5. BookedOnce
    <3>. SUFFICES ASSUME NEW o \in DOMAIN order
                  PROVE  /\ bills[o].confirmed = IF order[o].status = "SUCCESS" THEN 1 ELSE 0
                         /\ bills[o].refunded = IF Live(order[o]) THEN 0 ELSE 1
      BY DEF BookedOnce
    <3>1. o \in Orders /\ In(order, o)
      BY <2>1 DEF Table, In
    <3>2. /\ bills[o].confirmed = Bit(In(order, o) /\ order[o].status = "SUCCESS") + 0
          /\ bills[o].refunded = Bit(In(order, o) /\ ~Live(order[o])) + 0
      BY <2>1, <2>3, <3>1 DEF BooksKept, OrderBook
    <3>. QED BY <3>1, <3>2 DEF Bit
  <2>. QED BY <2>4, <2>5
<1>. QED BY <1>1, BooksInvHolds, PTL

\* The larger of nothing and n.
LEMMA MaxZero ==
  ASSUME NEW n \in Int PROVE Max({0, n}) = IF n > 0 THEN n ELSE 0
<1>1. PICK m : m = (IF n > 0 THEN n ELSE 0)
  OBVIOUS
<1>2. m \in {0, n} /\ \A y \in {0, n} : m >= y
  BY <1>1
<1>3. \A z \in {0, n} : (\A y \in {0, n} : z >= y) => z = m
  BY <1>1
<1>4. Max({0, n}) \in {0, n} /\ \A y \in {0, n} : Max({0, n}) >= y
  BY <1>2 DEF Max
<1>. QED BY <1>1, <1>3, <1>4

\* The bookings beyond the first are those beyond the closed orders, but for
\* the order in doubt, which is open and booked.
LEMMA RepeatsAtMost ==
  ASSUME NEW ord, Table(ord), NEW b \in Bills, NEW gd, NEW x, NEW f \in Nat,
         Booked(ord, b, x), Extras(ord, b, x, f), Held(x, ord, gd),
         x.at \in InDoubt => x.order \in Orders
  PROVE  SumFunctionOnSet([o \in Orders |-> Max({0, b[o].confirmed + b[o].refunded - 1})],
                          Orders) <= f
<1>1. PICK w, v, k : /\ w = ExtraW(ord, b)
                     /\ v = [o \in Orders |-> Max({0, b[o].confirmed + b[o].refunded - 1})]
                     /\ k = [o \in Orders |-> IF x.at \in InDoubt /\ o = x.order
                                              THEN w[o] - 1 ELSE w[o]]
  OBVIOUS
<1>2. \A o \in Orders : w[o] \in Int
  BY <1>1, WeightTypes
<1>3. \A o \in Orders : k[o] \in Int
  BY <1>1, <1>2
<1>4. ASSUME NEW o \in Orders PROVE v[o] \in Int /\ v[o] <= k[o]
  <2>0. b[o].confirmed \in Nat /\ b[o].refunded \in Nat
    BY DEF Bills
  <2>1. PICK n \in Nat : n = b[o].confirmed + b[o].refunded
    BY <2>0
  <2>2. v[o] = IF n - 1 > 0 THEN n - 1 ELSE 0
    <3>1. PICK m \in Int : m = n - 1
      OBVIOUS
    <3>2. Max({0, m}) = IF m > 0 THEN m ELSE 0
      BY MaxZero
    <3>3. v[o] = Max({0, b[o].confirmed + b[o].refunded - 1})
      BY <1>1
    <3>4. b[o].confirmed + b[o].refunded - 1 = m
      BY <2>0, <2>1, <3>1
    <3>. QED BY <3>1, <3>2, <3>3, <3>4
  <2>3. w[o] = n - Bit(Closed(ord, o))
    <3>1. w[o] = b[o].confirmed + b[o].refunded - Bit(Closed(ord, o))
      BY <1>1 DEF ExtraW
    <3>2. Bit(Closed(ord, o)) \in Int
      BY DEF Bit
    <3>. QED BY <2>0, <2>1, <3>1, <3>2
  <2>4. Closed(ord, o) => n > 0
    BY <2>1 DEF Closed, In, Booked
  <2>5. CASE x.at \in InDoubt /\ o = x.order
    <3>1. n > 0
      BY <2>1, <2>5 DEF Booked
    <3>2. ~Closed(ord, o)
      BY <2>5 DEF Held, InWork, Closed
    <3>3. k[o] = n - 0 - 1
      BY <1>1, <2>3, <2>5, <3>2 DEF Bit
    <3>. QED BY <2>2, <3>1, <3>3
  <2>6. CASE ~(x.at \in InDoubt /\ o = x.order)
    <3>1. k[o] = n - Bit(Closed(ord, o))
      BY <1>1, <2>3, <2>6
    <3>. QED BY <2>2, <2>4, <3>1 DEF Bit
  <2>. QED BY <2>5, <2>6
<1>5. \A o \in Orders : v[o] \in Int /\ k[o] \in Int /\ v[o] <= k[o]
  BY <1>3, <1>4
<1>6. SumFunctionOnSet(v, Orders) <= SumFunctionOnSet(k, Orders)
  BY <1>5, SumAtMost, MallAssumption
<1>7. Total(w) \in Int /\ Total(w) <= f + Bit(x.at \in InDoubt)
  <2>1. SumFunctionOnSet(w, Orders) \in Int
    BY <1>2, SumType, MallAssumption
  <2>. QED BY <1>1, <2>1 DEF Extras, Extra, Total
<1>8. Total(k) \in Int /\ Total(k) <= f
  <2>1. CASE x.at \in InDoubt
    <3>1. PICK p \in Orders : p = x.order
      BY <2>1
    <3>2. \A y \in Orders : y # p => k[y] = w[y]
      BY <1>1, <3>1
    <3>3. Total(w) \in Int /\ Total(k) = Total(w) - w[p] + k[p]
      BY ONLY <1>2, <1>3, <3>2, p \in Orders, TotalAt
    <3>4. k[p] = w[p] - 1 /\ w[p] \in Int
      BY <1>1, <1>2, <2>1, <3>1
    <3>5. Total(w) <= f + 1
      BY <1>7, <2>1 DEF Bit
    <3>. QED BY <3>3, <3>4, <3>5
  <2>2. CASE x.at \notin InDoubt
    <3>1. \A y \in Orders : k[y] = w[y]
      BY <1>1, <2>2
    <3>2. Total(k) = Total(w)
      BY ONLY <1>2, <3>1, TotalSame
    <3>3. Total(w) <= f + 0
      BY <1>7, <2>2 DEF Bit
    <3>. QED BY <1>7, <3>2, <3>3
  <2>. QED BY <2>1, <2>2
<1>9. SumFunctionOnSet(v, Orders) \in Int
  BY <1>5, SumType, MallAssumption
<1>. QED BY <1>1, <1>6, <1>8, <1>9 DEF Total

\* A fault makes one booking at most be repeated, of one client at a time who
\* is offered what belongs: the bookings beyond the first of each order are
\* no more than the faults, however often the shop is closed again.
THEOREM FaultRepeatsCorrect ==
  ASSUME OneClient PROVE CloseSpec => []FaultRepeatsOneBooking
<1>1. CloseInv /\ BooksInv => FaultRepeatsOneBooking
  <2>. SUFFICES ASSUME CloseInv, BooksInv, ~overlap
                PROVE  SumFunctionOnSet(
                         [o \in Orders |-> Max({0, bills[o].confirmed + bills[o].refunded - 1})],
                         Orders) <= faults
    BY DEF FaultRepeatsOneBooking
  <2>1. PICK ord, b, gd, x, f :
          /\ ord = order /\ b = bills /\ gd = good /\ x = closer /\ f = faults
    OBVIOUS
  <2>2. Booked(ord, b, x) /\ Extras(ord, b, x, f) /\ Held(x, ord, gd)
    BY <2>1, CalmFacts
  <2>3. Table(ord) /\ b \in Bills /\ f \in Nat
    BY <2>1, CloseFacts, ShopCloseAssumption
  <2>4. x.at \in InDoubt => x.order \in Orders
    BY <2>1, AmidFacts DEF InDoubt, Refunding, Confirming
  <2>5. SumFunctionOnSet([o \in Orders |-> Max({0, b[o].confirmed + b[o].refunded - 1})],
                         Orders) <= f
    BY ONLY <2>2, <2>3, <2>4, RepeatsAtMost
  <2>. QED BY <2>1, <2>5
<1>. QED BY <1>1, BooksInvHolds, PTL

-----------------------------------------------------------------------------
\* Without a fault it is the end of the last list that ends a closing.
LEMMA ClosingEnds ==
  ASSUME CloseInv, [CloseNext]_closeVars, closer # NotClosing, closer' = NotClosing,
         faults' = 0
  PROVE  nextList /\ closer.phase = "SENT"
<1>1. closer'.at = "none" /\ closer' = closer => FALSE
  OBVIOUS
<1>2. closer'.at = "none"
  BY DEF NotClosing
<1>3. CASE Request
  BY <1>3 DEF Request
<1>4. CASE Crash \/ StatementFails
  <2>1. faults' = faults + 1 /\ faults \in Nat
    BY <1>4, CloseFacts, ShopCloseAssumption DEF Crash, StatementFails
  <2>. QED BY <2>1
<1>5. CASE UNCHANGED closeVars
  BY <1>5 DEF closeVars
<1>6. CASE CloseStep
  <2>1. ASSUME NEW s, closeOrderByUserId(s) PROVE FALSE
    BY <2>1 DEF closeOrderByUserId
  <2>2. ASSUME NEW o, takeUp(o) PROVE FALSE
    <3>1. closer.at = "next" /\ closer \in Between
      BY <2>2, CloseFacts, CloserFacts DEF takeUp
    <3>2. closer'.at \in {"take", "refund", "next"}
      BY <2>2, <3>1 DEF takeUp, Between
    <3>. QED BY <1>2, <3>2
  <2>3. ASSUME Back PROVE FALSE
    BY <1>2, <2>3 DEF Back
  <2>4. ASSUME NEW a, a # "none", Goto(a), closer.at \in Refunding \cup Confirming
        PROVE  FALSE
    BY <2>4, AmidFacts, GoneFields
  <2>5. ~insufficient /\ ~writeStock /\ ~levelTwo
    BY <2>3 DEF insufficient, writeStock, levelTwo
  <2>6. ~refund /\ ~setStatus
    BY <2>4 DEF refund, setStatus, Refunding
  <2>7. ~readStock
    <3>1. ASSUME readStock PROVE FALSE
      <4>1. closer \in Amid
        BY <3>1, AmidFacts DEF readStock, Refunding
      <4>2. closer'.at = "writeStock"
        BY <3>1, <4>1 DEF readStock, Amid
      <4>. QED BY <1>2, <4>2
    <3>. QED BY <3>1
  <2>8. ~take /\ ~pay /\ ~setSuccess /\ ~sales
    BY <2>4 DEF take, pay, setSuccess, sales, Confirming
  <2>9. ~addGoodRept /\ ~rebate /\ ~levelOne
    BY <2>4 DEF addGoodRept, rebate, levelOne, Confirming
  <2>10. nextList
    BY <1>6, <2>1, <2>2, <2>5, <2>6, <2>7, <2>8, <2>9 DEF CloseStep
  <2>11. closer.phase = "SENT"
    <3>1. ASSUME closer.phase # "SENT" PROVE FALSE
      <4>1. closer \in Between
        BY <2>10, CloseFacts, CloserFacts DEF nextList
      <4>2. closer'.at = "next"
        BY <2>10, <3>1, <4>1 DEF nextList, Between
      <4>. QED BY <1>2, <4>2
    <3>. QED BY <3>1
  <2>. QED BY <2>10, <2>11
<1>. QED BY <1>3, <1>4, <1>5, <1>6 DEF CloseNext

\* A closing that met no fault and no request leaves none of the seller's
\* orders open but those whose buyer cannot pay, where clients come one at a
\* time, are offered what belongs, and get no more back than they paid.
THEOREM ClosingEndsCorrect ==
  ASSUME OneClient, BuyRebate <= 100 PROVE CloseSpec => ClosingLeavesNothingOpen
<1>1. CloseInv /\ BooksInv /\ [CloseNext]_closeVars =>
        (closer # NotClosing /\ closer' = NotClosing /\ Clean' =>
           \A o \in DOMAIN order' :
             Owner[order'[o].good] = closer.seller =>
               \/ order'[o].status \in {"SUCCESS", "CANCEL"}
               \/ order'[o].returned = "RETURNED"
               \/ /\ order'[o].status = "SENT"
                  /\ coin'[order'[o].user].award < order'[o].total)
  <2>. SUFFICES ASSUME CloseInv, BooksInv, [CloseNext]_closeVars,
                       closer # NotClosing, closer' = NotClosing, Clean'
                PROVE  \A o \in DOMAIN order' :
                         Owner[order'[o].good] = closer.seller =>
                           \/ order'[o].status \in {"SUCCESS", "CANCEL"}
                           \/ order'[o].returned = "RETURNED"
                           \/ /\ order'[o].status = "SENT"
                              /\ coin'[order'[o].user].award < order'[o].total
    OBVIOUS
  <2>1. nextList /\ closer.phase = "SENT"
    BY ClosingEnds DEF Clean
  <2>2. /\ closer.at = "next" /\ closer.todo = {}
        /\ UNCHANGED <<vars, faults, overlap>>
    BY <2>1 DEF nextList
  <2>3. UNCHANGED <<order, coin>> /\ Clean
    BY <2>2 DEF vars, Clean
  <2>4. PICK x, ord, cn : x = closer /\ ord = order /\ cn = coin
    OBVIOUS
  <2>5. Covered(x, ord, cn) /\ Table(ord) /\ cn \in Ledgers
    BY <2>3, <2>4, CleanFacts, CloseFacts
  <2>6. x.at \notin InWork /\ x.todo = {} /\ x.phase = "SENT" /\ \A u : Coming(x, u) = 0
    BY <2>1, <2>2, <2>4, NothingComing DEF InWork, InDoubt
  <2>7. ASSUME NEW o \in DOMAIN ord, Owner[ord[o].good] = x.seller, NotClosed(ord[o])
        PROVE  ord[o].status = "SENT" /\ cn[ord[o].user].award < ord[o].total
    <3>1. ord[o].status = "SENT" /\ Poor(x, cn, ord[o])
      BY <2>5, <2>6, <2>7 DEF Covered
    <3>2. PICK u \in Users : u = ord[o].user
      BY <2>5 DEF Table, Row
    <3>3. cn[u].award \in Nat
      BY <2>5 DEF Ledgers, Balance
    <3>. QED BY <2>6, <3>1, <3>2, <3>3 DEF Poor
  <2>. QED BY <2>3, <2>4, <2>7 DEF NotClosed
<1>. QED BY <1>1, BooksInvHolds, PTL DEF CloseSpec, ClosingLeavesNothingOpen
=============================================================================
