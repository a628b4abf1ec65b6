---------------------------- MODULE SellerProofs ----------------------------
(***************************************************************************)
(* The safety of opening and closing shops, for all sellers, goods,        *)
(* consoles and phones.                                                    *)
(*                                                                         *)
(* What survives overlapping requests is a matter of counting: the         *)
(* requests that stand at a place of the handler account for the gap       *)
(* between two tables (Counts), and no request gets past the shop before   *)
(* there is one (HasShop).  What needs requests not to overlap is said of  *)
(* the one request that concerns a user (SerialOK): how far the request    *)
(* is decides what his application, permit and goods may be.               *)
(***************************************************************************)
EXTENDS Seller, FiniteSetTheorems, TLAPS

\* The requests there are, by their shape: a review, a call of
\* updateUserSellPermitStatu before and after the permit is read, an edited
\* shop, a new good, a good whose status is to change.
Review(r, u) ==
  /\ r.at \in {"reviewRead", "reviewWrite"}
  /\ r = [at |-> r.at, user |-> u, about |-> {u}, status |-> r.status]
  /\ r.status \in {"rejected", "passed"}

Asked(r, u) ==
  /\ r.at = "permitRead"
  /\ r = [at |-> r.at, user |-> u, about |-> {u},
          status |-> r.status, shown |-> r.shown]
  /\ r.status \in {0, 1}

Permitting(r, u) ==
  /\ r.at \in {"shopRead", "addShop", "levelOne", "levelTwo", "permitOpen",
               "rejectApply", "downGoods", "permitClose"}
  /\ r = [at |-> r.at, user |-> u, about |-> {u}]

EditShop(r, u) ==
  /\ r.at \in {"editShop", "insertShop"}
  /\ r = [at |-> r.at, user |-> u, about |-> {u}]

Publish(r, u) ==
  /\ r.at \in {"goodCheck", "goodWrite"}
  /\ r = [at |-> r.at, user |-> u, about |-> {u}, type |-> "PUBLISH"]

\* u is the seller who asks, or "console".
Alter(r, u) ==
  /\ r.at \in {"goodCheck", "goodWrite"}
  /\ r.type \in {"UP", "DOWN", "DELETE", "UNDELETE"}
  /\ r.good \in DOMAIN good
  /\ r = [at |-> r.at, user |-> u, about |-> r.about, good |-> r.good,
          type |-> r.type]
  /\ r.about = IF u = "console" THEN {good[r.good].user}
               ELSE {u, good[r.good].user}

FromConsole(r) ==
  \/ \E u \in Sellers : Review(r, u) \/ Asked(r, u) \/ Permitting(r, u)
  \/ Alter(r, "console")

FromPhone(r) == \E u \in Sellers : EditShop(r, u) \/ Publish(r, u) \/ Alter(r, u)

Shapes ==
  /\ req = [c \in Clients |-> req[c]]
  /\ \A c \in Consoles : req[c] = Idle \/ FromConsole(req[c])
  /\ \A p \in Phones : req[p] = Idle \/ FromPhone(req[p])

Types ==
  /\ permit \in [Sellers -> {0, 1}]
  /\ disabled \in [Sellers -> BOOLEAN]
  /\ apply \in [Sellers -> {"none", "applying", "rejected", "passed"}]
  /\ shop \in [Sellers -> Nat]
  /\ reward \in [Sellers -> [one : Nat, two : Nat]]
  /\ submitted \in [Sellers -> 0 .. MaxApply] /\ opened \in [Sellers -> Nat]
  /\ byForm \in [Sellers -> BOOLEAN]
  /\ mixed \in [Sellers -> BOOLEAN] /\ broken \in [Sellers -> BOOLEAN]
  /\ requests \in 0 .. MaxRequests /\ crashes \in 0 .. MaxCrash
  /\ DOMAIN good \subseteq Goods /\ IsFiniteSet(DOMAIN good)
  /\ good \in [DOMAIN good -> GoodRow]
  /\ upBy \in [DOMAIN good -> Sellers \cup {"console"}]

\* How many requests for user u are at a place.
At(u, place) == {c \in Clients : req[c].at = place /\ req[c].user = u}
Count(u, place) == Cardinality(At(u, place))

\* Every request that found no shop may add a row, whether it opens the shop or
\* edits it; every request past a reward has given it.
Counts ==
  \A u \in Sellers :
    /\ shop[u] + Count(u, "addShop") + Count(u, "insertShop") <= Cardinality(Clients)
    /\ reward[u].two + Count(u, "levelTwo") <= reward[u].one
    /\ opened[u] + Count(u, "permitOpen") <= reward[u].two

\* Whom an opening let sell has a shop, and so has whom a request is about to
\* reward inviters for or to let sell.
HasShop ==
  /\ \A u \in Sellers : permit[u] = 1 /\ ~byForm[u] => shop[u] >= 1
  /\ \A c \in Clients :
       req[c].at \in {"levelOne", "levelTwo", "permitOpen"} => shop[req[c].user] >= 1

Busy(c, u) == req[c] # Idle /\ u \in req[c].about

\* A passed application whose inviters are still to be rewarded, and one whose
\* user may not sell yet.
Unpaid(r) ==
  \/ r.at = "permitRead" /\ r.status = 1
  \/ r.at \in {"shopRead", "addShop", "levelOne"}
Opening(r) == Unpaid(r) \/ r.at \in {"levelTwo", "permitOpen"}
Closing(r) == r.at \in {"downGoods", "permitClose"}

\* The request will put a good of user u on sale.
Raises(r, u) ==
  /\ r.at = "goodWrite"
  /\ \/ r.type = "PUBLISH" /\ r.user = u
     \/ r.type = "UP" /\ good[r.good].user = u

\* The goods user u put on sale himself.
Offered(u) == {g \in OnSale(u) : upBy[g] = u}

\* The state of user u when r is the only request about him.  What the form
\* wrote breaks what his permit says of his application and goods; it leaves
\* alone what a request under way relies on to put that right.
SerialOK(u, r) ==
  /\ reward[u].one <= submitted[u]
  /\ apply[u] = "applying" \/ Unpaid(r) => reward[u].one < submitted[u]
  /\ r.at = "reviewWrite" => apply[u] = "applying"
  /\ Opening(r) => apply[u] = "passed"
  /\ Closing(r) => apply[u] # "passed"
  /\ ~broken[u] /\ ~byForm[u] /\ ~Opening(r) /\ ~Closing(r) =>
       (apply[u] = "passed" <=> permit[u] = 1)
  /\ Cardinality(OnSale(u)) <= GoodMax
  /\ Raises(r, u) => Cardinality(OnSale(u)) < GoodMax
  /\ permit[u] = 0 /\ ~byForm[u] => Offered(u) = {}
  /\ r.at = "permitClose" => Offered(u) = {}
  /\ r.at \in {"goodCheck", "goodWrite"} /\ r.user = u => permit[u] = 1 \/ byForm[u]

\* Requests about a user that never overlapped leave one at a time.
Serial ==
  \A u \in Sellers : ~mixed[u] =>
    /\ \A c, d \in Clients : Busy(c, u) /\ Busy(d, u) => c = d
    /\ \A c \in Clients : Busy(c, u) => SerialOK(u, req[c])
    /\ (\A c \in Clients : ~Busy(c, u)) => SerialOK(u, Idle)

Inv == Types /\ Shapes /\ Counts /\ HasShop /\ Serial

-----------------------------------------------------------------------------
(***************************************************************************)
(* The invariant implies the properties and holds initially.               *)
(***************************************************************************)

LEMMA CountIsNat ==
  ASSUME NEW u, NEW place
  PROVE  IsFiniteSet(At(u, place)) /\ Count(u, place) \in Nat
<1>1. IsFiniteSet(Clients) /\ At(u, place) \subseteq Clients
  BY SellerAssumption DEF At, Clients
<1> QED
  BY <1>1, FS_Subset, FS_CardinalityType DEF Count

LEMMA ClientsFinite ==
  IsFiniteSet(Clients) /\ Cardinality(Clients) \in Nat
<1>1. IsFiniteSet(Clients)
  BY SellerAssumption DEF Clients
<1> QED
  BY <1>1, FS_CardinalityType

LEMMA InvImplies ==
  ASSUME Inv
  PROVE  /\ TypeOK /\ OpeningIsComplete /\ OneRewardPerApplication
         /\ PassedMaySell /\ OnSaleIsAllowed
<1> USE ClientsFinite
<1>1. shop \in [Sellers -> 0 .. Cardinality(Clients)]
  <2>1. ASSUME NEW u \in Sellers PROVE shop[u] \in 0 .. Cardinality(Clients)
    <3>1. /\ shop[u] + Count(u, "addShop") + Count(u, "insertShop")
               <= Cardinality(Clients)
          /\ shop[u] \in Nat
      BY DEF Inv, Counts, Types
    <3> QED
      BY <3>1, CountIsNat
  <2> QED
    BY <2>1 DEF Inv, Types
<1>2. \A c \in Clients : req[c].at \in Place
  <2>1. Idle.at \in Place
    BY DEF Idle, Place
  <2>2. ASSUME NEW c \in Consoles PROVE req[c].at \in Place
    BY <2>1 DEF Inv, Shapes, FromConsole, Review, Asked, Permitting, Alter, Place
  <2>3. ASSUME NEW p \in Phones PROVE req[p].at \in Place
    BY <2>1 DEF Inv, Shapes, FromPhone, EditShop, Publish, Alter, Place
  <2> QED
    BY <2>2, <2>3 DEF Clients
<1>3. TypeOK
  BY <1>1, <1>2 DEF Inv, Types, TypeOK
<1>4. OpeningIsComplete
  <2>1. ASSUME NEW u \in Sellers
        PROVE  opened[u] <= reward[u].two /\ reward[u].two <= reward[u].one
    <3>1. /\ reward[u].two + Count(u, "levelTwo") <= reward[u].one
          /\ opened[u] + Count(u, "permitOpen") <= reward[u].two
          /\ reward[u].two \in Nat /\ reward[u].one \in Nat /\ opened[u] \in Nat
      BY DEF Inv, Counts, Types
    <3> QED
      BY <3>1, CountIsNat
  <2> QED
    BY <2>1 DEF Inv, HasShop, OpeningIsComplete
\* Whichever request there is about the user, or none, says what is common.
<1>5. ASSUME NEW u \in Sellers, ~mixed[u]
      PROVE  \E r : /\ SerialOK(u, r)
                    /\ (\A c \in Clients : ~Busy(c, u)) => r = Idle
  <2>1. CASE \A c \in Clients : ~Busy(c, u)
    BY <2>1, <1>5 DEF Inv, Serial
  <2>2. CASE \E c \in Clients : Busy(c, u)
    <3>1. PICK c \in Clients : Busy(c, u)
      BY <2>2
    <3>2. SerialOK(u, req[c])
      BY <3>1, <1>5 DEF Inv, Serial
    <3> QED
      BY <3>1, <3>2
  <2> QED
    BY <2>1, <2>2
<1>6. OneRewardPerApplication
  BY <1>5 DEF SerialOK, OneRewardPerApplication
<1>7. OnSaleIsAllowed
  BY <1>5 DEF SerialOK, Offered, OnSaleIsAllowed
<1>8. PassedMaySell
  <2>1. ASSUME NEW u \in Sellers, Quiet(u), ~mixed[u], ~broken[u], ~byForm[u]
        PROVE  apply[u] = "passed" <=> permit[u] = 1
    <3>1. SerialOK(u, Idle)
      BY <2>1, <1>5 DEF Quiet, Busy
    <3> QED
      BY <3>1, <2>1 DEF SerialOK, Idle, Opening, Unpaid, Closing
  <2> QED
    BY <2>1 DEF PassedMaySell
<1> QED
  BY <1>3, <1>4, <1>6, <1>7, <1>8

LEMMA InitInv ==
  ASSUME Init
  PROVE  Inv
<1> USE ClientsFinite
<1>1. DOMAIN good = {} /\ DOMAIN upBy = {}
  BY DEF Init
<1>2. Types
  <2>1. IsFiniteSet({})
    BY FS_EmptySet
  <2> QED
    BY <1>1, <2>1, SellerAssumption DEF Init, Types
<1>3. Shapes
  BY DEF Init, Shapes, Clients
<1>4. Counts
  <2>1. ASSUME NEW u \in Sellers, NEW place \in Place \ {"idle"}
        PROVE  Count(u, place) = 0
    <3>1. At(u, place) = {}
      BY DEF Init, At, Idle, Clients
    <3> QED
      BY <3>1, FS_EmptySet DEF Count
  <2> QED
    BY <2>1 DEF Init, Counts, Place
<1>5. HasShop
  BY DEF Init, HasShop, Idle, Clients
<1>6. Serial
  <2>1. ASSUME NEW u \in Sellers PROVE OnSale(u) = {} /\ Offered(u) = {}
    BY <1>1 DEF OnSale, Offered
  <2>2. ASSUME NEW u \in Sellers PROVE SerialOK(u, Idle)
    <3>1. Cardinality(OnSale(u)) = 0
      BY <2>1, FS_EmptySet
    <3> QED
      BY <2>1, <3>1, SellerAssumption
      DEF Init, SerialOK, Idle, Opening, Unpaid, Closing, Raises
  <2> QED
    BY <2>2 DEF Serial, Init, Busy, Clients
<1> QED
  BY <1>2, <1>3, <1>4, <1>5, <1>6 DEF Inv

-----------------------------------------------------------------------------
(***************************************************************************)
(* What a step of one client does to each part of the invariant: request c *)
(* becomes r.                                                              *)
(***************************************************************************)

\* Goods keep their owners.
Kept ==
  /\ DOMAIN good \subseteq DOMAIN good'
  /\ \A g \in DOMAIN good : good'[g].user = good[g].user

\* What SerialOK says of user u depends on these only.
Same(u) ==
  /\ permit'[u] = permit[u] /\ byForm'[u] = byForm[u]
  /\ apply'[u] = apply[u] /\ broken'[u] = broken[u]
  /\ reward'[u] = reward[u] /\ submitted'[u] = submitted[u]
  /\ OnSale(u)' = OnSale(u) /\ Offered(u)' = Offered(u)

\* The request moves at the user's account, one way or the other.
Here(r, u, place) == IF r.at = place /\ r.user = u THEN 1 ELSE 0

ShopBalanced(u, c, r) ==
  \/ shop'[u] = 0
  \/ shop'[u] + Here(r, u, "addShop") + Here(r, u, "insertShop")
       <= shop[u] + Here(req[c], u, "addShop") + Here(req[c], u, "insertShop")

Balanced(u, c, r) ==
  /\ ShopBalanced(u, c, r)
  /\ reward'[u].two + Here(r, u, "levelTwo") + reward[u].one
       <= reward[u].two + Here(req[c], u, "levelTwo") + reward'[u].one
  /\ opened'[u] + Here(r, u, "permitOpen") + reward[u].two
       <= opened[u] + Here(req[c], u, "permitOpen") + reward'[u].two

\* Only where there is a shop row does a step let the user sell, unless it is
\* the form.
Earned(u) ==
  permit'[u] = 1 /\ ~byForm'[u] => (permit[u] = 1 /\ ~byForm[u]) \/ shop'[u] >= 1

-----------------------------------------------------------------------------
\* What a request is, by its place.
LEMMA Places ==
  ASSUME NEW r, NEW u
  PROVE  /\ Idle.at = "idle"
         /\ Review(r, u) => r.at \in {"reviewRead", "reviewWrite"}
         /\ Asked(r, u) => r.at = "permitRead"
         /\ Permitting(r, u) =>
              r.at \in {"shopRead", "addShop", "levelOne", "levelTwo", "permitOpen",
                       "rejectApply", "downGoods", "permitClose"}
         /\ EditShop(r, u) => r.at \in {"editShop", "insertShop"}
         /\ Publish(r, u) \/ Alter(r, u) => r.at \in {"goodCheck", "goodWrite"}
<1>1. Idle.at = "idle"
  BY DEF Idle
<1>2. Review(r, u) => r.at \in {"reviewRead", "reviewWrite"}
  BY DEF Review
<1>3. Asked(r, u) => r.at = "permitRead"
  BY DEF Asked
<1>4. Permitting(r, u) =>
        r.at \in {"shopRead", "addShop", "levelOne", "levelTwo", "permitOpen",
                 "rejectApply", "downGoods", "permitClose"}
  BY DEF Permitting
<1>5. EditShop(r, u) => r.at \in {"editShop", "insertShop"}
  BY DEF EditShop
<1>6. Publish(r, u) \/ Alter(r, u) => r.at \in {"goodCheck", "goodWrite"}
  BY DEF Publish, Alter
<1> QED
  BY <1>1, <1>2, <1>3, <1>4, <1>5, <1>6

LEMMA ReviewRequest ==
  ASSUME Shapes, NEW c \in Clients,
         req[c].at \in {"reviewRead", "reviewWrite"}
  PROVE  c \in Consoles /\ \E u \in Sellers : Review(req[c], u)
<1>1. CASE req[c] = Idle
  BY <1>1, Places
<1>2. CASE c \in Consoles /\ FromConsole(req[c])
  BY <1>2, Places DEF FromConsole
<1>3. CASE c \in Phones /\ FromPhone(req[c])
  BY <1>3, Places DEF FromPhone
<1> QED
  BY <1>1, <1>2, <1>3 DEF Shapes, Clients

LEMMA AskRequest ==
  ASSUME Shapes, NEW c \in Clients,
         req[c].at = "permitRead"
  PROVE  c \in Consoles /\ \E u \in Sellers : Asked(req[c], u)
<1>1. CASE req[c] = Idle
  BY <1>1, Places
<1>2. CASE c \in Consoles /\ FromConsole(req[c])
  BY <1>2, Places DEF FromConsole
<1>3. CASE c \in Phones /\ FromPhone(req[c])
  BY <1>3, Places DEF FromPhone
<1> QED
  BY <1>1, <1>2, <1>3 DEF Shapes, Clients

LEMMA PermitRequest ==
  ASSUME Shapes, NEW c \in Clients,
         req[c].at \in {"shopRead", "addShop", "levelOne", "levelTwo",
                        "permitOpen", "rejectApply", "downGoods", "permitClose"}
  PROVE  c \in Consoles /\ \E u \in Sellers : Permitting(req[c], u)
<1>1. CASE req[c] = Idle
  BY <1>1, Places
<1>2. CASE c \in Consoles /\ FromConsole(req[c])
  BY <1>2, Places DEF FromConsole
<1>3. CASE c \in Phones /\ FromPhone(req[c])
  BY <1>3, Places DEF FromPhone
<1> QED
  BY <1>1, <1>2, <1>3 DEF Shapes, Clients

LEMMA EditRequest ==
  ASSUME Shapes, NEW c \in Clients,
         req[c].at \in {"editShop", "insertShop"}
  PROVE  c \in Phones /\ \E u \in Sellers : EditShop(req[c], u)
<1>1. CASE req[c] = Idle
  BY <1>1, Places
<1>2. CASE c \in Consoles /\ FromConsole(req[c])
  BY <1>2, Places DEF FromConsole
<1>3. CASE c \in Phones /\ FromPhone(req[c])
  BY <1>3, Places DEF FromPhone
<1> QED
  BY <1>1, <1>2, <1>3 DEF Shapes, Clients

LEMMA GoodRequest ==
  ASSUME Shapes, NEW c \in Clients,
         req[c].at \in {"goodCheck", "goodWrite"}
  PROVE  \/ c \in Consoles /\ Alter(req[c], "console")
         \/ c \in Phones /\ \E u \in Sellers : Publish(req[c], u) \/ Alter(req[c], u)
<1>1. CASE req[c] = Idle
  BY <1>1, Places
<1>2. CASE c \in Consoles /\ FromConsole(req[c])
  BY <1>2, Places DEF FromConsole
<1>3. CASE c \in Phones /\ FromPhone(req[c])
  BY <1>3, Places DEF FromPhone
<1> QED
  BY <1>1, <1>2, <1>3 DEF Shapes, Clients

-----------------------------------------------------------------------------
LEMMA ShapesMove ==
  ASSUME Shapes, Kept, NEW c \in Clients, NEW r, req' = [req EXCEPT ![c] = r],
         c \in Consoles => r = Idle \/ FromConsole(r),
         c \in Phones => r = Idle \/ FromPhone(r)
  PROVE  Shapes'
<1>1. ASSUME NEW s, NEW u, Alter(s, u) PROVE Alter(s, u)'
  BY <1>1 DEF Alter, Kept
<1>2. ASSUME NEW s, FromConsole(s) PROVE FromConsole(s)'
  BY <1>1, <1>2 DEF FromConsole, Review, Asked, Permitting
<1>3. ASSUME NEW s, FromPhone(s) PROVE FromPhone(s)'
  BY <1>1, <1>3 DEF FromPhone, EditShop, Publish
<1>4. req' = [d \in Clients |-> req'[d]]
  BY DEF Shapes
<1>5. \A d \in Clients : req'[d] = IF d = c THEN r ELSE req[d]
  BY DEF Shapes
<1>6. ASSUME NEW d \in Consoles PROVE req'[d] = Idle \/ FromConsole(req[d])'
  <2>1. PICK s : s = req'[d]
    OBVIOUS
  <2>2. s = Idle \/ FromConsole(s)
    BY <1>5, <2>1 DEF Shapes, Clients
  <2>3. s = Idle \/ FromConsole(s)'
    BY <2>2, <1>2
  <2> QED
    BY <2>1, <2>3 DEF FromConsole, Review, Asked, Permitting, Alter
<1>7. ASSUME NEW d \in Phones PROVE req'[d] = Idle \/ FromPhone(req[d])'
  <2>1. PICK s : s = req'[d]
    OBVIOUS
  <2>2. s = Idle \/ FromPhone(s)
    BY <1>5, <2>1 DEF Shapes, Clients
  <2>3. s = Idle \/ FromPhone(s)'
    BY <2>2, <1>3
  <2>4. ASSUME NEW u
        PROVE  /\ EditShop(s, u)' => EditShop(req[d], u)'
               /\ Publish(s, u)' => Publish(req[d], u)'
               /\ Alter(s, u)' => Alter(req[d], u)'
    <3>1. EditShop(s, u)' => EditShop(req[d], u)'
      BY <2>1 DEF EditShop
    <3>2. Publish(s, u)' => Publish(req[d], u)'
      BY <2>1 DEF Publish
    <3>3. Alter(s, u)' => Alter(req[d], u)'
      BY <2>1 DEF Alter
    <3> QED
      BY <3>1, <3>2, <3>3
  <2> QED
    BY <2>1, <2>3, <2>4 DEF FromPhone
<1> QED
  BY <1>4, <1>6, <1>7 DEF Shapes

\* Client c moves on to r.
CountMoves(u, place, c, r) ==
  Count(u, place)' = Count(u, place) - Here(req[c], u, place) + Here(r, u, place)

LEMMA CountMove ==
  ASSUME NEW c \in Clients, NEW r, NEW u, NEW place,
         Shapes, req' = [req EXCEPT ![c] = r]
  PROVE  CountMoves(u, place, c, r)
<1> USE DEF CountMoves
<1>1. \A d \in Clients : req'[d] = IF d = c THEN r ELSE req[d]
  BY DEF Shapes
<1>2. IsFiniteSet(At(u, place)) /\ Count(u, place) \in Nat
  BY CountIsNat
<1>3. At(u, place)' = IF r.at = place /\ r.user = u
                      THEN At(u, place) \cup {c} ELSE At(u, place) \ {c}
  BY <1>1 DEF At
<1>4. c \in At(u, place) <=> req[c].at = place /\ req[c].user = u
  BY DEF At
<1>5. CASE c \in At(u, place)
  <2>1. Cardinality(At(u, place) \ {c}) = Cardinality(At(u, place)) - 1
    BY <1>2, <1>5, FS_RemoveElement
  <2>2. At(u, place) \cup {c} = At(u, place)
    BY <1>5
  <2>3. Count(u, place)' = IF r.at = place /\ r.user = u
                           THEN Count(u, place) ELSE Count(u, place) - 1
    BY <1>3, <2>1, <2>2 DEF Count
  <2>4. Here(req[c], u, place) = 1
    BY <1>4, <1>5 DEF Here
  <2> QED
    BY <1>2, <2>3, <2>4 DEF Here
<1>6. CASE c \notin At(u, place)
  <2>1. Cardinality(At(u, place) \cup {c}) = Cardinality(At(u, place)) + 1
    BY <1>2, <1>6, FS_AddElement
  <2>2. At(u, place) \ {c} = At(u, place)
    BY <1>6
  <2>3. Count(u, place)' = IF r.at = place /\ r.user = u
                           THEN Count(u, place) + 1 ELSE Count(u, place)
    BY <1>3, <2>1, <2>2 DEF Count
  <2>4. Here(req[c], u, place) = 0
    BY <1>4, <1>6 DEF Here
  <2> QED
    BY <1>2, <2>3, <2>4 DEF Here
<1> QED
  BY <1>5, <1>6

\* A client is at one place at a time.
LEMMA AddersAreClients ==
  ASSUME NEW u
  PROVE  Count(u, "addShop")' + Count(u, "insertShop")' <= Cardinality(Clients)
<1>1. PICK A, B : A = At(u, "addShop")' /\ B = At(u, "insertShop")'
  OBVIOUS
<1>2. A \cap B = {} /\ A \cup B \subseteq Clients
  BY <1>1 DEF At
<1>3. IsFiniteSet(A) /\ IsFiniteSet(B) /\ IsFiniteSet(A \cup B)
  BY <1>2, ClientsFinite, FS_Subset
<1>4. Cardinality(A \cup B) = Cardinality(A) + Cardinality(B) - Cardinality(A \cap B)
  BY <1>3, FS_Union
<1>5. Cardinality(A \cap B) = 0
  BY <1>2, FS_EmptySet
<1>6. Cardinality(A) \in Nat /\ Cardinality(B) \in Nat
  BY <1>3, FS_CardinalityType
<1>7. Cardinality(A \cup B) <= Cardinality(Clients)
  BY <1>2, ClientsFinite, FS_Subset
<1>8. Cardinality(A) + Cardinality(B) <= Cardinality(Clients)
  BY <1>4, <1>5, <1>6, <1>7
<1> QED
  BY <1>1, <1>8 DEF Count

LEMMA CountsMove ==
  ASSUME Types, Types', Shapes, Shapes', Counts,
         NEW c \in Clients, NEW r, req' = [req EXCEPT ![c] = r],
         \A u \in Sellers : Balanced(u, c, r)
  PROVE  Counts'
<1> SUFFICES ASSUME NEW u \in Sellers
             PROVE  /\ shop'[u] + Count(u, "addShop")' + Count(u, "insertShop")'
                         <= Cardinality(Clients)
                    /\ reward'[u].two + Count(u, "levelTwo")' <= reward'[u].one
                    /\ opened'[u] + Count(u, "permitOpen")' <= reward'[u].two
  BY DEF Counts
<1> USE ClientsFinite
<1>1. ASSUME NEW place
      PROVE  /\ Count(u, place)' = Count(u, place) - Here(req[c], u, place)
                                     + Here(r, u, place)
             /\ Count(u, place) \in Nat
             /\ Here(req[c], u, place) \in 0 .. 1 /\ Here(r, u, place) \in 0 .. 1
  <2>1. Here(req[c], u, place) \in 0 .. 1 /\ Here(r, u, place) \in 0 .. 1
    BY DEF Here
  <2>2. CountMoves(u, place, c, r)
    BY CountMove
  <2>3. Count(u, place) \in Nat
    BY CountIsNat
  <2> QED
    BY <2>1, <2>2, <2>3 DEF CountMoves
<1>2. /\ shop[u] \in Nat /\ shop'[u] \in Nat /\ opened[u] \in Nat /\ opened'[u] \in Nat
      /\ reward[u].one \in Nat /\ reward'[u].one \in Nat
      /\ reward[u].two \in Nat /\ reward'[u].two \in Nat
  BY DEF Types
<1>3. /\ shop[u] + Count(u, "addShop") + Count(u, "insertShop") <= Cardinality(Clients)
      /\ reward[u].two + Count(u, "levelTwo") <= reward[u].one
      /\ opened[u] + Count(u, "permitOpen") <= reward[u].two
  BY DEF Counts
<1>4. shop'[u] + Count(u, "addShop")' + Count(u, "insertShop")' <= Cardinality(Clients)
  <2>1. CASE shop'[u] = 0
    <3>1. Count(u, "addShop")' + Count(u, "insertShop")' <= Cardinality(Clients)
      BY AddersAreClients
    <3>2. Count(u, "addShop")' \in Int /\ Count(u, "insertShop")' \in Int
      BY <1>1
    <3> QED
      BY <2>1, <3>1, <3>2
  <2>2. CASE shop'[u] # 0
    <3>1. shop'[u] + Here(r, u, "addShop") + Here(r, u, "insertShop")
            <= shop[u] + Here(req[c], u, "addShop") + Here(req[c], u, "insertShop")
      BY <2>2 DEF Balanced, ShopBalanced
    <3> QED
      BY <3>1, <1>1, <1>2, <1>3
  <2> QED
    BY <2>1, <2>2
<1>5. reward'[u].two + Count(u, "levelTwo")' <= reward'[u].one
  <2>1. reward'[u].two + Here(r, u, "levelTwo") + reward[u].one
          <= reward[u].two + Here(req[c], u, "levelTwo") + reward'[u].one
    BY DEF Balanced, ShopBalanced
  <2> QED
    BY <2>1, <1>1, <1>2, <1>3
<1>6. opened'[u] + Count(u, "permitOpen")' <= reward'[u].two
  <2>1. opened'[u] + Here(r, u, "permitOpen") + reward[u].two
          <= opened[u] + Here(req[c], u, "permitOpen") + reward'[u].two
    BY DEF Balanced, ShopBalanced
  <2> QED
    BY <2>1, <1>1, <1>2, <1>3
<1> QED
  BY <1>4, <1>5, <1>6

\* Where a shop row is needed there is one, and none is ever lost.
LEMMA HasShopMove ==
  ASSUME Types, Shapes, HasShop, NEW c \in Clients, NEW r,
         req' = [req EXCEPT ![c] = r],
         \A u \in Sellers : shop'[u] \in Nat /\ shop'[u] >= shop[u],
         \A u \in Sellers : Earned(u),
         r.at \in {"levelOne", "levelTwo", "permitOpen"} => shop'[r.user] >= 1
  PROVE  HasShop'
<1>1. \A d \in Clients : req'[d] = IF d = c THEN r ELSE req[d]
  BY DEF Shapes
<1>2. ASSUME NEW u \in Sellers, permit'[u] = 1, ~byForm'[u] PROVE shop'[u] >= 1
  BY <1>2 DEF HasShop, Types, Earned
<1>3. ASSUME NEW d \in Clients, d # c,
             req[d].at \in {"levelOne", "levelTwo", "permitOpen"}
      PROVE  shop'[req[d].user] >= 1
  <2>1. req[d].user \in Sellers
    <3>1. PICK u \in Sellers : Permitting(req[d], u)
      BY <1>3, PermitRequest
    <3> QED
      BY <3>1 DEF Permitting
  <2>2. shop[req[d].user] >= 1
    BY <1>3 DEF HasShop
  <2> QED
    BY <2>1, <2>2 DEF Types
<1> QED
  BY <1>1, <1>2, <1>3 DEF HasShop

-----------------------------------------------------------------------------
(***************************************************************************)
(* Requests that do not overlap.                                           *)
(***************************************************************************)

LEMMA SameOK ==
  ASSUME NEW u \in Sellers, Same(u), Kept, NEW r,
         r.at = "goodWrite" /\ r.type = "UP" => r.good \in DOMAIN good,
         SerialOK(u, r)
  PROVE  SerialOK(u, r)'
<1>1. Raises(r, u)' => Raises(r, u)
  BY DEF Raises, Kept
<1>2. Cardinality(OnSale(u))' = Cardinality(OnSale(u))
  BY DEF Same
<1> QED
  BY <1>1, <1>2 DEF SerialOK, Same, Opening, Unpaid, Closing

\* Nothing of a user has changed.
Still ==
  /\ permit' = permit /\ byForm' = byForm /\ apply' = apply /\ broken' = broken
  /\ reward' = reward /\ submitted' = submitted /\ good' = good /\ upBy' = upBy

LEMMA StillIsSame ==
  ASSUME Still
  PROVE  Kept /\ \A u \in Sellers : Same(u)
BY DEF Still, Kept, Same, OnSale, Offered

LEMMA StillOK ==
  ASSUME Still, NEW u, NEW r
  PROVE  SerialOK(u, r) => SerialOK(u, r)'
<1>1. Raises(r, u)' => Raises(r, u)
  BY DEF Raises, Still
<1>2. Cardinality(OnSale(u))' = Cardinality(OnSale(u)) /\ Offered(u)' = Offered(u)
  BY DEF Still, OnSale, Offered
<1> QED
  BY <1>1, <1>2 DEF SerialOK, Still, Opening, Unpaid, Closing

LEMMA GoodIsThere ==
  ASSUME Shapes, NEW c \in Clients, req[c].at = "goodWrite", req[c].type = "UP"
  PROVE  req[c].good \in DOMAIN good
<1>1. ASSUME NEW u, Publish(req[c], u) PROVE req[c].type = "PUBLISH"
  BY <1>1 DEF Publish
<1>2. ASSUME NEW u, Alter(req[c], u) PROVE req[c].good \in DOMAIN good
  BY <1>2 DEF Alter
<1> QED
  BY <1>1, <1>2, GoodRequest

LEMMA SerialMove ==
  ASSUME Shapes, Serial, Kept, NEW c \in Clients, NEW r,
         req' = [req EXCEPT ![c] = r], mixed' = mixed, req[c] # Idle,
         r = Idle \/ r.about = req[c].about,
         \A u \in Sellers : u \notin req[c].about => Same(u),
         \A u \in Sellers : u \in req[c].about /\ ~mixed[u] /\ SerialOK(u, req[c])
                              => SerialOK(u, r)'
  PROVE  Serial'
<1>1. \A d \in Clients : req'[d] = IF d = c THEN r ELSE req[d]
  BY DEF Shapes
<1> SUFFICES ASSUME NEW u \in Sellers, ~mixed[u]
             PROVE  /\ \A d, e \in Clients : Busy(d, u)' /\ Busy(e, u)' => d = e
                    /\ \A d \in Clients : Busy(d, u)' => SerialOK(u, req[d])'
                    /\ (\A d \in Clients : ~Busy(d, u)') => SerialOK(u, Idle)'
  BY DEF Serial
<1>2. /\ \A d, e \in Clients : Busy(d, u) /\ Busy(e, u) => d = e
      /\ \A d \in Clients : Busy(d, u) => SerialOK(u, req[d])
      /\ (\A d \in Clients : ~Busy(d, u)) => SerialOK(u, Idle)
  BY DEF Serial
<1>3. ASSUME NEW d \in Clients PROVE Busy(d, u)' => Busy(d, u)
  BY <1>1 DEF Busy
<1>4. \A d, e \in Clients : Busy(d, u)' /\ Busy(e, u)' => d = e
  BY <1>2, <1>3
<1>5. CASE u \in req[c].about
  <2>1. Busy(c, u)
    BY <1>5 DEF Busy
  <2>2. SerialOK(u, r)'
    BY <2>1, <1>2, <1>5
  <2>3. ASSUME NEW d \in Clients, Busy(d, u)' PROVE SerialOK(u, req[d])'
    <3>1. d = c
      BY <2>1, <2>3, <1>2, <1>3
    <3>2. req'[d] = r
      BY <3>1, <1>1
    <3> QED
      BY <3>2, <2>2 DEF SerialOK, Opening, Unpaid, Closing, Raises
  <2>4. (\A d \in Clients : ~Busy(d, u)') => r = Idle
    BY <1>1, <1>5 DEF Busy
  <2> QED
    BY <1>4, <2>2, <2>3, <2>4
<1>6. CASE u \notin req[c].about
  <2>1. Same(u)
    BY <1>6
  <2>2. ASSUME NEW d \in Clients, Busy(d, u)' PROVE SerialOK(u, req[d])'
    <3>1. d # c
      BY <2>2, <1>3, <1>6 DEF Busy
    <3>2. PICK s : s = req[d]
      OBVIOUS
    <3>3. SerialOK(u, s)
      BY <3>2, <2>2, <1>2, <1>3
    <3>4. s.at = "goodWrite" /\ s.type = "UP" => s.good \in DOMAIN good
      BY <3>2, GoodIsThere
    <3>5. SerialOK(u, s)'
      BY <2>1, <3>3, <3>4, SameOK
    <3>6. req'[d] = s
      BY <3>1, <3>2, <1>1
    <3> QED
      BY <3>5, <3>6 DEF SerialOK, Opening, Unpaid, Closing, Raises
  <2>3. ASSUME \A d \in Clients : ~Busy(d, u)' PROVE SerialOK(u, Idle)'
    <3>1. \A d \in Clients : ~Busy(d, u)
      BY <2>3, <1>1, <1>6 DEF Busy
    <3>2. SerialOK(u, Idle) /\ Idle.at # "goodWrite"
      BY <3>1, <1>2 DEF Idle
    <3> QED
      BY <2>1, <3>2, SameOK
  <2> QED
    BY <1>4, <2>2, <2>3
<1> QED
  BY <1>5, <1>6

\* A request that begins: whoever it is about and has never had two requests
\* at a time has none now.
LEMMA SerialStart ==
  ASSUME Shapes, Serial, Types, Still, NEW c \in Clients, NEW r, Start(c, r), r # Idle,
         \A u \in Sellers : u \in r.about /\ SerialOK(u, Idle) => SerialOK(u, r)
  PROVE  Serial'
<1>1. \A d \in Clients : req'[d] = IF d = c THEN r ELSE req[d]
  BY DEF Shapes, Start
<1> SUFFICES ASSUME NEW u \in Sellers, ~mixed'[u]
             PROVE  /\ \A d, e \in Clients : Busy(d, u)' /\ Busy(e, u)' => d = e
                    /\ \A d \in Clients : Busy(d, u)' => SerialOK(u, req[d])'
                    /\ (\A d \in Clients : ~Busy(d, u)') => SerialOK(u, Idle)'
  BY DEF Serial
<1>2. /\ ~mixed[u]
      /\ u \in r.about => \A d \in Clients \ {c} : ~Busy(d, u)
  BY DEF Start, Busy
<1>3. /\ \A d, e \in Clients : Busy(d, u) /\ Busy(e, u) => d = e
      /\ \A d \in Clients : Busy(d, u) => SerialOK(u, req[d])
      /\ (\A d \in Clients : ~Busy(d, u)) => SerialOK(u, Idle)
  BY <1>2 DEF Serial
<1>4. ~Busy(c, u) /\ (Busy(c, u)' <=> u \in r.about)
  BY <1>1 DEF Start, Busy
<1>5. \A d \in Clients \ {c} : Busy(d, u)' <=> Busy(d, u)
  BY <1>1 DEF Busy
<1>6. \A d, e \in Clients : Busy(d, u)' /\ Busy(e, u)' => d = e
  BY <1>2, <1>3, <1>4, <1>5
<1>7. ASSUME NEW d \in Clients, Busy(d, u)' PROVE SerialOK(u, req[d])'
  <2>1. PICK s : s = req'[d]
    OBVIOUS
  <2>2. SerialOK(u, s)
    <3>1. CASE d = c
      <4>1. SerialOK(u, Idle)
        BY <3>1, <1>7, <1>2, <1>3, <1>4
      <4> QED
        BY <3>1, <4>1, <2>1, <1>1, <1>4, <1>7
    <3>2. CASE d # c
      BY <3>2, <2>1, <1>1, <1>3, <1>5, <1>7
    <3> QED
      BY <3>1, <3>2
  <2>3. SerialOK(u, s)'
    BY <2>2, StillOK
  <2> QED
    BY <2>1, <2>3 DEF SerialOK, Opening, Unpaid, Closing, Raises
<1>8. (\A d \in Clients : ~Busy(d, u)') => SerialOK(u, Idle)'
  BY <1>3, <1>4, <1>5, StillOK
<1> QED
  BY <1>6, <1>7, <1>8

-----------------------------------------------------------------------------
(***************************************************************************)
(* The statements of a console's request about one seller.                 *)
(***************************************************************************)

\* What such a statement changes is that seller's, and the shop it needs is
\* there: then its effect on his books and on his state is all that is left
\* to show.
LEMMA PermitMove ==
  ASSUME Inv, Types', Kept, NEW c \in Consoles, NEW u \in Sellers, NEW r,
         req[c] # Idle, req[c].about = {u}, req[c].user = u,
         req' = [req EXCEPT ![c] = r], mixed' = mixed,
         r = Idle \/ (FromConsole(r) /\ r.about = {u} /\ r.user = u),
         \A v \in Sellers : v # u => /\ Same(v)
                                     /\ shop'[v] = shop[v] /\ opened'[v] = opened[v],
         Balanced(u, c, r),
         shop'[u] >= shop[u],
         Earned(u),
         r.at \in {"levelOne", "levelTwo", "permitOpen"} => shop'[u] >= 1,
         ~mixed[u] /\ SerialOK(u, req[c]) => SerialOK(u, r)'
  PROVE  Inv'
<1> USE DEF Inv
<1>1. c \in Clients /\ c \notin Phones
  BY SellerAssumption DEF Clients
<1>2. Shapes'
  BY <1>1, ShapesMove
<1>4. Counts'
  <2>1. ASSUME NEW v \in Sellers, v # u PROVE Balanced(v, c, r)
    <3>1. /\ reward[v].one \in Nat /\ reward[v].two \in Nat
          /\ opened[v] \in Nat /\ shop[v] \in Nat
      BY DEF Types
    <3>2. ASSUME NEW place \in {"addShop", "insertShop", "levelTwo", "permitOpen"}
          PROVE  Here(req[c], v, place) = 0 /\ Here(r, v, place) = 0
      BY <2>1 DEF Here, Idle
    <3> QED
      BY <2>1, <3>1, <3>2 DEF Balanced, ShopBalanced, Same
  <2> QED
    BY <2>1, <1>1, <1>2, CountsMove
<1>5. HasShop'
  <2>1. ASSUME NEW v \in Sellers PROVE shop'[v] \in Nat /\ shop'[v] >= shop[v]
    <3>1. shop[v] \in Nat /\ shop'[v] \in Nat
      BY DEF Types
    <3> QED
      BY <3>1
  <2>2. \A v \in Sellers : Earned(v)
    BY DEF Same, Earned
  <2>3. r.at \in {"levelOne", "levelTwo", "permitOpen"} => shop'[r.user] >= 1
    BY DEF Idle
  <2> QED
    BY <1>1, <2>1, <2>2, <2>3, HasShopMove
<1>6. Serial'
  <2>1. r = Idle \/ r.about = req[c].about
    OBVIOUS
  <2>2. \A v \in Sellers : v \notin req[c].about => Same(v)
    OBVIOUS
  <2>3. \A v \in Sellers : v \in req[c].about /\ ~mixed[v] /\ SerialOK(v, req[c])
                             => SerialOK(v, r)'
    OBVIOUS
  <2> QED
    BY <1>1, <2>1, <2>2, <2>3, SerialMove
<1> QED
  BY <1>2, <1>4, <1>5, <1>6

\* A request that stops or goes on and changes nothing else.
LEMMA QuietMove ==
  ASSUME Inv, NEW c \in Consoles, NEW u \in Sellers, NEW r,
         req[c] # Idle, req[c].about = {u}, req[c].user = u,
         req' = [req EXCEPT ![c] = r],
         UNCHANGED <<users, good, upBy, ghosts>>,
         r = Idle \/ (FromConsole(r) /\ r.about = {u} /\ r.user = u),
         r.at \notin {"levelTwo", "permitOpen"},
         r.at = "addShop" => shop[u] = 0,
         r.at = "levelOne" => shop[u] >= 1,
         ~mixed[u] /\ SerialOK(u, req[c]) => SerialOK(u, r)
  PROVE  Inv'
<1>1. Types'
  BY DEF Inv, Types, users, ghosts
<1>2. Still
  BY DEF Still, users, ghosts
<1>3. Kept /\ \A v \in Sellers : Same(v)
  BY <1>2, StillIsSame
<1>4. shop' = shop /\ opened' = opened /\ mixed' = mixed /\ reward' = reward
  BY DEF users, ghosts
<1>5. Balanced(u, c, r)
  <2>1. /\ reward[u].one \in Nat /\ reward[u].two \in Nat
        /\ opened[u] \in Nat /\ shop[u] \in Nat
    BY DEF Inv, Types
  <2>2. Here(r, u, "levelTwo") = 0 /\ Here(r, u, "permitOpen") = 0
    BY DEF Here
  <2>3. /\ Here(req[c], u, "levelTwo") >= 0 /\ Here(req[c], u, "levelTwo") \in Int
        /\ Here(req[c], u, "permitOpen") >= 0 /\ Here(req[c], u, "permitOpen") \in Int
        /\ Here(req[c], u, "addShop") >= 0 /\ Here(req[c], u, "addShop") \in Int
        /\ Here(req[c], u, "insertShop") >= 0 /\ Here(req[c], u, "insertShop") \in Int
    BY DEF Here
  <2>4. shop'[u] = 0 \/ Here(r, u, "addShop") = 0
    BY <1>4 DEF Here
  <2>5. Here(r, u, "insertShop") = 0
    BY Places DEF Here, FromConsole
  <2> QED
    BY <1>4, <2>1, <2>2, <2>3, <2>4, <2>5 DEF Balanced, ShopBalanced
<1>6. ~mixed[u] /\ SerialOK(u, req[c]) => SerialOK(u, r)'
  BY <1>2, StillOK
<1>7. shop'[u] >= shop[u] /\ Earned(u)
  <2>1. shop[u] \in Nat
    BY DEF Inv, Types
  <2> QED
    BY <2>1, <1>2, <1>4 DEF Still, Earned
<1> QED
  BY <1>1, <1>3, <1>4, <1>5, <1>6, <1>7, PermitMove

\* An exception marks the user and ends the request.
LEMMA ThrowInv ==
  ASSUME Inv, NEW c \in Consoles, NEW u \in Sellers,
         req[c] # Idle, req[c].about = {u}, req[c].user = u,
         Throw(c)
  PROVE  Inv'
<1>1. PICK r : r = Idle
  OBVIOUS
<1>2. /\ req' = [req EXCEPT ![c] = r] /\ mixed' = mixed
      /\ broken' = [broken EXCEPT ![u] = TRUE]
      /\ UNCHANGED <<permit, disabled, apply, shop, good, reward, upBy,
                     submitted, opened, byForm, mixed, requests, crashes>>
  BY <1>1 DEF Throw, Done, users
<1>3. Types'
  BY <1>2 DEF Inv, Types
<1>4. Kept
  BY <1>2 DEF Kept
<1>5. \A v \in Sellers : OnSale(v)' = OnSale(v) /\ Offered(v)' = Offered(v)
  BY <1>2 DEF OnSale, Offered
<1>6. \A v \in Sellers : v # u => /\ Same(v)
                                  /\ shop'[v] = shop[v] /\ opened'[v] = opened[v]
  BY <1>2, <1>5 DEF Inv, Types, Same
<1>7. Balanced(u, c, r)
  <2>1. /\ reward[u].one \in Nat /\ reward[u].two \in Nat
        /\ opened[u] \in Nat /\ shop[u] \in Nat
    BY DEF Inv, Types
  <2>2. ASSUME NEW place \in {"addShop", "insertShop", "levelTwo", "permitOpen"}
        PROVE  Here(r, u, place) = 0 /\ Here(req[c], u, place) \in 0 .. 1
    BY <1>1 DEF Here, Idle
  <2> QED
    BY <1>2, <2>1, <2>2 DEF Balanced, ShopBalanced
<1>8. SerialOK(u, req[c]) => SerialOK(u, r)'
  <2>1. broken'[u] = TRUE
    BY <1>2 DEF Inv, Types
  <2>2. Cardinality(OnSale(u))' = Cardinality(OnSale(u)) /\ Offered(u)' = Offered(u)
    BY <1>5
  <2>3. r.at = "idle"
    BY <1>1, Places
  <2> QED
    BY <1>2, <2>1, <2>2, <2>3 DEF SerialOK, Opening, Unpaid, Closing, Raises
<1>9. /\ shop'[u] >= shop[u] /\ Earned(u)
      /\ r.at \notin {"levelOne", "levelTwo", "permitOpen"}
  BY <1>1, <1>2 DEF Inv, Types, Idle, Earned
<1> QED
  BY <1>1, <1>2, <1>3, <1>4, <1>6, <1>7, <1>8, <1>9, PermitMove

LEMMA reviewReadInv ==
  ASSUME Inv, NEW c \in Consoles, reviewRead(c)
  PROVE  Inv'
<1>1. c \in Clients /\ req[c].at = "reviewRead"
  BY DEF reviewRead, Clients
<1>2. PICK u \in Sellers : Review(req[c], u)
  BY <1>1, ReviewRequest DEF Inv
<1>3. req[c] # Idle /\ req[c].about = {u} /\ req[c].user = u
  BY <1>1, <1>2, Places DEF Review
<1>4. CASE apply[u] = "applying"
  <2>1. PICK r : r = [at |-> "reviewWrite", user |-> u, about |-> {u},
                      status |-> req[c].status]
    OBVIOUS
  <2>2. req' = [req EXCEPT ![c] = r]
    BY <1>1, <1>2, <1>3, <1>4, <2>1 DEF reviewRead, Goto, Review, Inv, Shapes
  <2>3. Review(r, u)
    BY <1>2, <2>1 DEF Review
  <2>4. SerialOK(u, req[c]) => SerialOK(u, r)
    BY <1>1, <1>4, <2>1 DEF SerialOK, Opening, Unpaid, Closing, Raises
  <2> QED
    BY <1>3, <2>1, <2>2, <2>3, <2>4, QuietMove DEF reviewRead, FromConsole
<1>5. CASE apply[u] # "applying"
  <2>1. PICK r : r = Idle
    OBVIOUS
  <2>2. req' = [req EXCEPT ![c] = r]
    BY <1>3, <1>5, <2>1 DEF reviewRead, Done
  <2>3. r.at = "idle"
    BY <2>1, Places
  <2>4. SerialOK(u, req[c]) => SerialOK(u, r)
    BY <1>1, <1>5, <2>3 DEF SerialOK, Opening, Unpaid, Closing, Raises
  <2> QED
    BY <1>3, <2>1, <2>2, <2>3, <2>4, QuietMove DEF reviewRead
<1> QED
  BY <1>4, <1>5

LEMMA reviewWriteInv ==
  ASSUME Inv, NEW c \in Consoles, reviewWrite(c)
  PROVE  Inv'
<1>1. c \in Clients /\ req[c].at = "reviewWrite"
  BY DEF reviewWrite, Clients
<1>2. PICK u \in Sellers : Review(req[c], u)
  BY <1>1, ReviewRequest DEF Inv
<1>3. req[c] # Idle /\ req[c].about = {u} /\ req[c].user = u
      /\ req[c].status \in {"rejected", "passed"}
  BY <1>1, <1>2, Places DEF Review
<1>4. PICK r : r = IF req[c].status = "passed"
                   THEN [at |-> "permitRead", user |-> u, about |-> {u},
                         status |-> 1, shown |-> 0]
                   ELSE Idle
  OBVIOUS
<1>5. req' = [req EXCEPT ![c] = r]
  BY <1>3, <1>4 DEF reviewWrite, Done
<1>6. r = Idle \/ (FromConsole(r) /\ r.about = {u} /\ r.user = u)
  <2>1. CASE req[c].status = "passed"
    <3>1. Asked(r, u)
      BY <1>4, <2>1 DEF Asked
    <3> QED
      BY <3>1, <1>4, <2>1 DEF FromConsole
  <2> QED
    BY <2>1, <1>4
<1>7. /\ apply' = [apply EXCEPT ![u] = req[c].status]
      /\ UNCHANGED <<permit, disabled, shop, reward, good, upBy, ghosts>>
  BY <1>3 DEF reviewWrite
<1>8. Types'
  BY <1>3, <1>7 DEF Inv, Types, ghosts
<1>9. Kept /\ \A v \in Sellers : OnSale(v)' = OnSale(v) /\ Offered(v)' = Offered(v)
  BY <1>7 DEF Kept, OnSale, Offered
<1>10. \A v \in Sellers : v # u => /\ Same(v)
                                   /\ shop'[v] = shop[v] /\ opened'[v] = opened[v]
  BY <1>7, <1>9 DEF Inv, Types, Same, ghosts
<1>11. r.at \in {"permitRead", "idle"}
  BY <1>4, Places
<1>12. Balanced(u, c, r)
  <2>1. /\ reward[u].one \in Nat /\ reward[u].two \in Nat
        /\ opened[u] \in Nat /\ shop[u] \in Nat
    BY DEF Inv, Types
  <2>2. ASSUME NEW place \in {"addShop", "insertShop", "levelTwo", "permitOpen"}
        PROVE  Here(r, u, place) = 0 /\ Here(req[c], u, place) = 0
    BY <1>1, <1>11 DEF Here
  <2> QED
    BY <1>7, <2>1, <2>2 DEF Balanced, ShopBalanced, ghosts
<1>13. SerialOK(u, req[c]) => SerialOK(u, r)'
  <2>1. SUFFICES ASSUME SerialOK(u, req[c]) PROVE SerialOK(u, r)'
    OBVIOUS
  <2>2. Cardinality(OnSale(u))' = Cardinality(OnSale(u)) /\ Offered(u)' = Offered(u)
    BY <1>9
  <2>3. apply[u] = "applying" /\ apply'[u] = req[c].status
    BY <1>1, <1>7, <2>1 DEF SerialOK, Inv, Types
  <2>4. permit[u] # 1 \/ broken[u] \/ byForm[u]
    BY <1>1, <2>1, <2>3 DEF SerialOK, Opening, Unpaid, Closing
  <2>5. reward[u].one < submitted[u]
    BY <2>1, <2>3 DEF SerialOK
  <2>6. req[c].status = "passed" <=> r.at = "permitRead"
    BY <1>4, Places
  <2>7. r.at = "permitRead" => r.status = 1
    BY <1>4, Places
  <2> QED
    BY <1>1, <1>3, <1>7, <1>11, <2>1, <2>2, <2>3, <2>4, <2>5, <2>6, <2>7
    DEF SerialOK, Opening, Unpaid, Closing, Raises, ghosts
<1>14. /\ shop'[u] >= shop[u]
       /\ Earned(u)
       /\ r.at \notin {"levelOne", "levelTwo", "permitOpen"} /\ mixed' = mixed
  BY <1>7, <1>11 DEF Inv, Types, ghosts, Earned
<1> QED
  BY <1>3, <1>5, <1>6, <1>8, <1>9, <1>10, <1>12, <1>13, <1>14, PermitMove

LEMMA permitReadInv ==
  ASSUME Inv, NEW c \in Consoles, permitRead(c)
  PROVE  Inv'
<1>1. c \in Clients /\ req[c].at = "permitRead"
  BY DEF permitRead, Clients
<1>2. PICK u \in Sellers : Asked(req[c], u)
  BY <1>1, AskRequest DEF Inv
<1>3. /\ req[c] # Idle /\ req[c].about = {u} /\ req[c].user = u
      /\ req[c].status \in {0, 1} /\ permit[u] \in {0, 1}
  <2>1. req[c] # Idle
    BY <1>1, Places
  <2>2. req[c].about = {u} /\ req[c].user = u /\ req[c].status \in {0, 1}
    BY <1>2 DEF Asked
  <2> QED
    BY <2>1, <2>2 DEF Inv, Types
<1>6. UNCHANGED <<users, good, upBy, ghosts>>
  BY DEF permitRead
<1>4. CASE permit[u] = req[c].status
  <2>1. PICK r : r = Idle
    OBVIOUS
  <2>2. req' = [req EXCEPT ![c] = r]
    BY <1>3, <1>4, <2>1 DEF permitRead
  <2>3. r.at = "idle"
    BY <2>1, Places
  <2>4. SerialOK(u, req[c]) => SerialOK(u, r)
    BY <1>1, <1>3, <1>4, <2>3 DEF SerialOK, Opening, Unpaid, Closing, Raises
  <2> QED
    BY <1>3, <1>6, <2>1, <2>2, <2>3, <2>4, QuietMove
<1>5. CASE permit[u] # req[c].status
  <2>1. PICK r : r = [at |-> IF req[c].status = 1 THEN "shopRead" ELSE "rejectApply",
                      user |-> u, about |-> {u}]
    OBVIOUS
  <2>2. req' = [req EXCEPT ![c] = r]
    BY <1>3, <1>5, <2>1 DEF permitRead
  <2>3. Permitting(r, u)
    BY <2>1 DEF Permitting
  <2>4. r.at = IF req[c].status = 1 THEN "shopRead" ELSE "rejectApply"
    BY <2>1
  <2>5. SerialOK(u, req[c]) => SerialOK(u, r)
    BY <1>1, <1>3, <1>5, <2>4 DEF SerialOK, Opening, Unpaid, Closing, Raises
  <2> QED
    <3>1. FromConsole(r) /\ r.about = {u} /\ r.user = u
      BY <2>1, <2>3 DEF FromConsole
    <3> QED
      BY <1>3, <1>6, <2>2, <2>4, <2>5, <3>1, QuietMove
<1> QED
  BY <1>4, <1>5

LEMMA permitReadDisabledInv ==
  ASSUME Inv, NEW c \in Consoles, permitReadDisabled(c)
  PROVE  Inv'
<1>1. c \in Clients /\ req[c].at = "permitRead" /\ Throw(c)
  BY DEF permitReadDisabled, Clients
<1>2. PICK u \in Sellers : Asked(req[c], u)
  BY <1>1, AskRequest DEF Inv
<1>3. req[c] # Idle /\ req[c].about = {u} /\ req[c].user = u
  BY <1>1, <1>2, Places DEF Asked
<1> QED
  BY <1>1, <1>3, ThrowInv

\* The request of a console inside updateUserSellPermitStatu, and what Goto
\* makes of it.
LEMMA Inside ==
  ASSUME Inv, NEW c \in Consoles,
         req[c].at \in {"shopRead", "addShop", "levelOne", "levelTwo",
                        "permitOpen", "rejectApply", "downGoods", "permitClose"}
  PROVE  \E u \in Sellers :
           /\ req[c] # Idle /\ req[c].about = {u} /\ req[c].user = u
           /\ \A place : Goto(c, place) =>
                req' = [req EXCEPT ![c] = [at |-> place, user |-> u, about |-> {u}]]
<1>1. PICK u \in Sellers : Permitting(req[c], u)
  BY PermitRequest DEF Inv, Clients
<1>2. req[c] # Idle /\ req[c].about = {u} /\ req[c].user = u
  BY <1>1, Places DEF Permitting
<1>3. ASSUME NEW place, Goto(c, place)
      PROVE  req' = [req EXCEPT ![c] = [at |-> place, user |-> u, about |-> {u}]]
  <2>1. req[c] = [at |-> req[c].at, user |-> u, about |-> {u}]
    BY <1>1 DEF Permitting
  <2>2. [req[c] EXCEPT !.at = place] = [at |-> place, user |-> u, about |-> {u}]
    BY <2>1
  <2>3. req' = [req EXCEPT ![c] = [req[c] EXCEPT !.at = place]]
    BY <1>3 DEF Goto
  <2> QED
    BY <2>2, <2>3
<1> QED
  BY <1>2, <1>3

LEMMA shopReadInv ==
  ASSUME Inv, NEW c \in Consoles, shopRead(c) \/ shopReadTwo(c)
  PROVE  Inv'
<1>1. req[c].at = "shopRead"
  BY DEF shopRead, shopReadTwo
<1>2. PICK u \in Sellers :
        /\ req[c] # Idle /\ req[c].about = {u} /\ req[c].user = u
        /\ \A place : Goto(c, place) =>
             req' = [req EXCEPT ![c] = [at |-> place, user |-> u, about |-> {u}]]
  BY <1>1, Inside
<1>3. CASE shopReadTwo(c)
  BY <1>2, <1>3, ThrowInv DEF shopReadTwo
<1>4. CASE shopRead(c)
  <2>1. PICK place : place = IF shop[u] = 0 THEN "addShop" ELSE "levelOne"
    OBVIOUS
  <2>2. PICK r : r = [at |-> place, user |-> u, about |-> {u}]
    OBVIOUS
  <2>3. Goto(c, place)
    BY <1>2, <1>4, <2>1 DEF shopRead
  <2>4. req' = [req EXCEPT ![c] = r]
    BY <1>2, <2>2, <2>3
  <2>5. Permitting(r, u) /\ r.at = place /\ r.about = {u} /\ r.user = u
    BY <2>1, <2>2 DEF Permitting
  <2>6. SerialOK(u, req[c]) => SerialOK(u, r)
    BY <1>1, <2>1, <2>5 DEF SerialOK, Opening, Unpaid, Closing, Raises
  <2>7. (place = "addShop" => shop[u] = 0) /\ (place = "levelOne" => shop[u] >= 1)
    BY <2>1 DEF Inv, Types
  <2>8. place \in {"addShop", "levelOne"} /\ FromConsole(r)
    BY <2>1, <2>5 DEF FromConsole
  <2> QED
    BY <1>2, <1>4, <2>4, <2>5, <2>6, <2>7, <2>8, QuietMove DEF shopRead
<1> QED
  BY <1>3, <1>4

LEMMA addShopDuplicateInv ==
  ASSUME Inv, NEW c \in Consoles, addShopDuplicate(c)
  PROVE  Inv'
<1>1. req[c].at = "addShop" /\ Throw(c)
  BY DEF addShopDuplicate
<1> QED
  BY <1>1, Inside, ThrowInv

LEMMA addShopInv ==
  ASSUME Inv, NEW c \in Consoles, addShop(c)
  PROVE  Inv'
<1>1. req[c].at = "addShop"
  BY DEF addShop
<1>2. PICK u \in Sellers :
        /\ req[c] # Idle /\ req[c].about = {u} /\ req[c].user = u
        /\ \A place : Goto(c, place) =>
             req' = [req EXCEPT ![c] = [at |-> place, user |-> u, about |-> {u}]]
  BY <1>1, Inside
<1>3. PICK r : r = [at |-> "levelOne", user |-> u, about |-> {u}]
  OBVIOUS
<1>4. /\ req' = [req EXCEPT ![c] = r]
      /\ shop' = [shop EXCEPT ![u] = shop[u] + 1]
      /\ UNCHANGED <<permit, disabled, apply, reward, good, upBy, ghosts>>
  BY <1>2, <1>3 DEF addShop
<1>5. Permitting(r, u) /\ r.at = "levelOne" /\ r.about = {u} /\ r.user = u
  BY <1>3 DEF Permitting
<1>6. Types'
  BY <1>4 DEF Inv, Types, ghosts
<1>7. Still /\ opened' = opened /\ mixed' = mixed
  BY <1>4 DEF Still, ghosts
<1>8. Kept /\ \A v \in Sellers : Same(v)
  BY <1>7, StillIsSame
<1>9. \A v \in Sellers : v # u => shop'[v] = shop[v]
  BY <1>4 DEF Inv, Types
<1>10. /\ reward[u].one \in Nat /\ reward[u].two \in Nat
       /\ opened[u] \in Nat /\ shop[u] \in Nat /\ shop'[u] = shop[u] + 1
  BY <1>4 DEF Inv, Types
<1>11. Balanced(u, c, r)
  BY <1>1, <1>2, <1>5, <1>7, <1>10 DEF Balanced, ShopBalanced, Here, Still
<1>12. SerialOK(u, req[c]) => SerialOK(u, r)
  BY <1>1, <1>5 DEF SerialOK, Opening, Unpaid, Closing, Raises
<1>13. SerialOK(u, req[c]) => SerialOK(u, r)'
  BY <1>7, <1>12, StillOK
<1>14. shop'[u] >= shop[u] /\ shop'[u] >= 1 /\ Earned(u) /\ FromConsole(r)
  BY <1>5, <1>10 DEF FromConsole, Earned
<1>15. \A v \in Sellers : v # u => /\ Same(v)
                                   /\ shop'[v] = shop[v] /\ opened'[v] = opened[v]
  BY <1>7, <1>8, <1>9
<1>16. /\ req[c] # Idle /\ req[c].about = {u} /\ req[c].user = u
       /\ req' = [req EXCEPT ![c] = r] /\ mixed' = mixed
  BY <1>2, <1>4, <1>7
<1> QED
  BY <1>5, <1>6, <1>8, <1>11, <1>13, <1>14, <1>15, <1>16, PermitMove

\* Both rewards.
LEMMA levelInv ==
  ASSUME Inv, NEW c \in Consoles, levelOne(c) \/ levelTwo(c)
  PROVE  Inv'
<1>1. req[c].at \in {"levelOne", "levelTwo"}
  BY DEF levelOne, levelTwo
<1>2. PICK u \in Sellers :
        /\ req[c] # Idle /\ req[c].about = {u} /\ req[c].user = u
        /\ \A place : Goto(c, place) =>
             req' = [req EXCEPT ![c] = [at |-> place, user |-> u, about |-> {u}]]
  BY <1>1, Inside
<1>3. PICK r : r = [at |-> IF levelOne(c) THEN "levelTwo" ELSE "permitOpen",
                    user |-> u, about |-> {u}]
  OBVIOUS
<1>4. /\ req' = [req EXCEPT ![c] = r]
      /\ UNCHANGED <<permit, disabled, apply, shop, good, upBy, ghosts>>
  BY <1>2, <1>3 DEF levelOne, levelTwo
<1>5. /\ Permitting(r, u) /\ r.about = {u} /\ r.user = u
      /\ r.at = IF req[c].at = "levelOne" THEN "levelTwo" ELSE "permitOpen"
  <2>1. r.at = IF levelOne(c) THEN "levelTwo" ELSE "permitOpen"
    BY <1>3
  <2>2. levelOne(c) <=> req[c].at = "levelOne"
    BY DEF levelOne, levelTwo
  <2>3. r = [at |-> r.at, user |-> u, about |-> {u}]
    BY <1>3
  <2> QED
    BY <2>1, <2>2, <2>3 DEF Permitting
<1>6. /\ reward' = [reward EXCEPT ![u] = reward'[u]]
      /\ reward'[u] \in [one : Nat, two : Nat]
      /\ reward'[u].one = reward[u].one + (IF req[c].at = "levelOne" THEN 1 ELSE 0)
      /\ reward'[u].two = reward[u].two + (IF req[c].at = "levelOne" THEN 0 ELSE 1)
  <2>1. reward \in [Sellers -> [one : Nat, two : Nat]]
    BY DEF Inv, Types
  <2>2. CASE levelOne(c)
    <3>1. /\ reward' = [reward EXCEPT ![u].one = reward[u].one + 1]
          /\ req[c].at = "levelOne"
      BY <1>2, <2>2 DEF levelOne
    <3> QED
      BY <2>1, <3>1
  <2>3. CASE levelTwo(c)
    <3>1. /\ reward' = [reward EXCEPT ![u].two = reward[u].two + 1]
          /\ req[c].at = "levelTwo"
      BY <1>2, <2>3 DEF levelTwo
    <3> QED
      BY <2>1, <3>1
  <2> QED
    BY <2>2, <2>3
<1>7. Types'
  BY <1>4, <1>6 DEF Inv, Types, ghosts
<1>8. Kept /\ \A v \in Sellers : OnSale(v)' = OnSale(v) /\ Offered(v)' = Offered(v)
  BY <1>4 DEF Kept, OnSale, Offered
<1>9. \A v \in Sellers : v # u => /\ Same(v)
                                  /\ shop'[v] = shop[v] /\ opened'[v] = opened[v]
  BY <1>4, <1>6, <1>8 DEF Inv, Types, Same, ghosts
<1>10. /\ reward[u].one \in Nat /\ reward[u].two \in Nat
       /\ opened[u] \in Nat /\ shop[u] \in Nat
  BY DEF Inv, Types
<1>11. Balanced(u, c, r)
  BY <1>1, <1>2, <1>4, <1>5, <1>6, <1>10 DEF Balanced, ShopBalanced, Here, ghosts
<1>12. SerialOK(u, req[c]) => SerialOK(u, r)'
  <2>1. SUFFICES ASSUME SerialOK(u, req[c]) PROVE SerialOK(u, r)'
    OBVIOUS
  <2>2. Cardinality(OnSale(u))' = Cardinality(OnSale(u)) /\ Offered(u)' = Offered(u)
    BY <1>8
  <2>3. apply[u] = "passed"
    BY <1>1, <2>1 DEF SerialOK, Opening, Unpaid
  <2>4. submitted[u] \in Nat
    BY DEF Inv, Types
  <2>5. reward'[u].one <= submitted[u]
    BY <1>1, <1>6, <1>10, <2>1, <2>4 DEF SerialOK, Unpaid
  <2> QED
    BY <1>1, <1>4, <1>5, <2>1, <2>2, <2>3, <2>5
    DEF SerialOK, Opening, Unpaid, Closing, Raises, ghosts
<1>13. shop'[u] >= shop[u] /\ shop'[u] >= 1 /\ Earned(u) /\ FromConsole(r)
  <2>1. shop[u] >= 1
    BY <1>1, <1>2 DEF Inv, HasShop, Clients
  <2> QED
    BY <2>1, <1>4, <1>5, <1>10 DEF FromConsole, Earned
<1>14. mixed' = mixed
  BY <1>4 DEF ghosts
<1> QED
  BY <1>2, <1>4, <1>5, <1>7, <1>8, <1>9, <1>11, <1>12, <1>13, <1>14, PermitMove

LEMMA permitOpenInv ==
  ASSUME Inv, NEW c \in Consoles, permitOpen(c)
  PROVE  Inv'
<1>1. req[c].at = "permitOpen"
  BY DEF permitOpen
<1>2. PICK u \in Sellers : req[c] # Idle /\ req[c].about = {u} /\ req[c].user = u
  BY <1>1, Inside
<1>3. PICK r : r = Idle
  OBVIOUS
<1>4. /\ req' = [req EXCEPT ![c] = r]
      /\ permit' = [permit EXCEPT ![u] = 1]
      /\ opened' = [opened EXCEPT ![u] = opened[u] + (1 - permit[u])]
      /\ byForm' = [byForm EXCEPT ![u] = FALSE]
      /\ UNCHANGED <<disabled, apply, shop, reward, good, upBy,
                     submitted, mixed, broken, requests, crashes>>
  BY <1>2, <1>3 DEF permitOpen, Done
<1>5. r.at = "idle"
  BY <1>3, Places
<1>6. /\ permit[u] \in {0, 1} /\ opened[u] \in Nat /\ shop[u] \in Nat
      /\ opened'[u] = opened[u] + (1 - permit[u]) /\ permit'[u] = 1
      /\ reward[u].one \in Nat /\ reward[u].two \in Nat
  BY <1>4 DEF Inv, Types
<1>7. Types'
  <2>1. opened[u] + (1 - permit[u]) \in Nat
    BY <1>6
  <2> QED
    BY <1>4, <2>1 DEF Inv, Types
<1>8. Kept /\ \A v \in Sellers : OnSale(v)' = OnSale(v) /\ Offered(v)' = Offered(v)
  BY <1>4 DEF Kept, OnSale, Offered
<1>9. \A v \in Sellers : v # u => /\ Same(v)
                                  /\ shop'[v] = shop[v] /\ opened'[v] = opened[v]
  BY <1>4, <1>8 DEF Inv, Types, Same
<1>10. Balanced(u, c, r)
  BY <1>1, <1>2, <1>4, <1>5, <1>6 DEF Balanced, ShopBalanced, Here
<1>11. SerialOK(u, req[c]) => SerialOK(u, r)'
  <2>1. SUFFICES ASSUME SerialOK(u, req[c]) PROVE SerialOK(u, r)'
    OBVIOUS
  <2>2. Cardinality(OnSale(u))' = Cardinality(OnSale(u)) /\ Offered(u)' = Offered(u)
    BY <1>8
  <2>3. apply[u] = "passed"
    BY <1>1, <2>1 DEF SerialOK, Opening, Unpaid
  <2> QED
    BY <1>1, <1>4, <1>5, <1>6, <2>1, <2>2, <2>3
    DEF SerialOK, Opening, Unpaid, Closing, Raises
<1>12. shop'[u] >= shop[u] /\ shop'[u] >= 1 /\ Earned(u)
  <2>1. shop[u] >= 1
    BY <1>1, <1>2 DEF Inv, HasShop, Clients
  <2> QED
    BY <2>1, <1>4, <1>6 DEF Earned
<1> QED
  BY <1>2, <1>3, <1>4, <1>5, <1>7, <1>8, <1>9, <1>10, <1>11, <1>12, PermitMove

LEMMA rejectApplyInv ==
  ASSUME Inv, NEW c \in Consoles, rejectApply(c)
  PROVE  Inv'
<1>1. req[c].at = "rejectApply"
  BY DEF rejectApply
<1>2. PICK u \in Sellers :
        /\ req[c] # Idle /\ req[c].about = {u} /\ req[c].user = u
        /\ \A place : Goto(c, place) =>
             req' = [req EXCEPT ![c] = [at |-> place, user |-> u, about |-> {u}]]
  BY <1>1, Inside
<1>3. PICK r : r = [at |-> "downGoods", user |-> u, about |-> {u}]
  OBVIOUS
<1>4. /\ req' = [req EXCEPT ![c] = r]
      /\ apply' = [apply EXCEPT ![u] = IF apply[u] = "none" THEN "none" ELSE "rejected"]
      /\ UNCHANGED <<permit, disabled, shop, reward, good, upBy, ghosts>>
  BY <1>2, <1>3 DEF rejectApply
<1>5. Permitting(r, u) /\ r.at = "downGoods" /\ r.about = {u} /\ r.user = u
  BY <1>3 DEF Permitting
<1>6. Types'
  BY <1>4 DEF Inv, Types, ghosts
<1>7. Kept /\ \A v \in Sellers : OnSale(v)' = OnSale(v) /\ Offered(v)' = Offered(v)
  BY <1>4 DEF Kept, OnSale, Offered
<1>8. \A v \in Sellers : v # u => /\ Same(v)
                                  /\ shop'[v] = shop[v] /\ opened'[v] = opened[v]
  BY <1>4, <1>7 DEF Inv, Types, Same, ghosts
<1>9. /\ reward[u].one \in Nat /\ reward[u].two \in Nat
      /\ opened[u] \in Nat /\ shop[u] \in Nat
  BY DEF Inv, Types
<1>10. Balanced(u, c, r)
  <2>1. ASSUME NEW place \in {"addShop", "insertShop", "levelTwo", "permitOpen"}
        PROVE  Here(r, u, place) = 0 /\ Here(req[c], u, place) = 0
    BY <1>1, <1>5 DEF Here
  <2> QED
    BY <1>4, <1>9, <2>1 DEF Balanced, ShopBalanced, ghosts
<1>11. SerialOK(u, req[c]) => SerialOK(u, r)'
  <2>1. SUFFICES ASSUME SerialOK(u, req[c]) PROVE SerialOK(u, r)'
    OBVIOUS
  <2>2. Cardinality(OnSale(u))' = Cardinality(OnSale(u)) /\ Offered(u)' = Offered(u)
    BY <1>7
  <2>3. apply'[u] \in {"none", "rejected"}
    BY <1>4 DEF Inv, Types
  <2> QED
    BY <1>1, <1>4, <1>5, <2>1, <2>2, <2>3
    DEF SerialOK, Opening, Unpaid, Closing, Raises, ghosts
<1>12. /\ shop'[u] >= shop[u] /\ Earned(u)
       /\ FromConsole(r) /\ mixed' = mixed
  BY <1>4, <1>5, <1>9 DEF FromConsole, ghosts, Earned
<1> QED
  BY <1>2, <1>4, <1>5, <1>6, <1>7, <1>8, <1>10, <1>11, <1>12, PermitMove

LEMMA downGoodsInv ==
  ASSUME Inv, NEW c \in Consoles, downGoodsByUserId(c)
  PROVE  Inv'
<1>1. req[c].at = "downGoods"
  BY DEF downGoodsByUserId
<1>2. PICK u \in Sellers :
        /\ req[c] # Idle /\ req[c].about = {u} /\ req[c].user = u
        /\ \A place : Goto(c, place) =>
             req' = [req EXCEPT ![c] = [at |-> place, user |-> u, about |-> {u}]]
  BY <1>1, Inside
<1>3. PICK r : r = [at |-> "permitClose", user |-> u, about |-> {u}]
  OBVIOUS
<1>4. /\ req' = [req EXCEPT ![c] = r]
      /\ good' = [g \in DOMAIN good |->
                    IF good[g].user = u THEN [good[g] EXCEPT !.status = 0] ELSE good[g]]
      /\ UNCHANGED <<users, upBy, ghosts>>
  BY <1>2, <1>3 DEF downGoodsByUserId
<1>5. Permitting(r, u) /\ r.at = "permitClose" /\ r.about = {u} /\ r.user = u
  BY <1>3 DEF Permitting
<1>6. /\ DOMAIN good' = DOMAIN good
      /\ \A g \in DOMAIN good :
           /\ good'[g] \in GoodRow /\ good'[g].user = good[g].user
           /\ good'[g].status = IF good[g].user = u THEN 0 ELSE good[g].status
  <2>1. \A g \in DOMAIN good : good[g] \in GoodRow
    BY DEF Inv, Types
  <2> QED
    BY <1>4, <2>1 DEF GoodRow
<1>7. Types'
  <2>1. good' \in [DOMAIN good' -> GoodRow]
    BY <1>4, <1>6
  <2> QED
    BY <1>4, <1>6, <2>1 DEF Inv, Types, users, ghosts
<1>8. Kept
  BY <1>6 DEF Kept
<1>9. \A v \in Sellers : v # u => OnSale(v)' = OnSale(v) /\ Offered(v)' = Offered(v)
  BY <1>4, <1>6 DEF OnSale, Offered
<1>10. \A v \in Sellers : v # u => /\ Same(v)
                                   /\ shop'[v] = shop[v] /\ opened'[v] = opened[v]
  BY <1>4, <1>9 DEF Same, users, ghosts
<1>11. /\ reward[u].one \in Nat /\ reward[u].two \in Nat
       /\ opened[u] \in Nat /\ shop[u] \in Nat
  BY DEF Inv, Types
<1>12. Balanced(u, c, r)
  <2>1. ASSUME NEW place \in {"addShop", "insertShop", "levelTwo", "permitOpen"}
        PROVE  Here(r, u, place) = 0 /\ Here(req[c], u, place) = 0
    BY <1>1, <1>5 DEF Here
  <2> QED
    BY <1>4, <1>11, <2>1 DEF Balanced, ShopBalanced, users, ghosts
<1>13. SerialOK(u, req[c]) => SerialOK(u, r)'
  <2>1. SUFFICES ASSUME SerialOK(u, req[c]) PROVE SerialOK(u, r)'
    OBVIOUS
  <2>2. OnSale(u)' = {}
    BY <1>6 DEF OnSale
  <2>3. Cardinality(OnSale(u))' = 0
    BY <2>2, FS_EmptySet
  <2>4. Offered(u)' = {}
    BY <2>2 DEF Offered
  <2> QED
    BY <1>1, <1>4, <1>5, <2>1, <2>3, <2>4, SellerAssumption
    DEF SerialOK, Opening, Unpaid, Closing, Raises, users, ghosts
<1>14. /\ shop'[u] >= shop[u] /\ Earned(u)
       /\ FromConsole(r) /\ mixed' = mixed
  BY <1>4, <1>5, <1>11 DEF FromConsole, users, ghosts, Earned
<1> QED
  BY <1>2, <1>4, <1>5, <1>7, <1>8, <1>10, <1>12, <1>13, <1>14, PermitMove

LEMMA permitCloseInv ==
  ASSUME Inv, NEW c \in Consoles, permitClose(c)
  PROVE  Inv'
<1>1. req[c].at = "permitClose"
  BY DEF permitClose
<1>2. PICK u \in Sellers : req[c] # Idle /\ req[c].about = {u} /\ req[c].user = u
  BY <1>1, Inside
<1>3. PICK r : r = Idle
  OBVIOUS
<1>4. /\ req' = [req EXCEPT ![c] = r]
      /\ permit' = [permit EXCEPT ![u] = 0]
      /\ byForm' = [byForm EXCEPT ![u] = FALSE]
      /\ UNCHANGED <<disabled, apply, shop, reward, good, upBy,
                     submitted, opened, mixed, broken, requests, crashes>>
  BY <1>2, <1>3 DEF permitClose, Done
<1>5. r.at = "idle"
  BY <1>3, Places
<1>6. Types' /\ permit'[u] = 0
  BY <1>4 DEF Inv, Types
<1>7. Kept /\ \A v \in Sellers : OnSale(v)' = OnSale(v) /\ Offered(v)' = Offered(v)
  BY <1>4 DEF Kept, OnSale, Offered
<1>8. \A v \in Sellers : v # u => /\ Same(v)
                                  /\ shop'[v] = shop[v] /\ opened'[v] = opened[v]
  BY <1>4, <1>7 DEF Inv, Types, Same
<1>9. /\ reward[u].one \in Nat /\ reward[u].two \in Nat
      /\ opened[u] \in Nat /\ shop[u] \in Nat
  BY DEF Inv, Types
<1>10. Balanced(u, c, r)
  <2>1. ASSUME NEW place \in {"addShop", "insertShop", "levelTwo", "permitOpen"}
        PROVE  Here(r, u, place) = 0 /\ Here(req[c], u, place) = 0
    BY <1>1, <1>5 DEF Here
  <2> QED
    BY <1>4, <1>9, <2>1 DEF Balanced, ShopBalanced
<1>11. SerialOK(u, req[c]) => SerialOK(u, r)'
  <2>1. SUFFICES ASSUME SerialOK(u, req[c]) PROVE SerialOK(u, r)'
    OBVIOUS
  <2>2. Cardinality(OnSale(u))' = Cardinality(OnSale(u)) /\ Offered(u)' = Offered(u)
    BY <1>7
  <2> QED
    BY <1>1, <1>4, <1>5, <1>6, <2>1, <2>2
    DEF SerialOK, Opening, Unpaid, Closing, Raises
<1>12. /\ shop'[u] >= shop[u] /\ Earned(u) /\ mixed' = mixed
       /\ r.at \notin {"levelOne", "levelTwo", "permitOpen"}
  BY <1>4, <1>5, <1>6, <1>9 DEF Earned
<1> QED
  BY <1>2, <1>3, <1>4, <1>6, <1>7, <1>8, <1>10, <1>11, <1>12, PermitMove

-----------------------------------------------------------------------------
(***************************************************************************)
(* Requests about goods, and the edited shop.                              *)
(***************************************************************************)

\* r is the end of request c, or its second statement.
GoesOn(c, r) ==
  \/ r = Idle
  \/ /\ r.at \in {"goodWrite", "insertShop"} /\ r.about = req[c].about
     /\ c \in Consoles => FromConsole(r)
     /\ c \in Phones => FromPhone(r)

\* Such a request has to do with the users' shop rows only.
LEMMA AsideMove ==
  ASSUME NEW c \in Clients, NEW r, Inv, Types', Kept,
         req[c].at \in {"goodCheck", "goodWrite", "editShop", "insertShop"},
         req' = [req EXCEPT ![c] = r], permit' = permit, reward' = reward,
         ghosts' = ghosts, GoesOn(c, r),
         \A u \in Sellers : shop'[u] >= shop[u],
         \A u \in Sellers : ShopBalanced(u, c, r),
         \A u \in Sellers : u \notin req[c].about => Same(u),
         \A u \in Sellers : u \in req[c].about /\ ~mixed[u] /\ SerialOK(u, req[c])
                              => SerialOK(u, r)'
  PROVE  Inv'
<1> USE DEF Inv, GoesOn
<1>1. r.at \in {"idle", "goodWrite", "insertShop"} /\ req[c] # Idle
  BY Places
<1>2. Shapes'
  BY ShapesMove
<1>3. Counts'
  <2>1. ASSUME NEW u \in Sellers PROVE Balanced(u, c, r)
    <3>1. /\ reward[u].one \in Nat /\ reward[u].two \in Nat /\ opened[u] \in Nat
      BY DEF Types
    <3>2. ASSUME NEW place \in {"levelTwo", "permitOpen"}
          PROVE  Here(r, u, place) = 0 /\ Here(req[c], u, place) = 0
      BY <1>1 DEF Here
    <3> QED
      BY <3>1, <3>2 DEF Balanced, ghosts
  <2> QED
    BY <2>1, <1>2, CountsMove
<1>4. HasShop'
  <2>1. \A u \in Sellers : shop'[u] \in Nat /\ shop'[u] >= shop[u]
    BY DEF Types
  <2>2. \A u \in Sellers : Earned(u)
    BY DEF Earned, ghosts
  <2> QED
    BY <1>1, <2>1, <2>2, HasShopMove
<1>5. Serial'
  <2>1. r = Idle \/ r.about = req[c].about
    OBVIOUS
  <2>2. mixed' = mixed
    BY DEF ghosts
  <2> QED
    BY <1>1, <2>1, <2>2, SerialMove
<1> QED
  BY <1>2, <1>3, <1>4, <1>5

\* A request about a good leaves the users alone altogether.
LEMMA GoodMove ==
  ASSUME NEW c \in Clients, NEW r, Inv, Types', Kept,
         req[c].at \in {"goodCheck", "goodWrite"}, r.at \in {"idle", "goodWrite"},
         req' = [req EXCEPT ![c] = r], users' = users, ghosts' = ghosts,
         GoesOn(c, r),
         \A u \in Sellers : u \notin req[c].about => Same(u),
         \A u \in Sellers : u \in req[c].about /\ ~mixed[u] /\ SerialOK(u, req[c])
                              => SerialOK(u, r)'
  PROVE  Inv'
<1>1. permit' = permit /\ reward' = reward /\ shop' = shop
  BY DEF users
<1>2. ASSUME NEW u \in Sellers PROVE shop'[u] >= shop[u] /\ ShopBalanced(u, c, r)
  <2>1. shop[u] \in Nat
    BY DEF Inv, Types
  <2>2. ASSUME NEW place \in {"addShop", "insertShop"}
        PROVE  Here(r, u, place) = 0 /\ Here(req[c], u, place) = 0
    BY DEF Here
  <2> QED
    BY <1>1, <2>1, <2>2 DEF ShopBalanced
<1>3. /\ \A u \in Sellers : shop'[u] >= shop[u]
      /\ \A u \in Sellers : ShopBalanced(u, c, r)
      /\ req[c].at \in {"goodCheck", "goodWrite", "editShop", "insertShop"}
  BY <1>2
<1> QED
  BY <1>1, <1>3, AsideMove

\* Idle leaves fewer things to be said of a user.
LEMMA IdleOK ==
  ASSUME NEW u, NEW r,
         r.at \in {"goodCheck", "goodWrite", "editShop", "insertShop"}, SerialOK(u, r)
  PROVE  SerialOK(u, Idle)
<1>1. Idle.at = "idle"
  BY Places
<1> QED
  BY <1>1 DEF SerialOK, Opening, Unpaid, Closing, Raises

\* A phone's request about a shop ends, or goes on to add the row it missed.
LEMMA ShopMove ==
  ASSUME Inv, NEW p \in Phones, NEW u \in Sellers, EditShop(req[p], u), NEW r,
         r = Idle \/ (EditShop(r, u) /\ r.at = "insertShop"),
         req' = [req EXCEPT ![p] = r], NEW n \in Nat, n >= shop[u],
         shop' = [shop EXCEPT ![u] = n],
         n = 0 \/ n + Here(r, u, "insertShop") <= shop[u] + Here(req[p], u, "insertShop"),
         UNCHANGED <<permit, disabled, apply, reward, good, upBy, ghosts>>
  PROVE  Inv'
<1>1. p \in Clients /\ p \notin Consoles
  BY SellerAssumption DEF Clients
<1>2. /\ req[p].at \in {"editShop", "insertShop"}
      /\ req[p].user = u /\ req[p].about = {u}
  BY DEF EditShop
<1>3. r.at \in {"idle", "insertShop"}
  BY Places
<1>4. GoesOn(p, r)
  <2>1. r # Idle => r.about = {u} /\ FromPhone(r)
    BY DEF EditShop, FromPhone
  <2> QED
    BY <1>1, <1>2, <2>1 DEF GoesOn
<1>5. Types' /\ \A v \in Sellers : shop[v] \in Nat
  BY DEF Inv, Types, ghosts
<1>6. Still /\ permit' = permit /\ reward' = reward /\ ghosts' = ghosts
  BY DEF Still, ghosts
<1>7. Kept /\ \A v \in Sellers : v \notin req[p].about => Same(v)
  BY <1>6, StillIsSame
<1>8. ASSUME NEW v \in Sellers PROVE shop'[v] >= shop[v] /\ ShopBalanced(v, p, r)
  <2>1. Here(r, v, "addShop") = 0 /\ Here(req[p], v, "addShop") = 0
    BY <1>2, <1>3 DEF Here
  <2>2. CASE v = u
    <3>1. shop'[v] = n
      BY <2>2 DEF Inv, Types
    <3>2. Here(r, u, "insertShop") \in Nat /\ Here(req[p], u, "insertShop") \in Nat
      BY DEF Here
    <3> QED
      BY <1>5, <2>1, <2>2, <3>1, <3>2 DEF ShopBalanced
  <2>3. CASE v # u
    <3>1. shop'[v] = shop[v]
      BY <2>3 DEF Inv, Types
    <3>2. Here(req[p], v, "insertShop") = 0
      BY <1>2, <2>3 DEF Here
    <3>3. Here(r, v, "insertShop") = 0
      BY <1>3, <2>3 DEF Here, EditShop, Idle
    <3> QED
      BY <1>5, <2>1, <3>1, <3>2, <3>3 DEF ShopBalanced
  <2> QED
    BY <2>2, <2>3
<1>9. ASSUME NEW v \in Sellers, SerialOK(v, req[p]) PROVE SerialOK(v, r)'
  <2>1. Idle.at = "idle" /\ SerialOK(v, Idle)
    BY <1>2, <1>9, IdleOK, Places
  <2>2. SerialOK(v, r)
    BY <1>3, <2>1 DEF SerialOK, Opening, Unpaid, Closing, Raises
  <2> QED
    BY <1>6, <2>2, StillOK
<1>10. /\ req[p].at \in {"goodCheck", "goodWrite", "editShop", "insertShop"}
       /\ \A v \in Sellers : shop'[v] >= shop[v]
       /\ \A v \in Sellers : ShopBalanced(v, p, r)
       /\ \A v \in Sellers : v \in req[p].about /\ ~mixed[v] /\ SerialOK(v, req[p])
                              => SerialOK(v, r)'
  BY <1>2, <1>8, <1>9
<1> QED
  BY <1>1, <1>4, <1>5, <1>6, <1>7, <1>10, AsideMove

LEMMA editShopInv ==
  ASSUME Inv, NEW p \in Phones, editShop(p)
  PROVE  Inv'
<1>1. p \in Clients /\ req[p].at = "editShop"
  BY DEF editShop, Clients
<1>2. PICK u \in Sellers : EditShop(req[p], u)
  BY <1>1, EditRequest DEF Inv
<1>3. req[p] = [at |-> "editShop", user |-> u, about |-> {u}] /\ req[p].user = u
  BY <1>1, <1>2 DEF EditShop
<1>4. /\ UNCHANGED <<permit, disabled, apply, shop, reward, good, upBy, ghosts>>
      /\ shop \in [Sellers -> Nat]
  BY DEF editShop, users, Inv, Types
<1>5. PICK n \in Nat : n = shop[u]
  BY <1>4
<1>6. n >= shop[u] /\ shop' = [shop EXCEPT ![u] = n]
  BY <1>4, <1>5
<1>7. PICK r : r = IF n = 0 THEN [at |-> "insertShop", user |-> u, about |-> {u}]
                   ELSE Idle
  OBVIOUS
<1>8. req' = [req EXCEPT ![p] = r]
  BY <1>3, <1>5, <1>7 DEF editShop, Goto, Done
<1>9. r = Idle \/ (EditShop(r, u) /\ r.at = "insertShop")
  BY <1>7 DEF EditShop
<1>10. Here(r, u, "insertShop") \in Nat /\ Here(req[p], u, "insertShop") \in Nat
  BY DEF Here
<1>11. n = 0 \/ Here(r, u, "insertShop") = 0
  BY <1>7, Places DEF Here
<1>12. n = 0 \/ n + Here(r, u, "insertShop") <= shop[u] + Here(req[p], u, "insertShop")
  BY <1>5, <1>10, <1>11
<1> QED
  BY <1>2, <1>4, <1>6, <1>8, <1>9, <1>12, ShopMove

LEMMA insertShopInv ==
  ASSUME Inv, NEW p \in Phones, insertShop(p)
  PROVE  Inv'
<1>1. p \in Clients /\ req[p].at = "insertShop"
  BY DEF insertShop, Clients
<1>2. PICK u \in Sellers : EditShop(req[p], u)
  BY <1>1, EditRequest DEF Inv
<1>3. req[p].user = u
  BY <1>2 DEF EditShop
<1>4. /\ UNCHANGED <<permit, disabled, apply, reward, good, upBy, ghosts>>
      /\ shop \in [Sellers -> Nat] /\ shop[u] \in Nat
  BY DEF insertShop, Inv, Types
<1>5. PICK n \in {shop[u], shop[u] + 1} : shop' = [shop EXCEPT ![u] = n]
  BY <1>3, <1>4 DEF insertShop
<1>6. n \in Nat /\ n >= shop[u] /\ n <= shop[u] + 1
  BY <1>4, <1>5
<1>7. PICK r : r = Idle
  OBVIOUS
<1>8. req' = [req EXCEPT ![p] = r]
  BY <1>7 DEF insertShop, Done
<1>9. Here(r, u, "insertShop") = 0 /\ Here(req[p], u, "insertShop") = 1
  BY <1>1, <1>3, <1>7, Places DEF Here
<1>10. n + Here(r, u, "insertShop") <= shop[u] + Here(req[p], u, "insertShop")
  BY <1>4, <1>6, <1>9
<1> QED
  BY <1>2, <1>4, <1>5, <1>6, <1>7, <1>8, <1>10, ShopMove

LEMMA goodCheckInv ==
  ASSUME Inv, NEW c \in Clients, goodCheck(c)
  PROVE  Inv'
<1>1. req[c].at = "goodCheck" /\ UNCHANGED <<users, good, upBy, ghosts>>
  BY DEF goodCheck
<1>2. Types' /\ Still /\ UNCHANGED <<users, ghosts>>
  BY <1>1 DEF Inv, Types, Still, users, ghosts
<1>3. Kept /\ \A u \in Sellers : u \notin req[c].about => Same(u)
  BY <1>2, StillIsSame
<1>6. req[c].at \in {"goodCheck", "goodWrite"}
  BY <1>1
<1>4. CASE Done(c)
  <2>1. PICK r : r = Idle
    OBVIOUS
  <2>2. req' = [req EXCEPT ![c] = r]
    BY <1>4, <2>1 DEF Done
  <2>3. ASSUME NEW u \in Sellers, SerialOK(u, req[c]) PROVE SerialOK(u, r)'
    BY <1>1, <1>2, <2>1, <2>3, IdleOK, StillOK
  <2> QED
    <3>1. GoesOn(c, r)
      BY <2>1 DEF GoesOn
    <3>2. \A u \in Sellers : u \in req[c].about /\ ~mixed[u] /\ SerialOK(u, req[c])
                             => SerialOK(u, r)'
      BY <2>3
    <3>3. users' = users /\ ghosts' = ghosts /\ r.at \in {"idle", "goodWrite"}
      BY <1>2, <2>1, Places
    <3> QED
      BY <1>2, <1>3, <1>6, <2>2, <3>1, <3>2, <3>3, GoodMove
<1>5. CASE /\ req[c].type \in {"PUBLISH", "UP"}
                => Cardinality(OnSale(Counted(c))) < GoodMax
           /\ Goto(c, "goodWrite")
  <2>1. PICK s : s = req[c]
    OBVIOUS
  <2>2. PICK r : r = [s EXCEPT !.at = "goodWrite"]
    OBVIOUS
  <2>3. req' = [req EXCEPT ![c] = r]
    BY <1>5, <2>1, <2>2 DEF Goto
  <2>4. \/ c \in Consoles /\ Alter(s, "console")
        \/ c \in Phones /\ \E u \in Sellers : Publish(s, u) \/ Alter(s, u)
    BY <1>1, <2>1, GoodRequest DEF Inv
  <2>5. ASSUME NEW u, Publish(s, u)
        PROVE  /\ Publish(r, u) /\ r.at = "goodWrite" /\ r.about = s.about
               /\ r.user = s.user /\ r.type = "PUBLISH" /\ s.type = "PUBLISH"
    BY <2>2, <2>5 DEF Publish
  <2>6. ASSUME NEW u, Alter(s, u)
        PROVE  /\ Alter(r, u) /\ r.at = "goodWrite" /\ r.about = s.about
               /\ r.user = s.user /\ r.type = s.type /\ r.good = s.good
               /\ s.type # "PUBLISH"
    BY <2>2, <2>6 DEF Alter
  <2>7. /\ r.at = "goodWrite" /\ r.about = s.about /\ r.user = s.user
        /\ r.type = s.type /\ (s.type # "PUBLISH" => r.good = s.good)
    BY <2>4, <2>5, <2>6
  <2>8. (c \in Consoles => FromConsole(r)) /\ (c \in Phones => FromPhone(r))
    BY <2>4, <2>5, <2>6, SellerAssumption DEF FromConsole, FromPhone
  <2>9. ASSUME NEW u \in Sellers, SerialOK(u, s) PROVE SerialOK(u, r)'
    <3>1. s.at = "goodCheck"
      BY <1>1, <2>1
    <3>2. Raises(r, u) => s.type \in {"PUBLISH", "UP"} /\ Counted(c) = u
      BY <2>1, <2>7 DEF Raises, Counted
    <3>3. Raises(r, u) => Cardinality(OnSale(u)) < GoodMax
      BY <1>5, <2>1, <3>2
    <3>4. SerialOK(u, r)
      BY <2>7, <2>9, <3>1, <3>3 DEF SerialOK, Opening, Unpaid, Closing
    <3> QED
      BY <1>2, <3>4, StillOK
  <2> QED
    <3>1. GoesOn(c, r)
      BY <2>1, <2>7, <2>8 DEF GoesOn
    <3>2. \A u \in Sellers : u \in req[c].about /\ ~mixed[u] /\ SerialOK(u, req[c])
                             => SerialOK(u, r)'
      BY <2>1, <2>9
    <3>3. users' = users /\ ghosts' = ghosts /\ r.at \in {"idle", "goodWrite"}
      BY <1>2, <2>7
    <3> QED
      BY <1>2, <1>3, <1>6, <2>3, <3>1, <3>2, <3>3, GoodMove
<1> QED
  BY <1>4, <1>5 DEF goodCheck

LEMMA NewStatusIs ==
  ASSUME NEW old \in {0, 1}, NEW type \in {"UP", "DOWN", "DELETE", "UNDELETE"}
  PROVE  /\ NewStatus(old, type) \in {0, 1}
         /\ NewStatus(old, type) = 1 => old = 1 \/ type = "UP"
         /\ type = "UNDELETE" => NewStatus(old, type) = old
<1>1. NewStatus(old, "UP") = 1 /\ NewStatus(old, "DOWN") = 0
  BY DEF NewStatus
<1>2. NewStatus(old, "DELETE") = 0 /\ NewStatus(old, "UNDELETE") = old
  BY DEF NewStatus
<1> QED
  BY <1>1, <1>2

\* Only the owner's goods change, and only by the one good; whoever puts it on
\* sale has been counted.
LEMMA editGoodStatusInv ==
  ASSUME Inv, NEW c \in Clients, editGoodStatus(c)
  PROVE  Inv'
<1>1. req[c].at = "goodWrite" /\ req[c].type # "PUBLISH"
  BY DEF editGoodStatus
<1>2. PICK s : s = req[c]
  OBVIOUS
<1>3. PICK g : g = s.good
  OBVIOUS
<1>4. \E u \in Sellers \cup {"console"} : Alter(s, u)
  <2>1. ASSUME NEW u, Publish(s, u) PROVE FALSE
    BY <1>1, <1>2, <2>1 DEF Publish
  <2> QED
    BY <1>1, <1>2, <2>1, GoodRequest DEF Inv
<1>5. PICK u \in Sellers \cup {"console"} : Alter(s, u)
  BY <1>4
<1>6. PICK v : v = good[g].user
  OBVIOUS
<1>7. /\ g \in DOMAIN good /\ s.user = u
      /\ s.type \in {"UP", "DOWN", "DELETE", "UNDELETE"}
      /\ s.about = IF u = "console" THEN {v} ELSE {u, v}
  <2>1. s.user = u
    BY <1>5 DEF Alter
  <2> QED
    BY <1>3, <1>5, <1>6, <2>1 DEF Alter
<1>8. v \in Sellers /\ good[g].status \in {0, 1}
  BY <1>6, <1>7 DEF Inv, Types, GoodRow
<1>9. PICK r : r = Idle
  OBVIOUS
<1>10. PICK n : n = NewStatus(good[g].status, s.type)
  OBVIOUS
<1>11. /\ n \in {0, 1}
       /\ n = 1 => good[g].status = 1 \/ s.type = "UP"
       /\ s.type = "UNDELETE" => n = good[g].status
  BY <1>7, <1>8, <1>10, NewStatusIs
<1>12. /\ req' = [req EXCEPT ![c] = r]
       /\ good' = [good EXCEPT ![g].status = n]
       /\ upBy' = IF s.type = "UP" THEN [upBy EXCEPT ![g] = u] ELSE upBy
       /\ users' = users /\ ghosts' = ghosts
  BY <1>2, <1>3, <1>7, <1>9, <1>10 DEF editGoodStatus, Done
<1>13. /\ DOMAIN good' = DOMAIN good
       /\ \A h \in DOMAIN good :
            /\ good'[h] \in GoodRow /\ good'[h].user = good[h].user
            /\ good'[h].status = IF h = g THEN n ELSE good[h].status
  <2>1. good \in [DOMAIN good -> GoodRow]
    BY DEF Inv, Types
  <2>2. \A h \in DOMAIN good : good[h] \in GoodRow
    BY <2>1
  <2> QED
    BY <1>7, <1>11, <1>12, <2>1, <2>2 DEF GoodRow
<1>14. /\ upBy' \in [DOMAIN good -> Sellers \cup {"console"}]
       /\ \A h \in DOMAIN good :
            upBy'[h] = IF h = g /\ s.type = "UP" THEN u ELSE upBy[h]
  BY <1>7, <1>12 DEF Inv, Types
<1>15. Types'
  <2>1. good' \in [DOMAIN good' -> GoodRow]
    BY <1>12, <1>13 DEF Inv, Types
  <2> QED
    BY <1>12, <1>13, <1>14, <2>1 DEF Inv, Types, users, ghosts
<1>16. Kept
  BY <1>13 DEF Kept
<1>17. /\ permit' = permit /\ byForm' = byForm /\ apply' = apply
       /\ broken' = broken /\ reward' = reward /\ submitted' = submitted
  BY <1>12 DEF users, ghosts
<1>18. ASSUME NEW w \in Sellers, w # v
       PROVE  OnSale(w)' = OnSale(w) /\ Offered(w)' = Offered(w)
  <2>1. \A h \in OnSale(w) : h # g
    BY <1>6, <1>18 DEF OnSale
  <2>2. OnSale(w)' = OnSale(w)
    BY <1>6, <1>13, <1>18 DEF OnSale
  <2>3. \A h \in OnSale(w) : upBy'[h] = upBy[h]
    BY <1>14, <2>1 DEF OnSale
  <2> QED
    BY <2>2, <2>3 DEF Offered
<1>19. ASSUME NEW w \in Sellers, w # v PROVE Same(w)
  BY <1>17, <1>18, <1>19 DEF Same
<1>20. ASSUME NEW w \in Sellers, SerialOK(w, s), w # v PROVE SerialOK(w, r)'
  <2>1. SerialOK(w, Idle)
    BY <1>1, <1>2, <1>20, IdleOK
  <2>2. Idle.at # "goodWrite"
    BY Places
  <2>3. SerialOK(w, Idle)'
    BY <1>16, <1>19, <1>20, <2>1, <2>2, SameOK
  <2> QED
    BY <1>9, <2>3
<1>21. ASSUME SerialOK(v, s) PROVE SerialOK(v, r)'
  <2>1. OnSale(v)' = IF n = 1 THEN OnSale(v) \cup {g} ELSE OnSale(v) \ {g}
    BY <1>6, <1>7, <1>13 DEF OnSale
  <2>2. IsFiniteSet(OnSale(v)) /\ Cardinality(OnSale(v)) \in Nat
    <3>1. OnSale(v) \subseteq DOMAIN good /\ IsFiniteSet(DOMAIN good)
      BY DEF OnSale, Inv, Types
    <3> QED
      BY <3>1, FS_Subset, FS_CardinalityType
  <2>3. Cardinality(OnSale(v)) <= GoodMax /\ GoodMax \in Nat
    BY <1>21, SellerAssumption DEF SerialOK
  <2>4. Cardinality(OnSale(v))' <= GoodMax
    <3>1. CASE n = 1 /\ g \notin OnSale(v)
      <4>1. s.type = "UP"
        BY <1>6, <1>7, <1>11, <3>1 DEF OnSale
      <4>2. Raises(s, v)
        BY <1>1, <1>2, <1>3, <1>6, <4>1 DEF Raises
      <4>3. Cardinality(OnSale(v)) < GoodMax
        BY <1>21, <4>2 DEF SerialOK
      <4>4. Cardinality(OnSale(v) \cup {g}) = Cardinality(OnSale(v)) + 1
        BY <2>2, <3>1, FS_AddElement
      <4>5. Cardinality(OnSale(v))' = Cardinality(OnSale(v)) + 1
        BY <2>1, <3>1, <4>4
      <4> QED
        BY <2>2, <2>3, <4>3, <4>5
    <3>2. CASE n = 1 /\ g \in OnSale(v)
      <4>1. OnSale(v)' = OnSale(v)
        BY <2>1, <3>2
      <4> QED
        BY <2>3, <4>1
    <3>3. CASE n # 1
      <4>1. OnSale(v)' \subseteq OnSale(v)
        BY <2>1, <3>3
      <4>2. Cardinality(OnSale(v)') <= Cardinality(OnSale(v)) /\ IsFiniteSet(OnSale(v)')
        BY <2>2, <4>1, FS_Subset
      <4>3. Cardinality(OnSale(v)') \in Nat
        BY <4>2, FS_CardinalityType
      <4> QED
        BY <2>2, <2>3, <4>2, <4>3
    <3> QED
      BY <3>1, <3>2, <3>3
  <2>5. permit[v] = 0 /\ ~byForm[v] => Offered(v)' = {}
    <3> SUFFICES ASSUME permit[v] = 0, ~byForm[v], NEW h \in OnSale(v)' PROVE upBy'[h] # v
      BY DEF Offered
    <3>1. u # v
      BY <1>1, <1>2, <1>7, <1>21 DEF SerialOK
    <3>2. Offered(v) = {}
      BY <1>21 DEF SerialOK
    <3>3. h \in DOMAIN good
      BY <1>13 DEF OnSale
    <3>4. CASE h = g /\ s.type = "UP"
      BY <1>14, <3>1, <3>3, <3>4
    <3>5. CASE ~(h = g /\ s.type = "UP")
      <4>1. h \in OnSale(v)
        BY <1>6, <1>11, <1>13, <3>3, <3>5 DEF OnSale
      <4> QED
        BY <1>14, <3>2, <3>3, <3>5, <4>1 DEF Offered
    <3> QED
      BY <3>4, <3>5
  <2>6. r.at = "idle" /\ s.at = "goodWrite"
    BY <1>1, <1>2, <1>9, Places
  <2> QED
    BY <1>17, <1>21, <2>4, <2>5, <2>6
    DEF SerialOK, Opening, Unpaid, Closing, Raises
<1>22. GoesOn(c, r) /\ r.at \in {"idle", "goodWrite"}
  BY <1>9, Places DEF GoesOn
<1>23. \A w \in Sellers : w \notin req[c].about => Same(w)
  BY <1>2, <1>7, <1>19
<1>24. \A w \in Sellers : w \in req[c].about /\ ~mixed[w] /\ SerialOK(w, req[c])
                            => SerialOK(w, r)'
  BY <1>2, <1>20, <1>21
<1>25. req[c].at \in {"goodCheck", "goodWrite"}
  BY <1>1
<1>26. req' = [req EXCEPT ![c] = r] /\ users' = users /\ ghosts' = ghosts
  BY <1>12
<1> QED
  BY <1>15, <1>16, <1>22, <1>23, <1>24, <1>25, <1>26, GoodMove

LEMMA addMallGoodInv ==
  ASSUME Inv, NEW p \in Phones, addMallGood(p)
  PROVE  Inv'
<1>1. p \in Clients /\ req[p].at = "goodWrite" /\ req[p].type = "PUBLISH"
  BY DEF addMallGood, Clients
<1>2. PICK s : s = req[p]
  OBVIOUS
<1>3. PICK u \in Sellers : Publish(s, u)
  <2>1. ASSUME NEW u, Alter(s, u) PROVE FALSE
    BY <1>1, <1>2, <2>1 DEF Alter
  <2> QED
    BY <1>1, <1>2, <2>1, GoodRequest, SellerAssumption DEF Inv
<1>4. s.user = u /\ s.about = {u} /\ s.at = "goodWrite" /\ s.type = "PUBLISH"
  BY <1>1, <1>2, <1>3 DEF Publish
<1>5. PICK g \in Goods \ DOMAIN good :
        /\ good' = [h \in DOMAIN good \cup {g} |->
                      IF h \in DOMAIN good THEN good[h]
                      ELSE [user |-> u, status |-> 1]]
        /\ upBy' = [h \in DOMAIN good \cup {g} |->
                      IF h \in DOMAIN good THEN upBy[h] ELSE u]
  BY <1>2, <1>4 DEF addMallGood
<1>6. PICK r : r = Idle
  OBVIOUS
<1>7. req' = [req EXCEPT ![p] = r] /\ users' = users /\ ghosts' = ghosts
  BY <1>6 DEF addMallGood, Done
<1>8. /\ DOMAIN good' = DOMAIN good \cup {g}
      /\ \A h \in DOMAIN good : good'[h] = good[h] /\ upBy'[h] = upBy[h]
      /\ good'[g] = [user |-> u, status |-> 1] /\ upBy'[g] = u
  BY <1>5
<1>9. Types'
  <2>1. good' \in [DOMAIN good' -> GoodRow]
    BY <1>5 DEF Inv, Types, GoodRow
  <2>2. upBy' \in [DOMAIN good' -> Sellers \cup {"console"}]
    BY <1>5 DEF Inv, Types
  <2>3. IsFiniteSet(DOMAIN good')
    BY <1>8, FS_AddElement DEF Inv, Types
  <2> QED
    BY <1>7, <1>8, <2>1, <2>2, <2>3 DEF Inv, Types, users, ghosts
<1>10. Kept
  BY <1>8 DEF Kept
<1>11. /\ permit' = permit /\ byForm' = byForm /\ apply' = apply
       /\ broken' = broken /\ reward' = reward /\ submitted' = submitted
  BY <1>7 DEF users, ghosts
<1>12. ASSUME NEW w \in Sellers, w # u PROVE Same(w)
  <2>1. OnSale(w)' = OnSale(w)
    BY <1>8, <1>12 DEF OnSale
  <2>2. Offered(w)' = Offered(w)
    BY <1>8, <2>1 DEF Offered, OnSale
  <2> QED
    BY <1>11, <2>1, <2>2 DEF Same
<1>13. ASSUME SerialOK(u, s) PROVE SerialOK(u, r)'
  <2>1. OnSale(u)' = OnSale(u) \cup {g} /\ g \notin OnSale(u)
    BY <1>8 DEF OnSale
  <2>2. IsFiniteSet(OnSale(u)) /\ Cardinality(OnSale(u)) \in Nat
    <3>1. OnSale(u) \subseteq DOMAIN good /\ IsFiniteSet(DOMAIN good)
      BY DEF OnSale, Inv, Types
    <3> QED
      BY <3>1, FS_Subset, FS_CardinalityType
  <2>3. Cardinality(OnSale(u)) < GoodMax /\ GoodMax \in Nat
    BY <1>4, <1>13, SellerAssumption DEF SerialOK, Raises
  <2>4. Cardinality(OnSale(u) \cup {g}) = Cardinality(OnSale(u)) + 1
    BY <2>1, <2>2, FS_AddElement
  <2>5. Cardinality(OnSale(u))' <= GoodMax
    BY <2>1, <2>2, <2>3, <2>4
  <2>6. permit[u] = 1 \/ byForm[u]
    BY <1>4, <1>13 DEF SerialOK
  <2>7. r.at = "idle"
    BY <1>6, Places
  <2> QED
    BY <1>4, <1>11, <1>13, <2>5, <2>6, <2>7
    DEF SerialOK, Opening, Unpaid, Closing, Raises
<1>14. GoesOn(p, r) /\ r.at \in {"idle", "goodWrite"}
  BY <1>6, Places DEF GoesOn
<1>15. \A w \in Sellers : w \notin req[p].about => Same(w)
  BY <1>2, <1>4, <1>12
<1>16. \A w \in Sellers : w \in req[p].about /\ ~mixed[w] /\ SerialOK(w, req[p])
                            => SerialOK(w, r)'
  BY <1>2, <1>4, <1>13
<1>17. p \in Clients /\ req[p].at \in {"goodCheck", "goodWrite"}
  BY <1>1
<1> QED
  BY <1>7, <1>9, <1>10, <1>14, <1>15, <1>16, <1>17, GoodMove

-----------------------------------------------------------------------------
(***************************************************************************)
(* Requests that begin.                                                    *)
(***************************************************************************)

LEMMA StartInv ==
  ASSUME NEW c \in Clients, NEW r, Inv, Start(c, r),
         UNCHANGED <<users, good, upBy, submitted, opened, byForm, broken, crashes>>,
         r.at \in {"reviewRead", "permitRead", "goodCheck", "editShop"},
         c \in Consoles => FromConsole(r),
         c \in Phones => FromPhone(r),
         \A u \in Sellers : u \in r.about /\ SerialOK(u, Idle) => SerialOK(u, r)
  PROVE  Inv'
<1> USE DEF Inv
<1>1. req' = [req EXCEPT ![c] = r] /\ req[c] = Idle /\ r # Idle /\ Idle.at = "idle"
  BY Places DEF Start
<1>2. Types'
  <2>1. mixed' \in [Sellers -> BOOLEAN]
    BY Zenon DEF Start
  <2>2. requests' \in 0 .. MaxRequests
    BY SellerAssumption DEF Types, Start
  <2> QED
    BY <2>1, <2>2 DEF Types, users
<1>3. Still /\ opened' = opened /\ shop' = shop
  BY DEF Still, users
<1>4. Kept
  BY <1>3, StillIsSame
<1>5. Shapes'
  BY <1>1, <1>4, ShapesMove
<1>6. Counts'
  <2>1. ASSUME NEW u \in Sellers PROVE Balanced(u, c, r)
    <3>1. /\ reward[u].one \in Nat /\ reward[u].two \in Nat
          /\ opened[u] \in Nat /\ shop[u] \in Nat
      BY DEF Types
    <3>2. ASSUME NEW place \in {"addShop", "insertShop", "levelTwo", "permitOpen"}
          PROVE  Here(r, u, place) = 0 /\ Here(req[c], u, place) = 0
      BY <1>1 DEF Here
    <3> QED
      BY <1>3, <3>1, <3>2 DEF Balanced, ShopBalanced, Still
  <2> QED
    BY <2>1, <1>1, <1>2, <1>5, CountsMove
<1>7. HasShop'
  <2>1. \A u \in Sellers : shop'[u] \in Nat /\ shop'[u] >= shop[u]
    BY <1>3 DEF Types
  <2>2. \A u \in Sellers : Earned(u)
    BY <1>3 DEF Still, Earned
  <2>3. r.at \in {"levelOne", "levelTwo", "permitOpen"} => shop'[r.user] >= 1
    OBVIOUS
  <2> QED
    BY <1>1, <2>1, <2>2, <2>3, HasShopMove
<1>8. Serial'
  BY <1>1, <1>3, SerialStart
<1> QED
  BY <1>2, <1>5, <1>6, <1>7, <1>8

\* The row of the user page has no field that says the permit is to be given.
LEMMA sellPermitInv ==
  ASSUME Inv, NEW c \in Consoles, NEW u \in Sellers, NEW row \in UserRow,
         sellPermit(c, u, row)
  PROVE  Inv'
<1>1. ButtonStatus(row) = 0
  <2>1. DOMAIN row = {"salesPermit"}
    BY DEF UserRow
  <2>2. "sellPermit" \notin DOMAIN row
    BY <2>1
  <2> QED
    BY <2>2 DEF ButtonStatus
<1>2. PICK r : r = [at |-> "permitRead", user |-> u, about |-> {u},
                    status |-> 0, shown |-> row.salesPermit]
  OBVIOUS
<1>3. /\ Start(c, r)
      /\ UNCHANGED <<users, good, upBy, submitted, opened, byForm, broken, crashes>>
  BY <1>1, <1>2 DEF sellPermit
<1>4. Asked(r, u) /\ r.at = "permitRead" /\ r.status = 0
  BY <1>2 DEF Asked
<1>5. ASSUME NEW v \in Sellers, SerialOK(v, Idle) PROVE SerialOK(v, r)
  <2>1. Idle.at = "idle"
    BY Places
  <2> QED
    BY <1>4, <1>5, <2>1 DEF SerialOK, Opening, Unpaid, Closing, Raises
<1>6. /\ c \in Clients /\ c \notin Phones /\ FromConsole(r)
      /\ r.at \in {"reviewRead", "permitRead", "goodCheck", "editShop"}
  BY <1>4, SellerAssumption DEF Clients, FromConsole
<1> QED
  BY <1>3, <1>4, <1>5, <1>6, StartInv

LEMMA editSubmitInv ==
  ASSUME Inv, NEW c \in Consoles, NEW u \in Sellers,
         NEW status \in {"rejected", "passed"}, editSubmit(c, u, status)
  PROVE  Inv'
<1>1. PICK r : r = [at |-> "reviewRead", user |-> u, about |-> {u}, status |-> status]
  OBVIOUS
<1>2. /\ Start(c, r)
      /\ UNCHANGED <<users, good, upBy, submitted, opened, byForm, broken, crashes>>
  BY <1>1 DEF editSubmit
<1>3. Review(r, u) /\ r.at = "reviewRead"
  BY <1>1 DEF Review
<1>4. ASSUME NEW v \in Sellers, SerialOK(v, Idle) PROVE SerialOK(v, r)
  <2>1. Idle.at = "idle"
    BY Places
  <2> QED
    BY <1>3, <1>4, <2>1 DEF SerialOK, Opening, Unpaid, Closing, Raises
<1>5. /\ c \in Clients /\ c \notin Phones /\ FromConsole(r)
      /\ r.at \in {"reviewRead", "permitRead", "goodCheck", "editShop"}
  BY <1>3, SellerAssumption DEF Clients, FromConsole
<1> QED
  BY <1>2, <1>3, <1>4, <1>5, StartInv

\* A request about a good that begins: nobody has been counted yet, and a
\* seller who asks may sell.
LEMMA CheckOK ==
  ASSUME NEW u \in Sellers, NEW r, r.at = "goodCheck",
         r.user = u => permit[u] = 1, SerialOK(u, Idle)
  PROVE  SerialOK(u, r)
<1>1. Idle.at = "idle"
  BY Places
<1> QED
  BY <1>1 DEF SerialOK, Opening, Unpaid, Closing, Raises

LEMMA editStatusInv ==
  ASSUME Inv, NEW c \in Consoles, NEW g \in Goods, editStatus(c, g)
  PROVE  Inv'
<1>1. PICK type \in {TypeOfEditStatus(row) : row \in GoodRow}
                      \cup {TypeOfDelete(d) : d \in {0, 1}} :
        Start(c, [at |-> "goodCheck", user |-> "console", about |-> {good[g].user},
                  good |-> g, type |-> type])
  BY DEF editStatus
<1>2. type \in {"UP", "DOWN", "DELETE", "UNDELETE"}
  BY <1>1 DEF TypeOfEditStatus, TypeOfDelete
<1>3. PICK r : r = [at |-> "goodCheck", user |-> "console", about |-> {good[g].user},
                    good |-> g, type |-> type]
  OBVIOUS
<1>4. /\ Start(c, r) /\ g \in DOMAIN good
      /\ UNCHANGED <<users, good, upBy, submitted, opened, byForm, broken, crashes>>
  BY <1>1, <1>3 DEF editStatus
<1>5. Alter(r, "console") /\ r.at = "goodCheck" /\ r.user = "console"
  BY <1>2, <1>3, <1>4 DEF Alter
<1>6. \A v \in Sellers : v \in r.about /\ SerialOK(v, Idle) => SerialOK(v, r)
  BY <1>5, CheckOK, SellerAssumption
<1>7. /\ c \in Clients /\ c \notin Phones /\ FromConsole(r)
      /\ r.at \in {"reviewRead", "permitRead", "goodCheck", "editShop"}
  BY <1>5, SellerAssumption DEF Clients, FromConsole
<1> QED
  BY <1>4, <1>5, <1>6, <1>7, StartInv

LEMMA TapInv ==
  ASSUME Inv, NEW p \in Phones, Tap(p)
  PROVE  Inv'
<1>1. p \in Clients /\ p \notin Consoles
  BY SellerAssumption DEF Clients
<1>2. PICK u \in Sellers :
        \/ shopRequest(p, u)
        \/ publishRequest(p, u)
        \/ \E g \in Goods, type \in {"UP", "DOWN", "DELETE"} :
             statusRequest(p, u, g, type)
  BY DEF Tap
<1>3. permit[u] = 1
  BY <1>2 DEF shopRequest, publishRequest, statusRequest, Authorized
<1>4. CASE shopRequest(p, u)
  <2>1. PICK r : r = [at |-> "editShop", user |-> u, about |-> {u}]
    OBVIOUS
  <2>2. /\ Start(p, r)
        /\ UNCHANGED <<users, good, upBy, submitted, opened, byForm, broken, crashes>>
    BY <1>4, <2>1 DEF shopRequest
  <2>3. EditShop(r, u) /\ r.at = "editShop" /\ r.user = u
    BY <2>1 DEF EditShop
  <2>4. ASSUME NEW v \in Sellers, SerialOK(v, Idle) PROVE SerialOK(v, r)
    <3>1. Idle.at = "idle"
      BY Places
    <3> QED
      BY <2>3, <2>4, <3>1 DEF SerialOK, Opening, Unpaid, Closing, Raises
  <2>5. /\ FromPhone(r)
        /\ r.at \in {"reviewRead", "permitRead", "goodCheck", "editShop"}
    BY <2>3 DEF FromPhone
  <2> QED
    BY <1>1, <2>2, <2>4, <2>5, StartInv
<1>5. CASE publishRequest(p, u)
  <2>1. PICK r : r = [at |-> "goodCheck", user |-> u, about |-> {u}, type |-> "PUBLISH"]
    OBVIOUS
  <2>2. /\ Start(p, r)
        /\ UNCHANGED <<users, good, upBy, submitted, opened, byForm, broken, crashes>>
    BY <1>5, <2>1 DEF publishRequest
  <2>3. Publish(r, u) /\ r.at = "goodCheck" /\ r.user = u
    BY <2>1 DEF Publish
  <2>4. \A v \in Sellers : v \in r.about /\ SerialOK(v, Idle) => SerialOK(v, r)
    BY <1>3, <2>3, CheckOK
  <2>5. /\ FromPhone(r)
        /\ r.at \in {"reviewRead", "permitRead", "goodCheck", "editShop"}
    BY <2>3 DEF FromPhone
  <2> QED
    BY <1>1, <2>2, <2>4, <2>5, StartInv
<1>6. ASSUME NEW g \in Goods, NEW type \in {"UP", "DOWN", "DELETE"},
             statusRequest(p, u, g, type)
      PROVE  Inv'
  <2>1. PICK r : r = [at |-> "goodCheck", user |-> u, about |-> {u, good[g].user},
                      good |-> g, type |-> type]
    OBVIOUS
  <2>2. /\ Start(p, r) /\ g \in DOMAIN good
        /\ UNCHANGED <<users, good, upBy, submitted, opened, byForm, broken, crashes>>
    BY <1>6, <2>1 DEF statusRequest
  <2>3. Alter(r, u) /\ r.at = "goodCheck" /\ r.user = u
    <3>1. u # "console"
      BY SellerAssumption
    <3> QED
      BY <2>1, <2>2, <3>1 DEF Alter
  <2>4. \A v \in Sellers : v \in r.about /\ SerialOK(v, Idle) => SerialOK(v, r)
    BY <1>3, <2>3, CheckOK
  <2>5. /\ FromPhone(r)
        /\ r.at \in {"reviewRead", "permitRead", "goodCheck", "editShop"}
    BY <2>3 DEF FromPhone
  <2> QED
    BY <1>1, <2>2, <2>4, <2>5, StartInv
<1> QED
  BY <1>2, <1>4, <1>5, <1>6

-----------------------------------------------------------------------------
(***************************************************************************)
(* Steps of nobody's request, and the theorems.                            *)
(***************************************************************************)

LEMMA StandMove ==
  ASSUME Inv, Types', req' = req, mixed' = mixed, good' = good, shop' = shop,
         opened' = opened, reward' = reward, \A u \in Sellers : Earned(u),
         \A u \in Sellers : \A r : SerialOK(u, r) => SerialOK(u, r)'
  PROVE  Inv'
<1> USE DEF Inv
<1>1. Shapes'
  <2>1. ASSUME NEW c, FromConsole(req[c]) PROVE FromConsole(req[c])'
    BY <2>1 DEF FromConsole, Review, Asked, Permitting, Alter
  <2>2. ASSUME NEW p, FromPhone(req[p]) PROVE FromPhone(req[p])'
    BY <2>2 DEF FromPhone, EditShop, Publish, Alter
  <2> QED
    BY <2>1, <2>2 DEF Shapes
<1>2. Counts'
  <2>1. ASSUME NEW u, NEW place PROVE Count(u, place)' = Count(u, place)
    BY DEF Count, At
  <2> QED
    BY <2>1 DEF Counts
<1>3. HasShop'
  BY DEF HasShop, Earned
<1>4. Serial'
  <2> SUFFICES ASSUME NEW u \in Sellers, ~mixed[u]
               PROVE  /\ \A d, e \in Clients : Busy(d, u)' /\ Busy(e, u)' => d = e
                      /\ \A d \in Clients : Busy(d, u)' => SerialOK(u, req[d])'
                      /\ (\A d \in Clients : ~Busy(d, u)') => SerialOK(u, Idle)'
    BY DEF Serial
  <2>1. /\ \A d, e \in Clients : Busy(d, u) /\ Busy(e, u) => d = e
        /\ \A d \in Clients : Busy(d, u) => SerialOK(u, req[d])
        /\ (\A d \in Clients : ~Busy(d, u)) => SerialOK(u, Idle)
    BY DEF Serial
  <2>2. ASSUME NEW d PROVE Busy(d, u)' <=> Busy(d, u)
    BY DEF Busy
  <2>3. ASSUME NEW d \in Clients, Busy(d, u) PROVE SerialOK(u, req[d])'
    <3>1. PICK s : s = req[d]
      OBVIOUS
    <3>2. SerialOK(u, s)'
      BY <2>1, <2>3, <3>1
    <3> QED
      BY <3>1, <3>2 DEF SerialOK, Opening, Unpaid, Closing, Raises
  <2> QED
    BY <2>1, <2>2, <2>3
<1> QED
  BY <1>1, <1>2, <1>3, <1>4

\* No application is made while another is under review or passed, and so
\* never behind the back of a request that opens the shop.
LEMMA applyShopInv ==
  ASSUME Inv, NEW u \in Sellers, applyShop(u)
  PROVE  Inv'
<1>1. /\ apply[u] \in {"none", "rejected"} /\ submitted[u] < MaxApply
      /\ apply' = [apply EXCEPT ![u] = "applying"]
      /\ submitted' = [submitted EXCEPT ![u] = submitted[u] + 1]
      /\ UNCHANGED <<permit, disabled, shop, reward, good, req, upBy,
                     opened, byForm, mixed, broken, requests, crashes>>
  BY DEF applyShop
<1>2. Types'
  BY <1>1, SellerAssumption DEF Inv, Types
<1>3. \A v \in Sellers : OnSale(v)' = OnSale(v) /\ Offered(v)' = Offered(v)
  BY <1>1 DEF OnSale, Offered
<1>4. ASSUME NEW v \in Sellers, NEW r, SerialOK(v, r) PROVE SerialOK(v, r)'
  <2>1. Cardinality(OnSale(v))' = Cardinality(OnSale(v)) /\ Offered(v)' = Offered(v)
    BY <1>3
  <2>2. CASE v # u
    <3>1. apply'[v] = apply[v] /\ submitted'[v] = submitted[v]
      BY <1>1, <2>2 DEF Inv, Types
    <3> QED
      BY <1>1, <1>4, <2>1, <3>1 DEF SerialOK, Opening, Unpaid, Closing, Raises
  <2>3. CASE v = u
    <3>1. /\ apply'[v] = "applying" /\ submitted'[v] = submitted[v] + 1
          /\ submitted[v] \in Nat /\ reward[v].one \in Nat
      BY <1>1, <2>3 DEF Inv, Types
    <3>2. reward[v].one < submitted'[v] /\ reward[v].one <= submitted'[v]
      BY <1>4, <3>1 DEF SerialOK
    <3> QED
      BY <1>1, <1>4, <2>1, <2>3, <3>1, <3>2
      DEF SerialOK, Opening, Unpaid, Closing, Raises
  <2> QED
    BY <2>2, <2>3
<1>5. \A v \in Sellers : Earned(v)
  BY <1>1 DEF Earned
<1> QED
  BY <1>1, <1>2, <1>4, <1>5, StandMove

LEMMA updateUserStatusInv ==
  ASSUME Inv, NEW u \in Sellers, NEW off \in BOOLEAN, updateUserStatus(u, off)
  PROVE  Inv'
<1>1. /\ disabled' = [disabled EXCEPT ![u] = off]
      /\ UNCHANGED <<permit, apply, shop, good, reward, req, upBy, ghosts>>
  BY DEF updateUserStatus
<1>2. disabled' \in [Sellers -> BOOLEAN]
  BY <1>1 DEF Inv, Types
<1>3. Types'
  BY <1>1, <1>2 DEF Inv, Types, ghosts
<1>4. Still /\ opened' = opened /\ mixed' = mixed
  BY <1>1 DEF Still, ghosts
<1>5. \A v \in Sellers : \A r : SerialOK(v, r) => SerialOK(v, r)'
  BY <1>4, StillOK
<1>6. \A v \in Sellers : Earned(v)
  BY <1>4 DEF Earned, Still
<1> QED
  BY <1>1, <1>3, <1>4, <1>5, <1>6, StandMove DEF Still

\* Where the form changes a permit it marks it, and of a marked permit nothing
\* was said.
LEMMA updateUserInv ==
  ASSUME Inv, NEW u \in Sellers, NEW sale \in {0, 1}, NEW off \in BOOLEAN,
         updateUser(u, sale, off)
  PROVE  Inv'
<1>1. /\ permit' = [permit EXCEPT ![u] = sale]
      /\ disabled' = [disabled EXCEPT ![u] = off]
      /\ byForm' = [byForm EXCEPT ![u] = byForm[u] \/ permit[u] # sale]
      /\ UNCHANGED <<apply, shop, good, reward, req, upBy,
                     submitted, opened, mixed, broken, requests, crashes>>
  BY DEF updateUser
<1>2. disabled' \in [Sellers -> BOOLEAN] /\ permit' \in [Sellers -> {0, 1}]
  BY <1>1 DEF Inv, Types
<1>3. byForm' \in [Sellers -> BOOLEAN]
  BY <1>1 DEF Inv, Types
<1>4. Types'
  BY <1>1, <1>2, <1>3 DEF Inv, Types
<1>5. ASSUME NEW v \in Sellers
      PROVE  byForm'[v] \/ (permit'[v] = permit[v] /\ ~byForm[v])
  <2>1. CASE v = u
    BY <1>1, <2>1 DEF Inv, Types
  <2>2. CASE v # u
    BY <1>1, <2>2 DEF Inv, Types
  <2> QED
    BY <2>1, <2>2
<1>6. \A v \in Sellers : Earned(v)
  BY <1>5 DEF Earned
<1>7. ASSUME NEW v \in Sellers, NEW r, SerialOK(v, r) PROVE SerialOK(v, r)'
  <2>1. Cardinality(OnSale(v))' = Cardinality(OnSale(v)) /\ Offered(v)' = Offered(v)
    BY <1>1 DEF OnSale, Offered
  <2> QED
    BY <1>1, <1>5, <1>7, <2>1 DEF SerialOK, Opening, Unpaid, Closing, Raises
<1> QED
  BY <1>1, <1>4, <1>6, <1>7, StandMove

\* A console's request that stops half-way marks its user; the phones go on.
LEMMA CrashInv ==
  ASSUME Inv, Crash
  PROVE  Inv'
<1> USE DEF Inv
<1>1. /\ crashes < MaxCrash /\ crashes' = crashes + 1
      /\ broken' = [u \in Sellers |->
                      \/ broken[u]
                      \/ \E c \in Consoles : req[c] # Idle /\ u \in req[c].about]
      /\ req' = [c \in Clients |-> IF c \in Consoles THEN Idle ELSE req[c]]
      /\ permit' = permit /\ disabled' = disabled /\ apply' = apply
      /\ shop' = shop /\ reward' = reward /\ good' = good /\ upBy' = upBy
      /\ submitted' = submitted /\ opened' = opened /\ byForm' = byForm
      /\ mixed' = mixed /\ requests' = requests
  BY DEF Crash, users
<1>2. Types'
  <2>1. broken' \in [Sellers -> BOOLEAN]
    BY Zenon, <1>1
  <2>2. crashes' \in 0 .. MaxCrash
    BY <1>1, SellerAssumption DEF Types
  <2> QED
    BY <1>1, <2>1, <2>2 DEF Types
<1>3. /\ \A c \in Consoles : req'[c] = Idle
      /\ \A p \in Phones : req'[p] = req[p]
      /\ req' = [c \in Clients |-> req'[c]]
  BY <1>1, SellerAssumption DEF Clients
<1>4. Shapes'
  <2>1. ASSUME NEW p \in Phones PROVE req'[p] = Idle \/ FromPhone(req[p])'
    <3>1. req[p] = Idle \/ FromPhone(req[p])
      BY DEF Shapes
    <3>2. FromPhone(req[p]) => FromPhone(req[p])'
      <4>1. \A u : /\ EditShop(req[p], u) => EditShop(req[p], u)'
                   /\ Publish(req[p], u) => Publish(req[p], u)'
                   /\ Alter(req[p], u) => Alter(req[p], u)'
        <5>1. TAKE u
        <5>2. EditShop(req[p], u) => EditShop(req[p], u)'
          BY <1>3 DEF EditShop
        <5>3. Publish(req[p], u) => Publish(req[p], u)'
          BY <1>3 DEF Publish
        <5>4. Alter(req[p], u) => Alter(req[p], u)'
          BY <1>1, <1>3 DEF Alter
        <5> QED
          BY <5>2, <5>3, <5>4
      <4> QED
        BY <4>1 DEF FromPhone
    <3> QED
      BY <1>3, <3>1, <3>2
  <2> QED
    BY <1>3, <2>1 DEF Shapes
<1>5. Counts'
  <2> SUFFICES ASSUME NEW u \in Sellers
               PROVE  /\ shop[u] + Count(u, "addShop")' + Count(u, "insertShop")'
                           <= Cardinality(Clients)
                      /\ reward[u].two + Count(u, "levelTwo")' <= reward[u].one
                      /\ opened[u] + Count(u, "permitOpen")' <= reward[u].two
    BY <1>1 DEF Counts
  <2>1. ASSUME NEW place \in {"addShop", "insertShop", "levelTwo", "permitOpen"}
        PROVE  Count(u, place)' <= Count(u, place) /\ Count(u, place)' \in Nat
    <3>1. Idle.at # place
      BY Places
    <3>2. At(u, place)' \subseteq At(u, place)
      BY <1>3, <3>1 DEF At, Clients
    <3>3. /\ Cardinality(At(u, place)') <= Cardinality(At(u, place))
          /\ IsFiniteSet(At(u, place)')
      BY <3>2, CountIsNat, FS_Subset
    <3>4. Cardinality(At(u, place)') \in Nat
      BY <3>3, FS_CardinalityType
    <3> QED
      BY <3>3, <3>4 DEF Count
  <2>2. \A place : Count(u, place) \in Nat
    BY CountIsNat
  <2>3. /\ reward[u].one \in Nat /\ reward[u].two \in Nat
        /\ opened[u] \in Nat /\ shop[u] \in Nat
    BY DEF Types
  <2>4. /\ shop[u] + Count(u, "addShop") + Count(u, "insertShop") <= Cardinality(Clients)
        /\ reward[u].two + Count(u, "levelTwo") <= reward[u].one
        /\ opened[u] + Count(u, "permitOpen") <= reward[u].two
    BY DEF Counts
  <2> QED
    BY <2>1, <2>2, <2>3, <2>4, ClientsFinite
<1>6. HasShop'
  <2>1. ASSUME NEW c \in Clients,
               req'[c].at \in {"levelOne", "levelTwo", "permitOpen"}
        PROVE  shop[req'[c].user] >= 1
    <3>1. req'[c] = req[c]
      BY <1>3, <2>1, Places DEF Clients
    <3> QED
      BY <2>1, <3>1 DEF HasShop
  <2> QED
    BY <1>1, <2>1 DEF HasShop
<1>7. ASSUME NEW u \in Sellers, NEW r, NEW s, SerialOK(u, r),
             s = r \/ (s = Idle /\ broken'[u])
      PROVE  SerialOK(u, s)'
  <2>1. Cardinality(OnSale(u))' = Cardinality(OnSale(u)) /\ Offered(u)' = Offered(u)
    BY <1>1 DEF OnSale, Offered
  <2>2. broken[u] => broken'[u]
    BY <1>1
  <2>3. CASE s = r
    BY <1>1, <1>7, <2>1, <2>2, <2>3
    DEF SerialOK, Opening, Unpaid, Closing, Raises
  <2>4. CASE s = Idle /\ broken'[u]
    <3>1. s.at = "idle"
      BY <2>4, Places
    <3> QED
      BY <1>1, <1>7, <2>1, <2>4, <3>1
      DEF SerialOK, Opening, Unpaid, Closing, Raises
  <2> QED
    BY <1>7, <2>3, <2>4
<1>8. Serial'
  <2> SUFFICES ASSUME NEW u \in Sellers, ~mixed[u]
               PROVE  /\ \A d, e \in Clients : Busy(d, u)' /\ Busy(e, u)' => d = e
                      /\ \A d \in Clients : Busy(d, u)' => SerialOK(u, req[d])'
                      /\ (\A d \in Clients : ~Busy(d, u)') => SerialOK(u, Idle)'
    BY <1>1 DEF Serial
  <2>1. /\ \A d, e \in Clients : Busy(d, u) /\ Busy(e, u) => d = e
        /\ \A d \in Clients : Busy(d, u) => SerialOK(u, req[d])
        /\ (\A d \in Clients : ~Busy(d, u)) => SerialOK(u, Idle)
    BY DEF Serial
  <2>2. ASSUME NEW d \in Clients, Busy(d, u)'
        PROVE  Busy(d, u) /\ req'[d] = req[d]
    BY <1>3, <2>2 DEF Busy, Clients
  <2>3. ASSUME NEW d \in Clients, Busy(d, u)' PROVE SerialOK(u, req[d])'
    <3>1. PICK s : s = req[d]
      OBVIOUS
    <3>2. SerialOK(u, s)'
      BY <2>1, <2>2, <2>3, <3>1, <1>7
    <3> QED
      BY <2>2, <2>3, <3>1, <3>2 DEF SerialOK, Opening, Unpaid, Closing, Raises
  <2>4. ASSUME \A d \in Clients : ~Busy(d, u)' PROVE SerialOK(u, Idle)'
    <3>1. CASE \A d \in Clients : ~Busy(d, u)
      BY <2>1, <3>1, <1>7
    <3>2. CASE \E d \in Clients : Busy(d, u)
      <4>1. PICK d \in Clients : Busy(d, u)
        BY <3>2
      <4>2. d \in Consoles
        BY <1>3, <2>4, <4>1 DEF Busy, Clients
      <4>3. broken'[u]
        BY <1>1, <4>1, <4>2 DEF Busy
      <4>4. SerialOK(u, req[d])
        BY <2>1, <4>1
      <4> QED
        BY <1>7, <4>3, <4>4
    <3> QED
      BY <3>1, <3>2
  <2> QED
    BY <2>1, <2>2, <2>3, <2>4
<1> QED
  BY <1>2, <1>4, <1>5, <1>6, <1>8

LEMMA NextInv ==
  ASSUME Inv, [Next]_vars
  PROVE  Inv'
<1>1. ASSUME NEW c \in Consoles, Click(c) PROVE Inv'
  BY <1>1, sellPermitInv, editSubmitInv, editStatusInv DEF Click
<1>2. ASSUME NEW c \in Consoles, Permit(c) PROVE Inv'
  <2>1. CASE permitRead(c) \/ permitReadDisabled(c)
    BY <2>1, permitReadInv, permitReadDisabledInv
  <2>2. CASE shopRead(c) \/ shopReadTwo(c) \/ addShop(c) \/ addShopDuplicate(c)
    BY <2>2, shopReadInv, addShopInv, addShopDuplicateInv
  <2>3. CASE levelOne(c) \/ levelTwo(c) \/ permitOpen(c)
    BY <2>3, levelInv, permitOpenInv
  <2>4. CASE rejectApply(c) \/ downGoodsByUserId(c) \/ permitClose(c)
    BY <2>4, rejectApplyInv, downGoodsInv, permitCloseInv
  <2> QED
    BY <1>2, <2>1, <2>2, <2>3, <2>4 DEF Permit
<1>3. CASE \E c \in Consoles : Click(c) \/ reviewRead(c) \/ reviewWrite(c) \/ Permit(c)
  BY <1>1, <1>2, <1>3, reviewReadInv, reviewWriteInv
<1>4. CASE \E p \in Phones : Tap(p) \/ editShop(p) \/ insertShop(p) \/ addMallGood(p)
  BY <1>4, TapInv, editShopInv, insertShopInv, addMallGoodInv
<1>5. CASE \E c \in Clients : goodCheck(c) \/ editGoodStatus(c)
  BY <1>5, goodCheckInv, editGoodStatusInv
<1>6. CASE \/ \E u \in Sellers : applyShop(u)
           \/ \E u \in Sellers, off \in BOOLEAN :
                \/ updateUserStatus(u, off)
                \/ \E sale \in {0, 1} : updateUser(u, sale, off)
  BY <1>6, applyShopInv, updateUserStatusInv, updateUserInv
<1>7. CASE UNCHANGED vars
  <2>1. Types'
    BY <1>7 DEF Inv, Types, vars
  <2>2. Still /\ req' = req /\ mixed' = mixed /\ shop' = shop /\ opened' = opened
    BY <1>7 DEF vars, Still
  <2>3. \A u \in Sellers : \A r : SerialOK(u, r) => SerialOK(u, r)'
    BY <2>2, StillOK
  <2>4. \A u \in Sellers : Earned(u)
    BY <2>2 DEF Still, Earned
  <2> QED
    BY <2>1, <2>2, <2>3, <2>4, StandMove DEF Still
<1> QED
  BY <1>3, <1>4, <1>5, <1>6, <1>7, CrashInv DEF Next

LEMMA InvAlways == Spec => []Inv
BY InitInv, NextInv, PTL DEF Spec

\* Every reachable state is well typed; in particular a user never has more
\* shop rows than there are clients that may have looked for one at once.
THEOREM TypeCorrect == Spec => []TypeOK
<1>1. Inv => TypeOK
  BY InvImplies
<1> QED
  BY <1>1, InvAlways, PTL

\* Whoever may sell and has his permit from an opening has a shop row, and no
\* shop was ever opened without its inviters having been rewarded for it,
\* however many consoles open and close it at once, wherever their requests are
\* cut short and whatever permits the user form writes between their statements.
THEOREM OpeningCorrect == Spec => []OpeningIsComplete
<1>1. Inv => OpeningIsComplete
  BY InvImplies
<1> QED
  BY <1>1, InvAlways, PTL

\* As long as no two requests about a user overlap, his inviters are rewarded
\* at most once for each of his applications, whatever the user form does.
THEOREM RewardCorrect == Spec => []OneRewardPerApplication
<1>1. Inv => OneRewardPerApplication
  BY InvImplies
<1> QED
  BY <1>1, InvAlways, PTL

\* The review page and the permit agree when nothing is under way and no
\* request overlapped another or was cut short; if the user form changed the
\* permit, then again as soon as an opening or closing has ended.
THEOREM PassedCorrect == Spec => []PassedMaySell
<1>1. Inv => PassedMaySell
  BY InvImplies
<1> QED
  BY <1>1, InvAlways, PTL

\* As long as no two requests about a user overlap, he has no more goods on
\* sale than the limit, and none of his own putting while he may not sell,
\* unless it was the user form that took his permit.
THEOREM OnSaleCorrect == Spec => []OnSaleIsAllowed
<1>1. Inv => OnSaleIsAllowed
  BY InvImplies
<1> QED
  BY <1>1, InvAlways, PTL
=============================================================================
