------------------------------- MODULE Seller -------------------------------
(***************************************************************************)
(* Becoming a seller and ceasing to be one: applications, the review and   *)
(* the permit button of the admin console (JavaScript), the controllers    *)
(* behind them, UserService.updateUserSellPermitStatu, the user form of    *)
(* the admin module, which overwrites the permit, and what sellers and     *)
(* admins do to goods meanwhile.                                           *)
(*                                                                         *)
(* None of these handlers runs in a transaction (applyShop and the user    *)
(* form do): a request is a sequence of statements, each committed by      *)
(* itself, and the statements of different clients interleave.  A client   *)
(* waits for its answer ($ax is synchronous), so it has at most one        *)
(* request under way.                                                      *)
(*                                                                         *)
(* An admin acts on a table row as it was when the page was loaded: the    *)
(* row a click uses is any row the page may show.  Orders are the business *)
(* of MallOrder and ShopClose; here they only make the service refuse to   *)
(* take a good off sale, at its own discretion.                            *)
(***************************************************************************)
EXTENDS Integers, FiniteSets

CONSTANTS
  Sellers,     \* users who may become sellers; each has two inviters
  Goods,       \* bound: the ids of goods
  Consoles,    \* admin consoles, served by the guns process
  Phones,      \* clients of the api process
  GoodMax,     \* configService.getMallGoodMax
  MaxApply,    \* bound: applications per user
  MaxRequests, \* bound: requests, not counting applications
  MaxCrash     \* bound: deaths of the guns process

ASSUME SellerAssumption ==
  /\ "console" \notin Sellers  \* in upBy, somebody who is no seller
  /\ Consoles \cap Phones = {} /\ IsFiniteSet(Consoles \cup Phones)
  /\ GoodMax \in Nat /\ MaxApply \in Nat /\ MaxRequests \in Nat /\ MaxCrash \in Nat

Clients == Consoles \cup Phones

VARIABLES
  permit,    \* permit[u], sales_permit of t_user
  disabled,  \* disabled[u], status of t_user
  apply,     \* apply[u], status of the t_mall_apply row: "none" before it exists
  shop,      \* shop[u], the number of t_mall_shop rows
  good,      \* the table t_mall_good: owner and status
  reward,    \* reward[u], how often the two inviters were rewarded for u
  req,       \* req[c], the request of client c: its place and local variables
  upBy,      \* upBy[g], who put good g on sale last: a user or "console"
  submitted, \* submitted[u], applications made
  opened,    \* opened[u], how often an opening took the permit from 0 to 1
  byForm,    \* byForm[u], whether the user form changed the permit and no
             \* opening or closing has ended since
  mixed,     \* mixed[u], whether requests that concern u ever overlapped
  broken,    \* broken[u], whether a request that opens or closes was cut short
  requests,  \* how many requests there were
  crashes

vars == <<permit, disabled, apply, shop, good, reward, req, upBy,
          submitted, opened, byForm, mixed, broken, requests, crashes>>

\* What most statements leave alone, by theme.
ghosts == <<submitted, opened, byForm, mixed, broken, requests, crashes>>
users == <<permit, disabled, apply, shop, reward>>

Idle == [at |-> "idle"]
GoodRow == [user : Sellers, status : {0, 1}]
Place == {"idle", "reviewRead", "reviewWrite", "permitRead", "shopRead",
          "addShop", "levelOne", "levelTwo", "permitOpen", "rejectApply",
          "downGoods", "permitClose", "goodCheck", "goodWrite", "editShop",
          "insertShop"}

TypeOK ==
  /\ permit \in [Sellers -> {0, 1}]
  /\ disabled \in [Sellers -> BOOLEAN]
  /\ apply \in [Sellers -> {"none", "applying", "rejected", "passed"}]
  /\ shop \in [Sellers -> 0 .. Cardinality(Clients)]
  /\ DOMAIN good \subseteq Goods /\ good \in [DOMAIN good -> GoodRow]
  /\ reward \in [Sellers -> [one : Nat, two : Nat]]
  /\ \A c \in Clients : req[c].at \in Place
  /\ upBy \in [DOMAIN good -> Sellers \cup {"console"}]
  /\ submitted \in [Sellers -> 0 .. MaxApply] /\ opened \in [Sellers -> Nat]
  /\ byForm \in [Sellers -> BOOLEAN]
  /\ mixed \in [Sellers -> BOOLEAN] /\ broken \in [Sellers -> BOOLEAN]
  /\ requests \in 0 .. MaxRequests /\ crashes \in 0 .. MaxCrash

Init ==
  /\ permit = [u \in Sellers |-> 0]
  /\ disabled = [u \in Sellers |-> FALSE]
  /\ apply = [u \in Sellers |-> "none"]
  /\ shop = [u \in Sellers |-> 0]
  /\ good = [g \in {} |-> Idle]
  /\ reward = [u \in Sellers |-> [one |-> 0, two |-> 0]]
  /\ req = [c \in Clients |-> Idle]
  /\ upBy = [g \in {} |-> "console"]
  /\ submitted = [u \in Sellers |-> 0]
  /\ opened = [u \in Sellers |-> 0]
  /\ byForm = [u \in Sellers |-> FALSE]
  /\ mixed = [u \in Sellers |-> FALSE]
  /\ broken = [u \in Sellers |-> FALSE]
  /\ requests = 0
  /\ crashes = 0

-----------------------------------------------------------------------------
\* The beginning, the next statement and the end of a request of client c;
\* r.about are the users whom request r concerns.
Start(c, r) ==
  /\ req[c] = Idle
  /\ requests < MaxRequests
  /\ requests' = requests + 1
  /\ req' = [req EXCEPT ![c] = r]
  /\ mixed' = [u \in Sellers |->
                 \/ mixed[u]
                 \/ u \in r.about /\ \E d \in Clients \ {c} :
                                       req[d] # Idle /\ u \in req[d].about]
Goto(c, place) == req' = [req EXCEPT ![c].at = place]
Done(c) == req' = [req EXCEPT ![c] = Idle]

\* A handler that opens or closes throws in the middle.
Throw(c) ==
  /\ Done(c)
  /\ broken' = [broken EXCEPT ![req[c].user] = TRUE]
  /\ UNCHANGED <<users, good, upBy, submitted, opened, byForm, mixed,
                 requests, crashes>>

-----------------------------------------------------------------------------
(***************************************************************************)
(* The pages of the console.                                               *)
(***************************************************************************)

\* A row of the user table as /user/list sends it.
UserRow == [salesPermit : {0, 1}]

\* User.sellPermit computes the status to send from row.sellPermit, which no
\* row has: undefined == 0 is false.
ButtonStatus(row) ==
  IF "sellPermit" \in DOMAIN row /\ row.sellPermit = 0 THEN 1 ELSE 0

\* User.sellPermit: row and answer to the question are turned into a request.
sellPermit(c, u, row) ==
  /\ Start(c, [at |-> "permitRead", user |-> u, about |-> {u},
               status |-> ButtonStatus(row), shown |-> row.salesPermit])
  /\ UNCHANGED <<users, good, upBy, submitted, opened, byForm, broken, crashes>>

\* TMallApplyInfoDlg.editSubmit: the buttons are there if the application was
\* under review when the page was loaded.
editSubmit(c, u, status) ==
  /\ submitted[u] > 0
  /\ Start(c, [at |-> "reviewRead", user |-> u, about |-> {u}, status |-> status])
  /\ UNCHANGED <<users, good, upBy, submitted, opened, byForm, broken, crashes>>

\* TMallGood.editStatus and TMallGood.delete: the type sent, from the row.
TypeOfEditStatus(row) == IF row.status = 0 THEN "UP" ELSE "DOWN"
TypeOfDelete(isDelete) == IF isDelete = 0 THEN "DELETE" ELSE "UNDELETE"

editStatus(c, g) ==
  /\ g \in DOMAIN good
  /\ \E type \in {TypeOfEditStatus(row) : row \in GoodRow}
                \cup {TypeOfDelete(d) : d \in {0, 1}} :
       Start(c, [at |-> "goodCheck", user |-> "console", about |-> {good[g].user},
                 good |-> g, type |-> type])
  /\ UNCHANGED <<users, good, upBy, submitted, opened, byForm, broken, crashes>>

-----------------------------------------------------------------------------
(***************************************************************************)
(* TMallApplyController.update.                                            *)
(***************************************************************************)

\* The review whose status test is missing.
ReviewAnyStatus(c) ==
  /\ req[c].at = "reviewRead"
  /\ Goto(c, "reviewWrite")
  /\ UNCHANGED <<users, good, upBy, ghosts>>

\* Only an application under review can be reviewed; the others are answered
\* with an error.
reviewRead(c) ==
  /\ req[c].at = "reviewRead"
  /\ IF apply[req[c].user] = "applying" THEN Goto(c, "reviewWrite") ELSE Done(c)
  /\ UNCHANGED <<users, good, upBy, ghosts>>

reviewWrite(c) ==
  /\ req[c].at = "reviewWrite"
  /\ apply' = [apply EXCEPT ![req[c].user] = req[c].status]
  /\ IF req[c].status = "passed"
     THEN req' = [req EXCEPT ![c] = [at |-> "permitRead", user |-> req[c].user,
                                     about |-> req[c].about, status |-> 1,
                                     shown |-> 0]]
     ELSE Done(c)
  /\ UNCHANGED <<permit, disabled, shop, reward, good, upBy, ghosts>>

-----------------------------------------------------------------------------
(***************************************************************************)
(* UserService.updateUserSellPermitStatu.                                  *)
(***************************************************************************)

\* The user is read; nothing is done if the permit is as asked for.
permitRead(c) ==
  /\ req[c].at = "permitRead"
  /\ ~(req[c].status = 1 /\ permit[req[c].user] = 0 /\ disabled[req[c].user])
  /\ req' = [req EXCEPT ![c] =
               IF permit[req[c].user] = req[c].status THEN Idle
               ELSE [at |-> IF req[c].status = 1 THEN "shopRead" ELSE "rejectApply",
                     user |-> req[c].user, about |-> req[c].about]]
  /\ UNCHANGED <<users, good, upBy, ghosts>>

\* ERR_USER_DISABLE.
permitReadDisabled(c) ==
  /\ req[c].at = "permitRead"
  /\ req[c].status = 1 /\ permit[req[c].user] = 0 /\ disabled[req[c].user]
  /\ Throw(c)

\* Two rows make the query for one throw.
shopRead(c) ==
  /\ req[c].at = "shopRead"
  /\ shop[req[c].user] <= 1
  /\ Goto(c, IF shop[req[c].user] = 0 THEN "addShop" ELSE "levelOne")
  /\ UNCHANGED <<users, good, upBy, ghosts>>

shopReadTwo(c) == req[c].at = "shopRead" /\ shop[req[c].user] > 1 /\ Throw(c)

\* A second row, inserted by a request that found none, is refused or not: the
\* schema, which would say whether user_id is a unique key, is not in the
\* repository.
addShop(c) ==
  /\ req[c].at = "addShop"
  /\ shop' = [shop EXCEPT ![req[c].user] = shop[req[c].user] + 1]
  /\ Goto(c, "levelOne")
  /\ UNCHANGED <<permit, disabled, apply, reward, good, upBy, ghosts>>

addShopDuplicate(c) ==
  req[c].at = "addShop" /\ shop[req[c].user] > 0 /\ Throw(c)

\* The permit is given after the first inviter's reward.
RewardOne(c) ==
  /\ req[c].at = "levelOne"
  /\ reward' = [reward EXCEPT ![req[c].user].one = reward[req[c].user].one + 1]
  /\ Goto(c, "permitOpen")
  /\ UNCHANGED <<permit, disabled, apply, shop, good, upBy, ghosts>>

\* The two inviters are rewarded, each in a transaction of its own.
levelOne(c) ==
  /\ req[c].at = "levelOne"
  /\ reward' = [reward EXCEPT ![req[c].user].one = reward[req[c].user].one + 1]
  /\ Goto(c, "levelTwo")
  /\ UNCHANGED <<permit, disabled, apply, shop, good, upBy, ghosts>>

levelTwo(c) ==
  /\ req[c].at = "levelTwo"
  /\ reward' = [reward EXCEPT ![req[c].user].two = reward[req[c].user].two + 1]
  /\ Goto(c, "permitOpen")
  /\ UNCHANGED <<permit, disabled, apply, shop, good, upBy, ghosts>>

permitOpen(c) ==
  /\ req[c].at = "permitOpen"
  /\ permit' = [permit EXCEPT ![req[c].user] = 1]
  /\ opened' = [opened EXCEPT ![req[c].user] =
                  opened[req[c].user] + (1 - permit[req[c].user])]
  /\ byForm' = [byForm EXCEPT ![req[c].user] = FALSE]
  /\ Done(c)
  /\ UNCHANGED <<disabled, apply, shop, reward, good, upBy,
                 submitted, mixed, broken, requests, crashes>>

\* The application is left as it is.
KeepApply(c) ==
  /\ req[c].at = "rejectApply"
  /\ Goto(c, "downGoods")
  /\ UNCHANGED <<users, good, upBy, ghosts>>

\* Closing: the application, if there is one, becomes rejected; the goods are
\* taken off sale; the orders are closed (the steps of ShopClose, which touch
\* nothing of this module's state); the permit goes.
rejectApply(c) ==
  /\ req[c].at = "rejectApply"
  /\ apply' = [apply EXCEPT ![req[c].user] =
                 IF apply[req[c].user] = "none" THEN "none" ELSE "rejected"]
  /\ Goto(c, "downGoods")
  /\ UNCHANGED <<permit, disabled, shop, reward, good, upBy, ghosts>>

\* The goods are forgotten.
DownNothing(c) ==
  /\ req[c].at = "downGoods"
  /\ Goto(c, "permitClose")
  /\ UNCHANGED <<users, good, upBy, ghosts>>

downGoodsByUserId(c) ==
  /\ req[c].at = "downGoods"
  /\ good' = [g \in DOMAIN good |->
                IF good[g].user = req[c].user
                THEN [good[g] EXCEPT !.status = 0] ELSE good[g]]
  /\ Goto(c, "permitClose")
  /\ UNCHANGED <<users, upBy, ghosts>>

permitClose(c) ==
  /\ req[c].at = "permitClose"
  /\ permit' = [permit EXCEPT ![req[c].user] = 0]
  /\ byForm' = [byForm EXCEPT ![req[c].user] = FALSE]
  /\ Done(c)
  /\ UNCHANGED <<disabled, apply, shop, reward, good, upBy,
                 submitted, opened, mixed, broken, requests, crashes>>

-----------------------------------------------------------------------------
(***************************************************************************)
(* The api: ShopController and GoodController.                             *)
(***************************************************************************)

\* MallShopService.applyShop, one transaction.
applyShop(u) ==
  /\ ~disabled[u]
  /\ submitted[u] < MaxApply
  /\ apply[u] \in {"none", "rejected"}
  /\ apply' = [apply EXCEPT ![u] = "applying"]
  /\ submitted' = [submitted EXCEPT ![u] = submitted[u] + 1]
  /\ UNCHANGED <<permit, disabled, shop, reward, good, req, upBy,
                 opened, byForm, mixed, broken, requests, crashes>>

\* OAuth2Realm loads the user, and the controllers test the permit it has at
\* that moment.
Authorized(u) == permit[u] = 1 /\ ~disabled[u]

\* GoodController: publishGood, and editGoodStatus of any good, whoever owns it.
publishRequest(p, u) ==
  /\ Authorized(u)
  /\ Start(p, [at |-> "goodCheck", user |-> u, about |-> {u}, type |-> "PUBLISH"])
  /\ UNCHANGED <<users, good, upBy, submitted, opened, byForm, broken, crashes>>

statusRequest(p, u, g, type) ==
  /\ Authorized(u)
  /\ g \in DOMAIN good
  /\ Start(p, [at |-> "goodCheck", user |-> u, about |-> {u, good[g].user},
               good |-> g, type |-> type])
  /\ UNCHANGED <<users, good, upBy, submitted, opened, byForm, broken, crashes>>

\* ShopController.
shopRequest(p, u) ==
  /\ Authorized(u)
  /\ Start(p, [at |-> "editShop", user |-> u, about |-> {u}])
  /\ UNCHANGED <<users, good, upBy, submitted, opened, byForm, broken, crashes>>

\* The row is not looked up.
InsertShopAlways(p) ==
  /\ req[p].at = "editShop"
  /\ Goto(p, "insertShop")
  /\ UNCHANGED <<users, good, upBy, ghosts>>

\* MallShopService.editShop looks the row up and updates it, or inserts it if
\* there was none: whom the form lets sell may have none.  Two rows throw.
editShop(p) ==
  /\ req[p].at = "editShop"
  /\ IF shop[req[p].user] = 0 THEN Goto(p, "insertShop") ELSE Done(p)
  /\ UNCHANGED <<users, good, upBy, ghosts>>

insertShop(p) ==
  /\ req[p].at = "insertShop"
  /\ \/ shop' = [shop EXCEPT ![req[p].user] = shop[req[p].user] + 1]
     \/ shop[req[p].user] > 0 /\ shop' = shop  \* refused, as in addShop
  /\ Done(p)
  /\ UNCHANGED <<permit, disabled, apply, reward, good, upBy, ghosts>>

-----------------------------------------------------------------------------
(***************************************************************************)
(* MallGoodService.publishGood and editGoodStatus.                         *)
(***************************************************************************)

OnSale(u) == {g \in DOMAIN good : good[g].user = u /\ good[g].status = 1}

\* Whose goods are counted for the request of client c.
Counted(c) ==
  IF req[c].type = "PUBLISH" THEN req[c].user ELSE good[req[c].good].user

\* A good goes on sale only if there are fewer than GoodMax; for want of stock,
\* or because of unfinished orders, the request may be refused in any case.
goodCheck(c) ==
  /\ req[c].at = "goodCheck"
  /\ \/ /\ req[c].type \in {"PUBLISH", "UP"}
               => Cardinality(OnSale(Counted(c))) < GoodMax
        /\ Goto(c, "goodWrite")
     \/ Done(c)
  /\ UNCHANGED <<users, good, upBy, ghosts>>

\* updateMallGoodById as editGoodStatus calls it.  is_delete, which only hides
\* a good from the lists, is left out.
NewStatus(old, type) ==
  [UP |-> 1, DOWN |-> 0, DELETE |-> 0, UNDELETE |-> old][type]

editGoodStatus(c) ==
  /\ req[c].at = "goodWrite" /\ req[c].type # "PUBLISH"
  /\ good' = [good EXCEPT ![req[c].good].status =
                NewStatus(good[req[c].good].status, req[c].type)]
  /\ upBy' = IF req[c].type = "UP" THEN [upBy EXCEPT ![req[c].good] = req[c].user]
             ELSE upBy
  /\ Done(c)
  /\ UNCHANGED <<users, ghosts>>

\* addMallGood: a new row, on sale by the default of its column.
addMallGood(c) ==
  /\ req[c].at = "goodWrite" /\ req[c].type = "PUBLISH"
  /\ \E g \in Goods \ DOMAIN good :
       /\ good' = [h \in DOMAIN good \cup {g} |->
                     IF h \in DOMAIN good THEN good[h]
                     ELSE [user |-> req[c].user, status |-> 1]]
       /\ upBy' = [h \in DOMAIN good \cup {g} |->
                     IF h \in DOMAIN good THEN upBy[h] ELSE req[c].user]
  /\ Done(c)
  /\ UNCHANGED <<users, ghosts>>

-----------------------------------------------------------------------------
\* UserService.updateUserStatus, called by the admin module.
updateUserStatus(u, off) ==
  /\ disabled' = [disabled EXCEPT ![u] = off]
  /\ UNCHANGED <<permit, apply, shop, good, reward, req, upBy, ghosts>>

\* UserService.updateUser, called by the user form of the admin module: one
\* UPDATE writes permit and status as the form has them (a field that is not
\* sent stays as it is).  No shop, reward, application or good follows.
updateUser(u, sale, off) ==
  /\ permit' = [permit EXCEPT ![u] = sale]
  /\ disabled' = [disabled EXCEPT ![u] = off]
  /\ byForm' = [byForm EXCEPT ![u] = byForm[u] \/ permit[u] # sale]
  /\ UNCHANGED <<apply, shop, good, reward, req, upBy,
                 submitted, opened, mixed, broken, requests, crashes>>

\* The guns process dies: the consoles' requests stop where they are.
Crash ==
  /\ crashes < MaxCrash
  /\ crashes' = crashes + 1
  /\ broken' = [u \in Sellers |-> \/ broken[u]
                                  \/ \E c \in Consoles : req[c] # Idle
                                                        /\ u \in req[c].about]
  /\ req' = [c \in Clients |-> IF c \in Consoles THEN Idle ELSE req[c]]
  /\ UNCHANGED <<users, good, upBy, submitted, opened, byForm, mixed, requests>>

Click(c) ==
  \/ \E u \in Sellers, row \in UserRow : sellPermit(c, u, row)
  \/ \E u \in Sellers, status \in {"rejected", "passed"} : editSubmit(c, u, status)
  \/ \E g \in Goods : editStatus(c, g)

Permit(c) ==
  \/ permitRead(c) \/ permitReadDisabled(c)
  \/ shopRead(c) \/ shopReadTwo(c) \/ addShop(c) \/ addShopDuplicate(c)
  \/ levelOne(c) \/ levelTwo(c) \/ permitOpen(c)
  \/ rejectApply(c) \/ downGoodsByUserId(c) \/ permitClose(c)

Tap(p) ==
  \E u \in Sellers :
    \/ shopRequest(p, u)
    \/ publishRequest(p, u)
    \/ \E g \in Goods, type \in {"UP", "DOWN", "DELETE"} :
         statusRequest(p, u, g, type)

Next ==
  \/ \E c \in Consoles : Click(c) \/ reviewRead(c) \/ reviewWrite(c) \/ Permit(c)
  \/ \E p \in Phones : Tap(p) \/ editShop(p) \/ insertShop(p) \/ addMallGood(p)
  \/ \E c \in Clients : goodCheck(c) \/ editGoodStatus(c)
  \/ \E u \in Sellers : applyShop(u)
  \/ \E u \in Sellers, off \in BOOLEAN :
       updateUserStatus(u, off) \/ \E sale \in {0, 1} : updateUser(u, sale, off)
  \/ Crash

Spec == Init /\ [][Next]_vars

-----------------------------------------------------------------------------
(***************************************************************************)
(* Properties.                                                             *)
(***************************************************************************)

\* Two consoles opening the same shop, closings in between, crashes, phones
\* that add the row and the missing transaction notwithstanding: whoever may
\* sell has a shop row, which confirmOrder and the goods queries rely on, and no
\* shop was opened without its inviters having been rewarded for it.  What a
\* crash costs the platform is a reward too many, never the inviters one too
\* few.  A permit the user form gave has no shop row and no reward behind it;
\* that lasts until an opening or closing ends, however the form was used.
OpeningIsComplete ==
  \A u \in Sellers :
    /\ permit[u] = 1 /\ ~byForm[u] => shop[u] >= 1
    /\ opened[u] <= reward[u].two /\ reward[u].two <= reward[u].one

\* As long as no two requests about a user overlap, every application is
\* rewarded once at most: neither a closed and reopened shop nor a request cut
\* short nor the user form, whatever permit it writes and while any request is
\* under way, makes the inviters of one application be paid again.
OneRewardPerApplication ==
  \A u \in Sellers : ~mixed[u] => reward[u].one <= submitted[u]

Quiet(u) == \A c \in Clients : req[c] # Idle => u \notin req[c].about

\* The review page and the permit agree when nothing is under way: a user
\* whose application was passed may sell, unless requests overlapped, one was
\* cut short, or the user was disabled when he was approved.  The user form sets
\* them apart, and the next opening or closing that ends puts them right, also
\* one the form cut in on.
PassedMaySell ==
  \A u \in Sellers : Quiet(u) /\ ~mixed[u] /\ ~broken[u] /\ ~byForm[u] =>
                       (apply[u] = "passed" <=> permit[u] = 1)

\* What a seller has on sale is what he may have.  The goods on sale are
\* counted before one more is put there: as long as no requests overlap,
\* publishing, deleting, restoring and putting back on sale by the seller and
\* by admins in any order keep to the limit.  A user who may not sell has no
\* good on sale that he put there himself, whatever requests were cut short
\* and while any request is under way, unless requests overlapped or the user
\* form took his permit, which takes no good off sale.
OnSaleIsAllowed ==
  \A u \in Sellers : ~mixed[u] =>
    /\ Cardinality(OnSale(u)) <= GoodMax
    /\ permit[u] = 0 /\ ~byForm[u] => \A g \in OnSale(u) : upBy[g] # u

\* The button of the user page: on the row of a user who may not sell it opens
\* the shop, on any other it closes it.
ButtonToggles ==
  \A c \in Consoles : req[c].at = "permitRead" => req[c].status = 1 - req[c].shown
=============================================================================
