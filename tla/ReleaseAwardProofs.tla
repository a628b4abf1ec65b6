------------------------- MODULE ReleaseAwardProofs -------------------------
(***************************************************************************)
(* The safety of the daily release, for all users, balances, rates and     *)
(* bounds.                                                                 *)
(*                                                                         *)
(* None of the properties is inductive.  That nothing is created or lost   *)
(* when a run commits needs to know that its moves still fit the rows they *)
(* were tested against, which holds because the run keeps them locked      *)
(* (MovesFit).  That a day has one release needs to know that a run only   *)
(* exists while its day is open, and that whoever was served has closed it *)
(* (RunIsDue, ServedIsDone).                                               *)
(***************************************************************************)
EXTENDS ReleaseAward, TLAPS

\* The record of a running transaction.
RunShape ==
  run # NoRun =>
    /\ run = [active |-> TRUE, rate |-> run.rate, award |-> run.award,
              left |-> run.left, moved |-> run.moved]
    /\ run.rate \in 0 .. 100
    /\ DOMAIN run.award \subseteq Users
    /\ run.award \in [DOMAIN run.award -> Nat]
    /\ run.left \subseteq DOMAIN run.award
    /\ DOMAIN run.moved \subseteq Users
    /\ run.moved \in [DOMAIN run.moved -> Nat]

\* What the run has moved was tested against rows that nobody else has
\* changed since.
MovesFit ==
  run # NoRun =>
    \A u \in DOMAIN run.moved :
      CanChange(coin[u], run.moved[u], 0, 0 - run.moved[u])

\* A run belongs to a day that is not marked as done.
RunIsDue == last <= day /\ (run # NoRun => last < day)

\* Until a run fails, a user who was served today was served once, by a run
\* that marked the day as done.
ServedIsDone ==
  budget.faults = MaxFaults =>
    \A u \in Users : released[u] <= 1 /\ (released[u] > 0 => last = day)

Inv ==
  /\ TypeOK
  /\ RunShape
  /\ MovesFit
  /\ ReleaseConserves
  /\ RunIsDue
  /\ ServedIsDone

-----------------------------------------------------------------------------
(***************************************************************************)
(* The operators.                                                          *)
(***************************************************************************)

\* A release is never negative, whatever the rounding does.
LEMMA ReleaseNumType ==
  ASSUME NEW a \in Nat, NEW p \in 0 .. 100
  PROVE  ReleaseNum(a, p) \in Nat
<1>1. a * p \in Nat
  OBVIOUS
<1>2. ASSUME NEW n \in Nat
      PROVE  (n + 50) \div 100 \in Nat
  OBVIOUS
<1>. QED BY <1>1, <1>2, ReleaseAssumption DEF ReleaseNum

\* The move that a turn of the loop adds fits the row as it is now.
LEMMA MovedFits ==
  ASSUME Inv, run # NoRun, NEW u \in run.left
  PROVE  /\ DOMAIN Moved(u) \subseteq Users
         /\ Moved(u) \in [DOMAIN Moved(u) -> Nat]
         /\ \A x \in DOMAIN Moved(u) :
              CanChange(coin[x], Moved(u)[x], 0, 0 - Moved(u)[x])
<1>. DEFINE n == ReleaseNum(run.award[u], run.rate)
            k == IF CanChange(coin[u], n, 0, 0 - n) THEN n ELSE 0
<1>1. /\ u \in Users /\ run.award[u] \in Nat /\ run.rate \in 0 .. 100
      /\ DOMAIN run.moved \subseteq Users
      /\ run.moved \in [DOMAIN run.moved -> Nat]
  BY DEF Inv, RunShape
<1>2. n \in Nat
  BY <1>1, ReleaseNumType
<1>. HIDE DEF n
<1>3. k \in Nat
  BY <1>2
<1>4. CanChange(coin[u], k, 0, 0 - k)
  <2>1. coin[u] \in Balance
    BY <1>1 DEF Inv, TypeOK
  <2>2. CanChange(coin[u], 0, 0, 0 - 0)
    BY <2>1 DEF CanChange, Balance
  <2>3. CASE CanChange(coin[u], n, 0, 0 - n)
    BY <2>3
  <2>4. CASE ~CanChange(coin[u], n, 0, 0 - n)
    BY <2>2, <2>4
  <2>. QED BY <2>3, <2>4
<1>5. Moved(u) = Extend(run.moved, u, k)
  BY DEF Moved, n
<1>. HIDE DEF k
<1>6. /\ DOMAIN Moved(u) = DOMAIN run.moved \cup {u}
      /\ Moved(u)[u] = k
      /\ \A x \in DOMAIN run.moved : x # u => Moved(u)[x] = run.moved[x]
  BY <1>5 DEF Extend
<1>7. Moved(u) \in [DOMAIN Moved(u) -> Nat]
  BY <1>1, <1>3, <1>5 DEF Extend
<1>8. ASSUME NEW x \in DOMAIN Moved(u)
      PROVE  CanChange(coin[x], Moved(u)[x], 0, 0 - Moved(u)[x])
  <2>1. CASE x = u
    BY <1>4, <1>6, <2>1
  <2>2. CASE x # u
    <3>1. x \in DOMAIN run.moved /\ Moved(u)[x] = run.moved[x]
      BY <1>6, <2>2
    <3>2. CanChange(coin[x], run.moved[x], 0, 0 - run.moved[x])
      BY <3>1 DEF Inv, MovesFit
    <3>. QED BY <3>1, <3>2
  <2>. QED BY <2>1, <2>2
<1>. QED BY <1>1, <1>6, <1>7, <1>8

\* A commit of fitting moves keeps the rows and the books.
LEMMA CommitKeeps ==
  ASSUME Inv, NEW m, DOMAIN m \subseteq Users, m \in [DOMAIN m -> Nat],
         \A x \in DOMAIN m : CanChange(coin[x], m[x], 0, 0 - m[x]),
         Commit(m), UNCHANGED spent
  PROVE  /\ coin' \in [Users -> Balance]
         /\ ReleaseConserves'
         /\ released' \in [Users -> Nat]
         /\ \A u \in Users : released'[u] <= released[u] + 1
         /\ run' = NoRun /\ relaseBool' = TRUE
<1>1. ASSUME NEW u \in Users
      PROVE  /\ coin'[u] \in Balance
             /\ coin'[u].available + coin'[u].award = InitAward[u] + spent'[u]
  <2>1. /\ coin[u] \in Balance /\ InitAward[u] \in Nat /\ spent[u] \in Int
        /\ coin[u].available + coin[u].award = InitAward[u] + spent[u]
    BY ReleaseAssumption DEF Inv, TypeOK, ReleaseConserves
  <2>2. CASE u \in DOMAIN m
    <3>1. coin'[u] = Change(coin[u], m[u], 0, 0 - m[u])
      BY <2>2 DEF Commit
    <3>2. m[u] \in Nat /\ CanChange(coin[u], m[u], 0, 0 - m[u])
      BY <2>2
    <3>. QED BY <2>1, <3>1, <3>2 DEF Change, CanChange, Balance
  <2>3. CASE u \notin DOMAIN m
    BY <2>1, <2>3 DEF Commit
  <2>. QED BY <2>2, <2>3
<1>2. coin' \in [Users -> Balance]
  BY <1>1 DEF Commit
<1>3. ReleaseConserves'
  BY <1>1 DEF ReleaseConserves, Balance
<1>4. /\ released' \in [Users -> Nat]
      /\ \A u \in Users : released'[u] <= released[u] + 1
  BY DEF Commit, Inv, TypeOK
<1>. QED BY <1>2, <1>3, <1>4 DEF Commit

-----------------------------------------------------------------------------
(***************************************************************************)
(* The steps.                                                              *)
(***************************************************************************)

LEMMA InitInv == Init => Inv
<1>. SUFFICES ASSUME Init PROVE Inv
  OBVIOUS
<1>1. ASSUME NEW u \in Users
      PROVE  coin[u] \in Balance /\ coin[u].available = 0
             /\ coin[u].award = InitAward[u]
  BY ReleaseAssumption DEF Init, EmptyRow, Balance
<1>2. TypeOK
  BY <1>1, ReleaseAssumption DEF Init, TypeOK
<1>3. ReleaseConserves
  BY <1>1, ReleaseAssumption DEF Init, ReleaseConserves
<1>4. RunShape /\ MovesFit /\ RunIsDue /\ ServedIsDone
  BY DEF Init, RunShape, MovesFit, RunIsDue, ServedIsDone
<1>. QED BY <1>2, <1>3, <1>4 DEF Inv

LEMMA StartInv == ASSUME Inv, startRelease PROVE Inv'
<1>. DEFINE S == getUserCoinAwardBalanceAll
            aw == [u \in S |-> coin[u].award]
<1>1. /\ day > last /\ run = NoRun
      /\ UNCHANGED <<coin, rate, day, released, spent, budget>>
      /\ relaseBool' = FALSE
      /\ \/ UNCHANGED <<last, run>>
         \/ last' = day /\ UNCHANGED run
         \/ /\ run' = [active |-> TRUE, rate |-> rate, award |-> aw,
                       left |-> S, moved |-> [u \in {} |-> 0]]
            /\ UNCHANGED last
  BY DEF startRelease, releaseAwardBanlance
<1>2. S \subseteq Users /\ aw \in [S -> Nat] /\ rate \in 0 .. 100
  BY ReleaseAssumption DEF Inv, TypeOK, Balance, getUserCoinAwardBalanceAll
<1>. HIDE DEF S, aw
<1>3. day \in 1 .. MaxDay /\ last \in 0 .. MaxDay
  BY DEF Inv, TypeOK
<1>4. TypeOK'
  <2>1. run' = NoRun \/ (run'.active /\ run'.left \subseteq DOMAIN run'.award)
    BY <1>1, <1>2
  <2>2. last' \in 0 .. MaxDay
    BY <1>1, <1>3, ReleaseAssumption
  <2>. QED BY <1>1, <2>1, <2>2 DEF Inv, TypeOK
<1>5. RunShape'
  <2>1. CASE run' = run
    BY <1>1, <2>1 DEF RunShape
  <2>2. CASE run' = [active |-> TRUE, rate |-> rate, award |-> aw,
                     left |-> S, moved |-> [u \in {} |-> 0]]
    BY <1>2, <2>2 DEF RunShape
  <2>. QED BY <1>1, <2>1, <2>2
<1>6. MovesFit'
  <2>1. run' = NoRun \/ run'.moved = [u \in {} |-> 0]
    BY <1>1
  <2>. QED BY <2>1 DEF MovesFit
<1>7. ReleaseConserves'
  BY <1>1 DEF Inv, ReleaseConserves
<1>8. RunIsDue'
  BY <1>1, <1>3 DEF RunIsDue
<1>9. ServedIsDone'
  <2>. SUFFICES ASSUME budget.faults = MaxFaults, NEW u \in Users
                PROVE  released[u] <= 1 /\ (released[u] > 0 => last' = day)
    BY <1>1 DEF ServedIsDone
  <2>1. released[u] <= 1 /\ (released[u] > 0 => last = day)
    BY DEF Inv, ServedIsDone
  <2>. QED BY <1>1, <1>3, <2>1
<1>. QED BY <1>4, <1>5, <1>6, <1>7, <1>8, <1>9 DEF Inv

LEMMA ReleaseOneInv ==
  ASSUME Inv, NEW u \in Users, releaseOne(u)
  PROVE  Inv'
<1>1. /\ run # NoRun /\ u \in run.left
      /\ UNCHANGED <<coin, rate, day, last, relaseBool, released, spent, budget>>
  BY DEF releaseOne
<1>2. /\ DOMAIN Moved(u) \subseteq Users
      /\ Moved(u) \in [DOMAIN Moved(u) -> Nat]
      /\ \A x \in DOMAIN Moved(u) :
           CanChange(coin[x], Moved(u)[x], 0, 0 - Moved(u)[x])
  BY <1>1, MovedFits
<1>3. PICK m : m = Moved(u)
  OBVIOUS
<1>4. run' = [active |-> TRUE, rate |-> run.rate, award |-> run.award,
              left |-> run.left \ {u}, moved |-> m]
  <2>1. run' = [run EXCEPT !.left = run.left \ {u}, !.moved = m]
    BY <1>3 DEF releaseOne
  <2>2. PICK p, aw, left, mv : run = [active |-> TRUE, rate |-> p, award |-> aw,
                                      left |-> left, moved |-> mv]
    BY <1>1 DEF Inv, RunShape
  <2>. QED BY <2>1, <2>2
<1>5. RunShape'
  BY <1>1, <1>2, <1>3, <1>4 DEF Inv, RunShape
<1>6. MovesFit'
  <2>1. run'.moved = m
    BY <1>4
  <2>2. \A x \in DOMAIN m : CanChange(coin'[x], m[x], 0, 0 - m[x])
    BY <1>1, <1>2, <1>3
  <2>. QED BY <2>1, <2>2 DEF MovesFit
<1>7. TypeOK'
  BY <1>1, <1>4 DEF Inv, TypeOK, RunShape
<1>8. ReleaseConserves' /\ RunIsDue' /\ ServedIsDone'
  BY <1>1 DEF Inv, ReleaseConserves, RunIsDue, ServedIsDone
<1>. QED BY <1>5, <1>6, <1>7, <1>8 DEF Inv

LEMMA FinishInv == ASSUME Inv, finishRelease PROVE Inv'
<1>1. /\ run # NoRun /\ Commit(run.moved) /\ last' = day
      /\ UNCHANGED <<rate, day, spent, budget>>
  BY DEF finishRelease
<1>2. /\ DOMAIN run.moved \subseteq Users /\ run.moved \in [DOMAIN run.moved -> Nat]
      /\ \A x \in DOMAIN run.moved :
           CanChange(coin[x], run.moved[x], 0, 0 - run.moved[x])
  BY <1>1 DEF Inv, RunShape, MovesFit
<1>3. /\ coin' \in [Users -> Balance]
      /\ ReleaseConserves'
      /\ released' \in [Users -> Nat]
      /\ \A u \in Users : released'[u] <= released[u] + 1
      /\ run' = NoRun /\ relaseBool' = TRUE
  BY <1>1, <1>2, CommitKeeps
<1>4. day \in 1 .. MaxDay /\ last < day /\ last \in 0 .. MaxDay
  BY <1>1 DEF Inv, TypeOK, RunIsDue
<1>5. TypeOK'
  BY <1>1, <1>3, <1>4, ReleaseAssumption DEF Inv, TypeOK
<1>6. RunShape' /\ MovesFit' /\ RunIsDue'
  BY <1>1, <1>3, <1>4 DEF RunShape, MovesFit, RunIsDue
<1>7. ServedIsDone'
  <2>. SUFFICES ASSUME budget.faults = MaxFaults, NEW u \in Users
                PROVE  released'[u] <= 1
    BY <1>1 DEF ServedIsDone
  <2>1. released[u] \in Nat /\ (released[u] > 0 => last = day)
    BY DEF Inv, ServedIsDone, TypeOK
  <2>2. released[u] = 0
    BY <1>4, <2>1
  <2>. QED BY <1>3, <2>2
<1>. QED BY <1>3, <1>5, <1>6, <1>7 DEF Inv

LEMMA FailInv == ASSUME Inv, failRelease PROVE Inv'
<1>1. /\ run # NoRun /\ budget.faults > 0
      /\ budget' = [budget EXCEPT !.faults = budget.faults - 1]
      /\ UNCHANGED <<last, rate, day, spent>>
  BY DEF failRelease
<1>2. PICK m : /\ DOMAIN m \subseteq Users /\ m \in [DOMAIN m -> Nat]
               /\ \A x \in DOMAIN m : CanChange(coin[x], m[x], 0, 0 - m[x])
               /\ Commit(m)
  <2>1. CASE Commit(run.moved)
    <3>1. /\ DOMAIN run.moved \subseteq Users
          /\ run.moved \in [DOMAIN run.moved -> Nat]
          /\ \A x \in DOMAIN run.moved :
               CanChange(coin[x], run.moved[x], 0, 0 - run.moved[x])
      BY <1>1 DEF Inv, RunShape, MovesFit
    <3>. QED BY <2>1, <3>1
  <2>2. ASSUME NEW u \in run.left, Commit(Moved(u))
        PROVE  \E m : /\ DOMAIN m \subseteq Users /\ m \in [DOMAIN m -> Nat]
                      /\ \A x \in DOMAIN m : CanChange(coin[x], m[x], 0, 0 - m[x])
                      /\ Commit(m)
    BY <1>1, <2>2, MovedFits
  <2>. QED BY <2>1, <2>2 DEF failRelease
<1>3. /\ coin' \in [Users -> Balance]
      /\ ReleaseConserves'
      /\ released' \in [Users -> Nat]
      /\ run' = NoRun /\ relaseBool' = TRUE
  BY <1>1, <1>2, CommitKeeps
<1>4. /\ budget' \in [mall : 0 .. MaxMall, faults : 0 .. MaxFaults,
                      crashes : 0 .. MaxCrashes]
      /\ budget'.faults # MaxFaults
  BY <1>1, ReleaseAssumption DEF Inv, TypeOK
<1>5. TypeOK'
  BY <1>1, <1>3, <1>4 DEF Inv, TypeOK
<1>6. RunShape' /\ MovesFit' /\ RunIsDue' /\ ServedIsDone'
  BY <1>1, <1>3, <1>4 DEF RunShape, MovesFit, RunIsDue, ServedIsDone, Inv
<1>. QED BY <1>3, <1>5, <1>6 DEF Inv

LEMMA CrashInv == ASSUME Inv, Crash PROVE Inv'
<1>1. /\ budget.crashes > 0 /\ run' = NoRun /\ relaseBool' = TRUE
      /\ budget' = [budget EXCEPT !.crashes = budget.crashes - 1]
      /\ UNCHANGED <<coin, rate, day, last, released, spent>>
  BY DEF Crash
<1>2. /\ budget' \in [mall : 0 .. MaxMall, faults : 0 .. MaxFaults,
                      crashes : 0 .. MaxCrashes]
      /\ budget'.faults = budget.faults
  BY <1>1, ReleaseAssumption DEF Inv, TypeOK
<1>3. TypeOK'
  BY <1>1, <1>2 DEF Inv, TypeOK
<1>4. RunShape' /\ MovesFit' /\ RunIsDue' /\ ServedIsDone' /\ ReleaseConserves'
  BY <1>1, <1>2 DEF RunShape, MovesFit, RunIsDue, ServedIsDone, ReleaseConserves,
                    Inv
<1>. QED BY <1>3, <1>4 DEF Inv

LEMMA MallChangeInv ==
  ASSUME Inv, NEW u \in Users, NEW d \in MallDeltas, MallChange(u, d)
  PROVE  Inv'
<1>1. /\ budget.mall > 0 /\ (run # NoRun => u \notin DOMAIN run.moved)
      /\ CanChange(coin[u], 0, 0, d)
      /\ coin' = [coin EXCEPT ![u] = Change(coin[u], 0, 0, d)]
      /\ spent' = [spent EXCEPT ![u] = spent[u] + d]
      /\ budget' = [budget EXCEPT !.mall = budget.mall - 1]
      /\ UNCHANGED <<rate, day, last, relaseBool, run, released>>
  BY DEF MallChange
<1>2. /\ budget' \in [mall : 0 .. MaxMall, faults : 0 .. MaxFaults,
                      crashes : 0 .. MaxCrashes]
      /\ budget'.faults = budget.faults
  BY <1>1, ReleaseAssumption DEF Inv, TypeOK
<1>3. d \in Int /\ coin[u] \in Balance /\ spent[u] \in Int /\ InitAward[u] \in Nat
      /\ coin[u].available + coin[u].award = InitAward[u] + spent[u]
  BY ReleaseAssumption DEF Inv, TypeOK, ReleaseConserves
<1>4. /\ coin'[u] = Change(coin[u], 0, 0, d) /\ spent'[u] = spent[u] + d
      /\ \A x \in Users : x # u => coin'[x] = coin[x] /\ spent'[x] = spent[x]
      /\ coin' \in [Users -> Balance]
  <2>1. Change(coin[u], 0, 0, d) \in Balance
    BY <1>1, <1>3 DEF Change, CanChange, Balance
  <2>. QED BY <1>1, <2>1 DEF Inv, TypeOK
<1>5. TypeOK'
  BY <1>1, <1>2, <1>3, <1>4 DEF Inv, TypeOK
<1>6. ReleaseConserves'
  <2>1. /\ coin'[u].available >= 0 /\ coin'[u].award >= 0
        /\ coin'[u].available + coin'[u].award = InitAward[u] + spent'[u]
    BY <1>1, <1>3, <1>4 DEF Change, CanChange, Balance
  <2>. QED BY <1>4, <2>1 DEF Inv, ReleaseConserves
<1>7. MovesFit'
  <2>. SUFFICES ASSUME run # NoRun, NEW x \in DOMAIN run.moved
                PROVE  CanChange(coin'[x], run.moved[x], 0, 0 - run.moved[x])
    BY <1>1 DEF MovesFit
  <2>1. x \in Users /\ x # u
    BY <1>1 DEF Inv, RunShape
  <2>2. CanChange(coin[x], run.moved[x], 0, 0 - run.moved[x])
    BY DEF Inv, MovesFit
  <2>. QED BY <1>4, <2>1, <2>2
<1>8. RunShape' /\ RunIsDue' /\ ServedIsDone'
  BY <1>1, <1>2 DEF RunShape, RunIsDue, ServedIsDone, Inv
<1>. QED BY <1>5, <1>6, <1>7, <1>8 DEF Inv

LEMMA ConfigInv ==
  ASSUME Inv, NEW v \in Rates, setConfigValue(v)
  PROVE  Inv'
  BY DEF setConfigValue, Inv, TypeOK, RunShape, MovesFit, RunIsDue, ServedIsDone,
         ReleaseConserves

LEMMA NextDayInv == ASSUME Inv, NextDay PROVE Inv'
<1>1. /\ day < MaxDay /\ day' = day + 1
      /\ released' = [u \in Users |-> 0]
      /\ UNCHANGED <<coin, rate, last, relaseBool, run, spent, budget>>
  BY DEF NextDay
<1>2. /\ day \in 1 .. MaxDay /\ last \in 0 .. MaxDay /\ day' \in 1 .. MaxDay
      /\ last < day'
  BY <1>1, ReleaseAssumption DEF Inv, TypeOK, RunIsDue
<1>3. TypeOK'
  BY <1>1, <1>2 DEF Inv, TypeOK
<1>4. RunIsDue' /\ ServedIsDone'
  BY <1>1, <1>2 DEF RunIsDue, ServedIsDone
<1>5. RunShape' /\ MovesFit' /\ ReleaseConserves'
  BY <1>1 DEF Inv, RunShape, MovesFit, ReleaseConserves
<1>. QED BY <1>3, <1>4, <1>5 DEF Inv

LEMMA NextInv == Inv /\ [Next]_vars => Inv'
<1>. SUFFICES ASSUME Inv, [Next]_vars PROVE Inv'
  OBVIOUS
<1>1. CASE startRelease
  BY <1>1, StartInv
<1>2. CASE finishRelease
  BY <1>2, FinishInv
<1>3. CASE failRelease
  BY <1>3, FailInv
<1>4. CASE Crash
  BY <1>4, CrashInv
<1>5. CASE NextDay
  BY <1>5, NextDayInv
<1>6. CASE \E u \in Users : releaseOne(u)
  BY <1>6, ReleaseOneInv
<1>7. CASE \E u \in Users, d \in MallDeltas : MallChange(u, d)
  BY <1>7, MallChangeInv
<1>8. CASE \E v \in Rates : setConfigValue(v)
  BY <1>8, ConfigInv
<1>9. CASE UNCHANGED vars
  BY <1>9 DEF vars, Inv, TypeOK, RunShape, MovesFit, RunIsDue, ServedIsDone,
              ReleaseConserves
<1>. QED BY <1>1, <1>2, <1>3, <1>4, <1>5, <1>6, <1>7, <1>8, <1>9 DEF Next, Job

-----------------------------------------------------------------------------
(***************************************************************************)
(* The theorems.                                                           *)
(***************************************************************************)

\* The rows, the configuration and the running transaction keep their types:
\* no release and no purchase makes a balance negative.
THEOREM TypeCorrect == Spec => []TypeOK
<1>1. Inv => TypeOK
  BY DEF Inv
<1>. QED BY <1>1, InitInv, NextInv, PTL DEF Spec

\* The conditional update with an amount computed from an earlier read neither
\* creates nor destroys coins: available and award balance always add up to
\* what the user started with plus what the mall added and took, whichever
\* runs fail halfway and commit, and whenever the process dies.
THEOREM ConservesCorrect == Spec => []ReleaseConserves
<1>1. Inv => ReleaseConserves
  BY DEF Inv
<1>. QED BY <1>1, InitInv, NextInv, PTL DEF Spec

\* LAST_RELEASE_TIME and the flag give every user at most one release a day
\* for as long as no run fails inside its loop.
THEOREM OncePerDayCorrect == Spec => []OncePerDayUnlessFailed
<1>1. Inv => OncePerDayUnlessFailed
  BY DEF Inv, ServedIsDone, OncePerDayUnlessFailed
<1>. QED BY <1>1, InitInv, NextInv, PTL DEF Spec
=============================================================================
