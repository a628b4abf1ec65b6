---------------------------- MODULE ReleaseAward ----------------------------
(***************************************************************************)
(* ReleaseTask and ReleaseAwardService: once a day a share of every user's *)
(* award balance is released into the available balance.                   *)
(*                                                                         *)
(* The scheduler calls startRelease at midnight and every half hour.  The  *)
(* config row LAST_RELEASE_TIME says for which day the release is done and *)
(* a static flag keeps a second run out.  A run reads all award balances   *)
(* and then updates row by row in one transaction; an updated row stays    *)
(* locked until the transaction ends, a row not yet reached can still be   *)
(* changed by the mall.  The method catches every exception itself, so a   *)
(* run that fails halfway COMMITS what it has done.                        *)
(*                                                                         *)
(* Scheduled methods share one thread (the comment on LAST_RELEASE_TIME),  *)
(* so two runs never overlap within a process.                             *)
(***************************************************************************)
EXTENDS UserCoin

CONSTANTS
  Users,
  InitAward,     \* InitAward[u]
  Rates,         \* the release rates, in percent, an admin may configure
  MinRelease,    \* config min.release.num: at most this is released whole
  MallDeltas,    \* what a purchase may add to or take from an award balance
  MaxMall,       \* bound: number of purchases
  MaxDay,        \* bound: days
  MaxFaults,     \* bound: exceptions inside the loop of a run
  MaxCrashes     \* bound: deaths of the process

ASSUME ReleaseAssumption ==
  /\ InitAward \in [Users -> Nat] /\ Rates \subseteq 0 .. 100
  /\ MinRelease \in Nat /\ MallDeltas \subseteq Int
  /\ MaxMall \in Nat /\ MaxDay \in Nat \ {0} /\ MaxFaults \in Nat
  /\ MaxCrashes \in Nat

VARIABLES
  coin,        \* coin[u], the committed t_user_coin row of u
  rate,        \* config user.buy.rebate.release.rate
  day,         \* today
  last,        \* config last.release.time, as a day
  relaseBool,  \* ReleaseAwardService.relaseBool
  run,         \* the transaction of a running release
  released,    \* released[u], committed releases to u today
  spent,       \* spent[u], what the mall added to the award of u, net
  budget       \* what is left of the bounds

vars == <<coin, rate, day, last, relaseBool, run, released, spent, budget>>

NoRun == [active |-> FALSE]

TypeOK ==
  /\ coin \in [Users -> Balance]
  /\ rate \in Rates
  /\ day \in 1 .. MaxDay /\ last \in 0 .. MaxDay
  /\ relaseBool \in BOOLEAN
  /\ run = NoRun \/ (run.active /\ run.left \subseteq DOMAIN run.award)
  /\ released \in [Users -> Nat]
  /\ spent \in [Users -> Int]
  /\ budget \in [mall : 0 .. MaxMall, faults : 0 .. MaxFaults,
                 crashes : 0 .. MaxCrashes]

Init ==
  /\ coin = [u \in Users |-> [EmptyRow EXCEPT !.award = InitAward[u]]]
  /\ rate \in Rates
  /\ day = 1
  /\ last = 0
  /\ relaseBool = TRUE
  /\ run = NoRun
  /\ released = [u \in Users |-> 0]
  /\ spent = [u \in Users |-> 0]
  /\ budget = [mall |-> MaxMall, faults |-> MaxFaults, crashes |-> MaxCrashes]

-----------------------------------------------------------------------------
getUserCoinAwardBalanceAll == {u \in Users : coin[u].award > 0}

\* The beginning of releaseAwardBanlance: the flag, the configuration, the
\* list.  The two early returns leave the flag FALSE; the second one marks
\* the day as done.
releaseAwardBanlance ==
  /\ relaseBool' = FALSE
  /\ \/ /\ rate = 0
        /\ UNCHANGED <<last, run>>
     \/ /\ rate # 0
        /\ getUserCoinAwardBalanceAll = {}
        /\ last' = day
        /\ UNCHANGED run
     \/ /\ rate # 0
        /\ getUserCoinAwardBalanceAll # {}
        /\ run' = [active |-> TRUE, rate |-> rate,
                   award |-> [u \in getUserCoinAwardBalanceAll |-> coin[u].award],
                   left |-> getUserCoinAwardBalanceAll,
                   moved |-> [u \in {} |-> 0]]
        /\ UNCHANGED last

\* What the two cron triggers call: the date and the flag decide.
startRelease ==
  /\ day > last
  /\ relaseBool /\ run = NoRun
  /\ releaseAwardBanlance
  /\ UNCHANGED <<coin, rate, day, released, spent, budget>>

\* The amount for a row whose award balance was read as a.
ReleaseNum(a, percent) ==
  IF a > MinRelease THEN (a * percent + 50) \div 100 ELSE a

Extend(f, u, n) == [x \in DOMAIN f \cup {u} |-> IF x = u THEN n ELSE f[x]]

\* The conditional update of a row; its row count is ignored.
Moved(u) ==
  LET n == ReleaseNum(run.award[u], run.rate)
  IN  Extend(run.moved, u, IF CanChange(coin[u], n, 0, 0 - n) THEN n ELSE 0)

\* One turn of the loop: the update, then the bill (a row of a log that is
\* never read back, written whether or not the update changed anything).
releaseOne(u) ==
  /\ run # NoRun
  /\ u \in run.left
  /\ run' = [run EXCEPT !.left = run.left \ {u}, !.moved = Moved(u)]
  /\ UNCHANGED <<coin, rate, day, last, relaseBool, released, spent, budget>>

\* The transaction commits the moves m of the loop so far.
Commit(m) ==
  /\ coin' = [u \in Users |->
                IF u \in DOMAIN m THEN Change(coin[u], m[u], 0, 0 - m[u])
                ELSE coin[u]]
  /\ released' = [u \in Users |->
                    IF u \in DOMAIN m /\ m[u] > 0
                    THEN released[u] + 1 ELSE released[u]]
  /\ run' = NoRun
  /\ relaseBool' = TRUE

\* A run that forgets to write LAST_RELEASE_TIME.
FinishWithoutDate ==
  /\ run # NoRun
  /\ run.left = {}
  /\ Commit(run.moved)
  /\ UNCHANGED <<last, rate, day, spent, budget>>

\* The end of the loop: the day that counts is the day the run ends.
finishRelease ==
  /\ run # NoRun
  /\ run.left = {}
  /\ Commit(run.moved)
  /\ last' = day
  /\ UNCHANGED <<rate, day, spent, budget>>

\* A catch block that forgets the flag.
FailKeepsFlag ==
  /\ run # NoRun
  /\ run.left # {}
  /\ budget.faults > 0
  /\ budget' = [budget EXCEPT !.faults = budget.faults - 1]
  /\ run' = NoRun
  /\ UNCHANGED <<coin, released, relaseBool, last, rate, day, spent>>

\* A statement fails (a lock wait timeout, say), the update of a row or the
\* bill after it; the catch block swallows the exception.
failRelease ==
  /\ run # NoRun
  /\ run.left # {}
  /\ budget.faults > 0
  /\ budget' = [budget EXCEPT !.faults = budget.faults - 1]
  /\ Commit(run.moved) \/ \E u \in run.left : Commit(Moved(u))
  /\ UNCHANGED <<last, rate, day, spent>>

\* The process dies and is started again: open work is rolled back and the
\* static flag has its initial value.
Crash ==
  /\ budget.crashes > 0
  /\ budget' = [budget EXCEPT !.crashes = budget.crashes - 1]
  /\ run' = NoRun
  /\ relaseBool' = TRUE
  /\ UNCHANGED <<coin, rate, day, last, released, spent>>

\* confirmOrder takes the price from, or adds the rebate to, the award
\* balance of u; it waits while the run holds the row.
MallChange(u, d) ==
  /\ budget.mall > 0
  /\ run # NoRun => u \notin DOMAIN run.moved
  /\ CanChange(coin[u], 0, 0, d)
  /\ coin' = [coin EXCEPT ![u] = Change(coin[u], 0, 0, d)]
  /\ spent' = [spent EXCEPT ![u] = spent[u] + d]
  /\ budget' = [budget EXCEPT !.mall = budget.mall - 1]
  /\ UNCHANGED <<rate, day, last, relaseBool, run, released>>

\* An admin edits the rate.
setConfigValue(v) ==
  /\ v # rate
  /\ rate' = v
  /\ UNCHANGED <<coin, day, last, relaseBool, run, released, spent, budget>>

NextDay ==
  /\ day < MaxDay
  /\ day' = day + 1
  /\ released' = [u \in Users |-> 0]
  /\ UNCHANGED <<coin, rate, last, relaseBool, run, spent, budget>>

\* What the scheduler's thread does by itself.
Job == startRelease \/ finishRelease \/ \E u \in Users : releaseOne(u)

Next ==
  \/ Job
  \/ failRelease
  \/ Crash
  \/ \E u \in Users, d \in MallDeltas : MallChange(u, d)
  \/ \E v \in Rates : setConfigValue(v)
  \/ NextDay

\* The cron triggers fire again and again and a started run goes on.
Fairness == WF_vars(Job)

Spec == Init /\ [][Next]_vars /\ Fairness

-----------------------------------------------------------------------------
(***************************************************************************)
(* Properties.                                                             *)
(***************************************************************************)

\* Although the amount is computed from a balance read earlier, a release
\* neither creates nor destroys coins and never takes more award than there
\* is: the two balances always add up to the start plus the mall's changes.
ReleaseConserves ==
  \A u \in Users :
    /\ coin[u].available >= 0 /\ coin[u].award >= 0
    /\ coin[u].available + coin[u].award = InitAward[u] + spent[u]

\* The comment on LAST_RELEASE_TIME, "marks whether today was released":
\* nobody gets two releases in a day, whatever crashes, retries and
\* midnights passing during a run, as long as no run has failed inside its
\* loop.  (A run that fails commits what it has released, and not the date.)
OncePerDayUnlessFailed ==
  budget.faults = MaxFaults => \A u \in Users : released[u] <= 1

\* There is something to release at a rate other than zero.
Releasable == rate # 0 /\ getUserCoinAwardBalanceAll # {}

\* The comment in ReleaseTask, "every half hour, in case the release at
\* midnight was not executed": a day on which awards are due is made up for.
DueIsReleased == (day > last /\ Releasable) ~> (day = last \/ ~Releasable)

\* That holds, after failed runs and crashes too, as long as no run finds
\* nothing to release.
DueIsReleasedIfAlwaysSome == []Releasable => DueIsReleased
=============================================================================
