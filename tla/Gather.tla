------------------------------- MODULE Gather -------------------------------
(***************************************************************************)
(* The nightly gathering of deposits: GatherEthTask, GatherTokenTask and   *)
(* GatherUsdtTask.  Each walks the records of its coin in t_received_coin  *)
(* in the order of their ids, from a cursor it keeps in the configuration, *)
(* and moves what an address holds to the platform's own address if it is  *)
(* worth it.  Tokens and USDT need fuel for the transfer (ETH, BTC), which *)
(* the task sends to the address first.                                    *)
(*                                                                         *)
(* The three tasks have their own records, cursors and threads; a          *)
(* behaviour is about one of them, chosen at the start.  A task has one    *)
(* thread: the timer starts none while the last one is alive.              *)
(*                                                                         *)
(* A transfer whose call returns is on chain before the address is read    *)
(* again (the thread sleeps after it, and passes the address for the rest  *)
(* of the walk), or never.  A call may also fail although the node took    *)
(* the transfer: ETH and USDT then end the run until the next night, but   *)
(* the token task goes on at once, and reads balances that do not show the *)
(* transfer yet (flying, leaving).  The fee of an ETH transfer, which what *)
(* remains at the address pays, is left out, and a transfer uses up the    *)
(* fuel of an address.                                                     *)
(***************************************************************************)
EXTENDS Integers, Sequences, FiniteSets, Functions

CONSTANTS
  Addresses,   \* addresses of users, all in the table of addresses
  Amounts,     \* what a payment may bring
  GatherMin,   \* gatherMinBalance
  Remain,      \* gatherRemainBalance of ETH
  MaxRecords,  \* bound: payments
  MaxGatherFaults  \* bound: calls to the node that fail, and deaths of the process

\* GatherEthTask does nothing unless the minimum is above what remains, and
\* GatherTokenTask unless it is positive.
ASSUME GatherAssumption ==
  /\ IsFiniteSet(Addresses) /\ Amounts \subseteq Nat \ {0}
  /\ Remain \in Nat /\ GatherMin \in Nat /\ GatherMin > Remain
  /\ MaxRecords \in Nat /\ MaxGatherFaults \in Nat

Tasks == {"ETH", "TOKEN", "USDT"}

VARIABLES
  task,       \* the task this behaviour is about
  held,       \* held[a], what address a holds on chain
  fuel,       \* fuel[a], the pieces of fuel address a holds on chain
  flying,     \* flying[a], those sent to a by failed calls, not on chain yet
  leaving,    \* leaving[a], tokens sent from a by a failed call, not on chain yet
  unrecorded, \* unrecorded[a], payments to a the scanner has not recorded yet
  records,    \* t_received_coin: the addresses of the coin's records, by id
  lastRecvId, \* the cursor, configuration value gather.last.recv.id of the coin
  thread,     \* the thread of the task
  missed,     \* addresses where something went wrong since they were last read
  stray,      \* fuel the task could not know of, or that served no transfer
  faults

gatherVars == <<task, held, fuel, flying, leaving, unrecorded, records, lastRecvId,
                thread, missed, stray, faults>>

\* What most steps leave alone.
world == <<task, flying, leaving, unrecorded, records>>

AtRest == [at |-> "rest"]
\* The walks, after the record with the given id, and the stops within a record
\* of the second walk.
Fuelling(id, s) == [at |-> "fuelling", lastId |-> id, sent |-> s]
Gathering(id, s) == [at |-> "gathering", lastId |-> id, sent |-> s]
Moving(at, id, s, n) == [at |-> at, lastId |-> id, sent |-> s, amount |-> n]

Kept == IF task = "ETH" THEN Remain ELSE 0

GatherTypeOK ==
  /\ task \in Tasks
  /\ held \in [Addresses -> Nat]
  /\ fuel \in [Addresses -> Nat]
  /\ flying \in [Addresses -> Nat]
  /\ leaving \in [Addresses -> Nat]
  /\ \A a \in Addresses : leaving[a] > 0 => leaving[a] <= held[a] /\ fuel[a] > 0
  /\ unrecorded \in [Addresses -> 0 .. MaxRecords]
  /\ records \in Seq(Addresses) /\ Len(records) <= MaxRecords
  /\ lastRecvId \in 0 .. Len(records)
  /\ \/ thread = AtRest
     \/ /\ thread.at \in {"fuelling", "gathering", "fuel", "send", "save"}
        /\ thread.lastId \in lastRecvId .. Len(records)
        /\ thread.sent \subseteq Addresses
        /\ thread.at \in {"fuel", "send"} => thread.amount \in Nat
  /\ missed \subseteq Addresses
  /\ stray \in 0 .. MaxGatherFaults
  /\ faults \in 0 .. MaxGatherFaults

GatherInit ==
  /\ task \in Tasks
  /\ held = [a \in Addresses |-> 0]
  /\ fuel = [a \in Addresses |-> 0]
  /\ flying = [a \in Addresses |-> 0]
  /\ leaving = [a \in Addresses |-> 0]
  /\ unrecorded = [a \in Addresses |-> 0]
  /\ records = << >>
  /\ lastRecvId = 0
  /\ thread = AtRest
  /\ missed = {}
  /\ stray = 0
  /\ faults = 0

Fail == faults < MaxGatherFaults /\ faults' = faults + 1

-----------------------------------------------------------------------------
(***************************************************************************)
(* The chain and the scanner.                                              *)
(***************************************************************************)

\* The addresses this thread has read for the last time.
Finished ==
  CASE thread.at = "gathering" -> thread.sent
    [] thread.at \in {"fuel", "send", "save"} ->
         thread.sent \cup {records[thread.lastId]}
    [] OTHER -> {}

\* A payment.  What comes after the thread read the address is not moved, and
\* its record will be passed over.
Pay(a, n) ==
  /\ Len(records) + SumFunctionOnSet(unrecorded, Addresses) < MaxRecords
  /\ held' = [held EXCEPT ![a] = held[a] + n]
  /\ unrecorded' = [unrecorded EXCEPT ![a] = unrecorded[a] + 1]
  /\ missed' = IF a \in Finished THEN missed \cup {a} ELSE missed
  /\ UNCHANGED <<task, fuel, flying, leaving, records, lastRecvId, thread, stray,
                 faults>>

\* The scanner records it (BlockSync).
Record(a) ==
  /\ unrecorded[a] > 0
  /\ unrecorded' = [unrecorded EXCEPT ![a] = unrecorded[a] - 1]
  /\ records' = Append(records, a)
  /\ UNCHANGED <<task, held, fuel, flying, leaving, lastRecvId, thread, missed,
                 stray, faults>>

\* What was sent by a call that failed gets on chain, if it does.
FuelArrives(a) ==
  /\ flying[a] > 0
  /\ flying' = [flying EXCEPT ![a] = flying[a] - 1]
  /\ fuel' = [fuel EXCEPT ![a] = fuel[a] + 1]
  /\ UNCHANGED <<task, held, leaving, unrecorded, records, lastRecvId, thread,
                 missed, stray, faults>>

TokensLeave(a) ==
  /\ leaving[a] > 0
  /\ held' = [held EXCEPT ![a] = held[a] - leaving[a]]
  /\ fuel' = [fuel EXCEPT ![a] = fuel[a] - 1]
  /\ leaving' = [leaving EXCEPT ![a] = 0]
  /\ UNCHANGED <<task, flying, unrecorded, records, lastRecvId, thread, missed,
                 stray, faults>>

-----------------------------------------------------------------------------
(***************************************************************************)
(* The thread.                                                             *)
(***************************************************************************)

\* gatherEthTimer, gatherTokenTimer, gatherUsdtTimer, and the start of the
\* walk.  Only tokens have a first walk that sends fuel.
Timer ==
  /\ thread = AtRest
  /\ thread' = IF task = "TOKEN" THEN Fuelling(lastRecvId, {})
               ELSE Gathering(lastRecvId, {})
  /\ UNCHANGED <<world, held, fuel, lastRecvId, missed, stray, faults>>

\* getNextReceiveFromExternal.
HasNext == thread.lastId < Len(records)
NextAddress == records[thread.lastId + 1]

\* The first walk of gatherOneToken: a record whose address was given fuel in
\* this walk, holds too little or has fuel is left alone.
passFuel ==
  /\ thread.at = "fuelling" /\ HasNext
  /\ \/ NextAddress \in thread.sent
     \/ held[NextAddress] < GatherMin
     \/ fuel[NextAddress] > 0
  /\ thread' = Fuelling(thread.lastId + 1, thread.sent)
  /\ UNCHANGED <<world, held, fuel, lastRecvId, missed, stray, faults>>

\* Fuel is sent without a look at what is there.
SendFuelAlways ==
  /\ thread.at = "fuelling" /\ HasNext
  /\ NextAddress \notin thread.sent /\ held[NextAddress] >= GatherMin
  /\ fuel' = [fuel EXCEPT ![NextAddress] = fuel[NextAddress] + 1]
  /\ thread' = Fuelling(thread.lastId + 1, thread.sent \cup {NextAddress})
  /\ UNCHANGED <<world, held, lastRecvId, missed, stray, faults>>

\* Fuel is sent to an address without: or to one whose fuel cannot be read,
\* which checkAndGetBalance reports as none.
sendFuel ==
  /\ thread.at = "fuelling" /\ HasNext
  /\ NextAddress \notin thread.sent /\ held[NextAddress] >= GatherMin
  /\ \/ fuel[NextAddress] = 0 /\ UNCHANGED <<stray, faults>>
     \/ fuel[NextAddress] > 0 /\ Fail /\ stray' = stray + 1
  /\ fuel' = [fuel EXCEPT ![NextAddress] = fuel[NextAddress] + 1]
  /\ thread' = Fuelling(thread.lastId + 1, thread.sent \cup {NextAddress})
  /\ UNCHANGED <<world, held, lastRecvId, missed>>

\* The token balance cannot be read or the fuel is refused; it is accepted and
\* never arrives; it is sent and the call fails.  In the first and the last case
\* the next record, which may be of the same address, is read at once.  (Fuel
\* that is there may not have been readable either.)
failFuel ==
  /\ thread.at = "fuelling" /\ HasNext
  /\ NextAddress \notin thread.sent /\ held[NextAddress] >= GatherMin
  /\ Fail
  /\ \/ /\ thread' = Fuelling(thread.lastId + 1, thread.sent)
        /\ UNCHANGED <<flying, stray>>
     \/ /\ thread' = Fuelling(thread.lastId + 1, thread.sent \cup {NextAddress})
        /\ UNCHANGED <<flying, stray>>
     \/ /\ thread' = Fuelling(thread.lastId + 1, thread.sent)
        /\ flying' = [flying EXCEPT ![NextAddress] = flying[NextAddress] + 1]
        /\ stray' = stray + 1
  /\ UNCHANGED <<task, held, fuel, leaving, unrecorded, records, lastRecvId,
                 missed>>

\* The second walk goes on where the first one stopped.
EndFuelNoReset ==
  /\ thread.at = "fuelling" /\ ~HasNext
  /\ thread' = Gathering(thread.lastId, {})
  /\ UNCHANGED <<world, held, fuel, lastRecvId, missed, stray, faults>>

\* The second walk keeps the addresses of the first.
EndFuelNoClear ==
  /\ thread.at = "fuelling" /\ ~HasNext
  /\ thread' = Gathering(lastRecvId, thread.sent)
  /\ UNCHANGED <<world, held, fuel, lastRecvId, missed, stray, faults>>

\* The second walk starts where the first did: lastId = beginLastId, and
\* sendAddress is cleared.
endFuel ==
  /\ thread.at = "fuelling" /\ ~HasNext
  /\ thread' = Gathering(lastRecvId, {})
  /\ UNCHANGED <<world, held, fuel, lastRecvId, missed, stray, faults>>

\* A record of an address that was gathered in this walk: the cursor passes it.
passSent ==
  /\ thread.at = "gathering" /\ HasNext
  /\ NextAddress \in thread.sent
  /\ lastRecvId' = thread.lastId + 1
  /\ thread' = Gathering(thread.lastId + 1, thread.sent)
  /\ UNCHANGED <<world, held, fuel, missed, stray, faults>>

\* checkAndGetBalance returns zero: the address holds too little, or cannot be
\* read.  The cursor passes the record, except for USDT, where it may be passed
\* together with a later one.
passLow ==
  /\ thread.at = "gathering" /\ HasNext
  /\ NextAddress \notin thread.sent
  /\ \/ /\ held[NextAddress] < GatherMin
        /\ missed' = missed \ {NextAddress}
        /\ UNCHANGED faults
     \/ /\ held[NextAddress] >= GatherMin
        /\ Fail
        /\ missed' = missed \cup {NextAddress}
  /\ lastRecvId' = IF task = "USDT" THEN lastRecvId ELSE thread.lastId + 1
  /\ thread' = Gathering(thread.lastId + 1, thread.sent)
  /\ UNCHANGED <<world, held, fuel, stray>>

\* checkAndGetBalance returns what the address holds.
checkBalance ==
  /\ thread.at = "gathering" /\ HasNext
  /\ NextAddress \notin thread.sent /\ held[NextAddress] >= GatherMin
  /\ thread' = Moving(IF task = "USDT" THEN "fuel" ELSE "send",
                   thread.lastId + 1, thread.sent, held[NextAddress])
  /\ missed' = missed \ {NextAddress}
  /\ UNCHANGED <<world, held, fuel, lastRecvId, stray, faults>>

Current == records[thread.lastId]
To(at) == Moving(at, thread.lastId, thread.sent, thread.amount)

\* GatherUsdtTask sends fuel to every address, whatever it has.  It is refused
\* or sent with a failing call, which ends the run, or never arrives.
sendBtc ==
  /\ thread.at = "fuel"
  /\ \/ /\ fuel' = [fuel EXCEPT ![Current] = fuel[Current] + 1]
        /\ thread' = To("send")
        /\ UNCHANGED <<stray, faults>>
     \/ /\ Fail
        /\ thread' = AtRest
        /\ UNCHANGED <<fuel, stray>>
     \/ /\ Fail
        /\ fuel' = [fuel EXCEPT ![Current] = fuel[Current] + 1]
        /\ thread' = AtRest
        /\ stray' = stray + 1
     \/ /\ Fail
        /\ thread' = To("send")
        /\ UNCHANGED <<fuel, stray>>
  /\ UNCHANGED <<world, held, lastRecvId, missed>>

Fuelled == task = "ETH" \/ fuel[Current] > 0
UseFuel == fuel' = IF task = "ETH" THEN fuel
                   ELSE [fuel EXCEPT ![Current] = fuel[Current] - 1]
Move ==
  /\ held' = [held EXCEPT ![Current] = held[Current] - (thread.amount - Kept)]
  /\ UseFuel
Unused == stray' = IF task = "USDT" THEN stray + 1 ELSE stray
Sent == Moving("save", thread.lastId, thread.sent \cup {Current}, thread.amount)

\* The address still has what was read there: it has not gone, nor is it going,
\* with a token transfer whose call failed.
Covered == leaving[Current] = 0 /\ thread.amount <= held[Current]

\* EthService.sendToAddress, checkAndSendTokenBalance, omni_send: the balance
\* that was read, less what remains, leaves the address.
send ==
  /\ thread.at = "send" /\ Fuelled /\ Covered
  /\ Move
  /\ thread' = Sent
  /\ UNCHANGED <<world, lastRecvId, missed, stray, faults>>

\* A token transfer of a balance that is gone has a hash, and fails on chain: it
\* may cost fuel all the same, but not the fuel of the one before it.
sendInVain ==
  /\ thread.at = "send" /\ Fuelled /\ ~Covered
  /\ \/ UNCHANGED fuel
     \/ (leaving[Current] = 0 \/ fuel[Current] > 1) /\ UseFuel
  /\ thread' = Sent
  /\ missed' = missed \cup {Current}
  /\ UNCHANGED <<world, held, lastRecvId, stray, faults>>

\* A failure ends the walk, or for tokens goes on to the next record.
AfterFailure ==
  IF task = "TOKEN" THEN Gathering(thread.lastId, thread.sent) ELSE AtRest

\* The transfer is refused, without fuel always.
sendRefused ==
  /\ thread.at = "send"
  /\ \/ ~Fuelled /\ UNCHANGED <<stray, faults>>
     \/ Fuelled /\ Fail /\ Unused
  /\ thread' = AfterFailure
  /\ missed' = IF task = "TOKEN" THEN missed \cup {Current} ELSE missed
  /\ UNCHANGED <<world, held, fuel, lastRecvId>>

\* The transfer is made, and the call fails.  The token task goes on before the
\* transfer is on chain.
sendUnanswered ==
  /\ thread.at = "send" /\ Fuelled /\ Covered
  /\ Fail
  /\ \/ task # "TOKEN" /\ Move /\ UNCHANGED leaving
     \/ /\ task = "TOKEN"
        /\ leaving' = [leaving EXCEPT ![Current] = thread.amount]
        /\ UNCHANGED <<held, fuel>>
  /\ thread' = AfterFailure
  /\ UNCHANGED <<task, flying, unrecorded, records, lastRecvId, missed, stray>>

\* The transfer has a hash, and is never mined.
sendDropped ==
  /\ thread.at = "send" /\ Fuelled
  /\ Fail /\ Unused
  /\ thread' = Sent
  /\ missed' = missed \cup {Current}
  /\ UNCHANGED <<world, held, fuel, lastRecvId>>

\* The cursor is written as the id after the record.
SaveNext ==
  /\ thread.at = "save"
  /\ lastRecvId' = thread.lastId + 1
  /\ thread' = Gathering(thread.lastId, thread.sent)
  /\ UNCHANGED <<world, held, fuel, missed, stray, faults>>

\* After the transfer the cursor is written.
save ==
  /\ thread.at = "save"
  /\ lastRecvId' = thread.lastId
  /\ thread' = Gathering(thread.lastId, thread.sent)
  /\ UNCHANGED <<world, held, fuel, missed, stray, faults>>

endGather ==
  /\ thread.at = "gathering" /\ ~HasNext
  /\ thread' = AtRest
  /\ UNCHANGED <<world, held, fuel, lastRecvId, missed, stray, faults>>

\* The process dies; only the cursor is left of the run.
GatherCrash ==
  /\ thread # AtRest
  /\ Fail
  /\ thread' = AtRest
  /\ stray' = IF task = "USDT" /\ thread.at = "send" THEN stray + 1 ELSE stray
  /\ UNCHANGED <<world, held, fuel, lastRecvId, missed>>

Walk ==
  \/ passFuel \/ sendFuel \/ failFuel \/ endFuel
  \/ passSent \/ passLow \/ checkBalance \/ sendBtc
  \/ send \/ sendInVain \/ sendRefused \/ sendUnanswered \/ sendDropped
  \/ save \/ endGather

GatherNext ==
  \/ Timer
  \/ Walk
  \/ \E a \in Addresses :
       Record(a) \/ FuelArrives(a) \/ TokensLeave(a) \/ \E n \in Amounts : Pay(a, n)
  \/ GatherCrash

GatherSpec == GatherInit /\ [][GatherNext]_gatherVars

\* The timer fires every night, a thread goes on until its walk is over, and the
\* scanner gets to every payment.  What a failed call sent may never get on chain.
GatherFairSpec ==
  /\ GatherSpec
  /\ WF_gatherVars(Timer)
  /\ WF_gatherVars(Walk)
  /\ \A a \in Addresses : WF_gatherVars(Record(a))

-----------------------------------------------------------------------------
(***************************************************************************)
(* Properties.                                                             *)
(***************************************************************************)

\* What address a holds and no transfer is on its way with.
Waiting(a) == held[a] - leaving[a]

\* The cursor passes no address that is worth gathering: whoever dies, and
\* whatever transfer is refused or unanswered, an address with enough on it has
\* a record that will still be read.  The exceptions are an address that could
\* not be read, a token transfer that was refused, a transfer that was accepted
\* and never mined or failed on chain, because one before it was still on its
\* way, and a payment that came after the address was read by a thread that
\* gathers it: they wait for the next payment to the address.
NothingOverlooked ==
  \A a \in Addresses :
    Waiting(a) >= GatherMin /\ unrecorded[a] = 0 /\ a \notin missed
      => \E i \in lastRecvId + 1 .. Len(records) : records[i] = a

\* Fuel is not piled up on an address, on chain or on its way: however many of
\* its records are walked, and however late fuel gets on chain, there is one
\* piece more only for each that was sent with a failing call, was there and
\* could not be read, or, for USDT, did not serve its transfer.
FuelIsNotPiledUp ==
  \A a \in Addresses : fuel[a] + flying[a] <= 1 + stray

\* What is worth gathering is on its way in the end, some night, or is one of the
\* exceptions.
GatheredInTheEnd ==
  \A a \in Addresses :
    (Waiting(a) >= GatherMin) ~> (Waiting(a) < GatherMin \/ a \in missed)
=============================================================================
