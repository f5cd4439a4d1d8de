--------------------------- MODULE BettingService ---------------------------
(***************************************************************************)
(* The Game Service of one process, on top of RoundClock (what GMS         *)
(* promises): GSUseCase.PlaceBet as the sequence of remote and local calls *)
(* it is, GSUseCase.SettleRound with processBatch, the in-memory bet       *)
(* repository, the bet_orders table and the wallet.                        *)
(*                                                                         *)
(* A request stands for one PlaceBet call; the bet it may create has the   *)
(* request as its BetID. The repository's slices are sets: no property     *)
(* tells their order apart, and what depends on it (which of two bets on   *)
(* the same area GetUserBet finds, how a popped slice is cut into batches) *)
(* is left open.                                                           *)
(*                                                                         *)
(* Definitions whose name starts with Bug are faulty variants of the       *)
(* definition that follows them; no specification uses them.               *)
(***************************************************************************)
EXTENDS RoundClock, Integers, FiniteSets, Functions

CONSTANTS Users,           \* players
          Amounts,         \* stakes a player may send
          Requests,        \* PlaceBet calls
          NoBet,           \* GetUserBet found nothing
          NoEntry,         \* the wallet holds no balance for the user
          DefaultBalance,  \* what DeductBalance starts from (1000000)
          BatchSize,       \* orders written per batch (500)
          Faults           \* which external faults may happen

FaultKinds == {"debit",    \* the wallet refuses or misses the deduction
               "order",    \* BatchCreate fails
               "credit"}   \* AddBalance fails

ASSUME BSAmounts == Amounts \subseteq Int /\ DefaultBalance \in Int
ASSUME BSNames == NoBet \notin Requests /\ NoEntry \notin Int
ASSUME BSRequests == IsFiniteSet(Requests)
ASSUME BSBatch == BatchSize \in Nat \ {0}
ASSUME BSFaults == Faults \subseteq FaultKinds

VARIABLES
    user, color, amount,  \* the arguments of each PlaceBet call
    pc, rid, found,       \* where it is, its round ID, the bet it found
    stake,     \* stake[b]: Amount of bet b
    bets,      \* bets[r]: the repository's bets of round r
    queue,     \* queue[r]: the repository's settlementQueue of round r
    spc,       \* spc[r]: where the SettleRound call of round r is
    popped,    \* popped[r]: bets it has popped and not yet put into a batch
    batch,     \* batch[r]: bets of its current batch still to be processed
    cur,       \* cur[r]: the bet whose player it is about to notify
    order,     \* order[b]: the BetOrder made for bet b
    wallet,    \* balances
    credits,   \* credits[b]: amounts AddBalance deposited for bet b
    notices,   \* notices[b]: win amounts sent to the player for bet b
    late,      \* history: requests whose stake missed the order of their bet
    torn       \* history: bets whose stake changed while their order was made

args        == <<user, color, amount>>
requestVars == <<args, pc, rid, found, late, torn>>
repoVars    == <<stake, bets, queue>>
settleVars  == <<spc, popped, batch, cur, order, credits, notices>>
vars == <<clockVars, requestVars, repoVars, settleVars, wallet>>

BetColors == Colors \cup {NoColor}   \* what the gateway can parse

\* "failed": returned an error before the deduction; "forfeit": after it.
RequestPcs == {"idle", "asked", "debited", "recorded", "looked", "ok", "failed", "forfeit"}

SettlePcs == {"idle", "pop", "batch", "order", "persist", "pay", "notify", "clear", "done", "failed"}

Order == [st : {"none", "priced", "draft", "stored"}, amount : Int, payout : Int]

NoOrder == [st |-> "none", amount |-> 0, payout |-> 0]

Init ==
    /\ ClockInit
    /\ user \in [Requests -> Users]
    /\ color \in [Requests -> BetColors]
    /\ amount \in [Requests -> Amounts]
    /\ pc = [q \in Requests |-> "idle"]
    /\ rid = [q \in Requests |-> 0]
    /\ found = [q \in Requests |-> NoBet]
    /\ stake = [b \in Requests |-> 0]
    /\ bets = [r \in Rounds |-> {}]
    /\ queue = [r \in Rounds |-> {}]
    /\ spc = [r \in Rounds |-> "idle"]
    /\ popped = [r \in Rounds |-> {}]
    /\ batch = [r \in Rounds |-> {}]
    /\ cur = [r \in Rounds |-> NoBet]
    /\ order = [b \in Requests |-> NoOrder]
    /\ wallet = [u \in Users |-> NoEntry]
    /\ credits = [b \in Requests |-> <<>>]
    /\ notices = [b \in Requests |-> <<>>]
    /\ late = {} /\ torn = {}

----------------------------------------------------------------------------
\* PlaceBet.

To(q, next) == pc' = [pc EXCEPT ![q] = next]

BugAskRound(q) ==
    /\ pc[q] = "idle"
    /\ To(q, "asked") /\ rid' = [rid EXCEPT ![q] = id + 1]
    /\ UNCHANGED <<clockVars, args, found, late, torn, repoVars, settleVars, wallet>>

\* Steps 1 and 2: GetCurrentRound, then isValidColor.
AskRound(q) ==
    /\ pc[q] = "idle"
    /\ IF id = 0 \/ color[q] \notin Colors
       THEN To(q, "failed") /\ UNCHANGED rid
       ELSE To(q, "asked") /\ rid' = [rid EXCEPT ![q] = id]
    /\ UNCHANGED <<clockVars, args, found, late, torn, repoVars, settleVars, wallet>>

BugDebit(q) ==
    /\ pc[q] = "asked"
    /\ To(q, "debited")
    /\ wallet' = [wallet EXCEPT ![user[q]] = DefaultBalance - amount[q]]
    /\ UNCHANGED <<clockVars, args, rid, found, late, torn, repoVars, settleVars>>

\* Step 3: the wallet deducts the stake; a user it does not know starts from the
\* default balance, and no balance is too small.
Debit(q) ==
    /\ pc[q] = "asked"
    /\ \/ "debit" \in Faults /\ To(q, "failed") /\ UNCHANGED wallet
       \/ /\ To(q, "debited")
          /\ wallet' = [wallet EXCEPT ![user[q]] =
                           (IF @ = NoEntry THEN DefaultBalance ELSE @) - amount[q]]
    /\ UNCHANGED <<clockVars, args, rid, found, late, torn, repoVars, settleVars>>

\* Step 4: RecordBet at GMS, which accepts while the round takes bets. On a
\* refusal PlaceBet returns; the deduction is not rolled back.
RecordBet(q) ==
    /\ pc[q] = "debited"
    /\ To(q, IF Accepting(rid[q]) THEN "recorded" ELSE "forfeit")
    /\ UNCHANGED <<clockVars, args, rid, found, late, torn, repoVars, settleVars, wallet>>

SameArea(q, b) == user[b] = user[q] /\ color[b] = color[q]

\* Step 5: GetUserBet.
GetUserBet(q) ==
    /\ pc[q] = "recorded"
    /\ To(q, "looked")
    /\ LET match == {b \in bets[rid[q]] : SameArea(q, b)}
       IN  \E f \in (IF match = {} THEN {NoBet} ELSE match) :
               found' = [found EXCEPT ![q] = f]
    /\ UNCHANGED <<clockVars, args, rid, late, torn, repoVars, settleVars, wallet>>

\* A stake added to bet b now misses b's order ...
TooLateFor(b) == order[b].st \in {"draft", "stored"} \/ b \in late

\* ... or is in its amount and not in its payout: SettleRound reads the bet twice,
\* without the repository's lock.
Tears(b) == order[b].st = "priced"

\* The bet exists: its amount grows in place, wherever the bet object is by now.
UpdateBetAmount(q) ==
    /\ pc[q] = "looked" /\ found[q] # NoBet
    /\ stake' = [stake EXCEPT ![found[q]] = @ + amount[q]]
    /\ late' = IF TooLateFor(found[q]) THEN late \cup {q} ELSE late
    /\ torn' = IF Tears(found[q]) THEN torn \cup {found[q]} ELSE torn
    /\ To(q, "ok")
    /\ UNCHANGED <<clockVars, args, rid, found, bets, queue, settleVars, wallet>>

\* It does not: a new bet, in the history and in the settlement queue.
SaveBet(q) ==
    /\ pc[q] = "looked" /\ found[q] = NoBet
    /\ stake' = [stake EXCEPT ![q] = amount[q]]
    /\ bets' = [bets EXCEPT ![rid[q]] = @ \cup {q}]
    /\ queue' = [queue EXCEPT ![rid[q]] = @ \cup {q}]
    /\ late' = IF spc[rid[q]] \in {"clear", "done", "failed"} THEN late \cup {q} ELSE late
    /\ To(q, "ok")
    /\ UNCHANGED <<clockVars, args, rid, found, torn, settleVars, wallet>>

----------------------------------------------------------------------------
\* SettleRound(r), in the goroutine that RoundResult starts.

SettleTo(r, next) == spc' = [spc EXCEPT ![r] = next]

\* GMS pushes the result of round r. RoundClock: once, and not before RESULT.
RoundResult(r) ==
    /\ TellGS(r)
    /\ SettleTo(r, "pop")
    /\ UNCHANGED <<requestVars, repoVars, popped, batch, cur, order, credits, notices, wallet>>

WinningColor(r) == told[r][1]

BugGetBetsForSettlement(r) ==
    /\ spc[r] = "pop"
    /\ IF queue[r] = {}
       THEN SettleTo(r, "clear") /\ UNCHANGED popped
       ELSE SettleTo(r, "batch") /\ popped' = [popped EXCEPT ![r] = queue[r]]
    /\ UNCHANGED <<clockVars, requestVars, repoVars, batch, cur, order, credits, notices, wallet>>

\* GetBetsForSettlement pops the whole queue; the loop ends when it is empty.
GetBetsForSettlement(r) ==
    /\ spc[r] = "pop"
    /\ IF queue[r] = {}
       THEN SettleTo(r, "clear") /\ UNCHANGED <<popped, queue>>
       ELSE /\ SettleTo(r, "batch")
            /\ popped' = [popped EXCEPT ![r] = queue[r]]
            /\ queue' = [queue EXCEPT ![r] = {}]
    /\ UNCHANGED <<clockVars, requestVars, stake, bets, batch, cur, order, credits, notices, wallet>>

BugCalculateWin(b, r) == 2 * stake[b]

CalculateWin(b, r) == IF color[b] = WinningColor(r) THEN 2 * stake[b] ELSE 0

\* The next batch is filled: BatchSize of the popped bets, or all that are left.
\* (Every order depends on its own bet only, so making the orders of a batch
\* together loses no interleaving.) First the payout of each order is computed ...
FillBatch(r) ==
    /\ spc[r] = "batch"
    /\ SettleTo(r, "order")
    /\ \E B \in SUBSET popped[r] :
          /\ Cardinality(B) = BatchSize \/ (B = popped[r] /\ Cardinality(B) < BatchSize)
          /\ batch' = [batch EXCEPT ![r] = B]
          /\ popped' = [popped EXCEPT ![r] = @ \ B]
          /\ order' = [b \in Requests |->
                          IF b \in B
                          THEN [st |-> "priced", amount |-> 0, payout |-> CalculateWin(b, r)]
                          ELSE order[b]]
    /\ UNCHANGED <<clockVars, requestVars, repoVars, cur, credits, notices, wallet>>

\* ... then the order is made, with the amount of the bet as it is by then.
MakeOrders(r) ==
    /\ spc[r] = "order"
    /\ SettleTo(r, "persist")
    /\ order' = [b \in Requests |->
                    IF b \in batch[r]
                    THEN [st |-> "draft", amount |-> stake[b], payout |-> order[b].payout]
                    ELSE order[b]]
    /\ UNCHANGED <<clockVars, requestVars, repoVars, popped, batch, cur, credits, notices, wallet>>

\* The bet_orders table after the orders of the bets in B have been inserted.
Stored(B) ==
    [b \in Requests |-> IF b \in B
                        THEN [st |-> "stored", amount |-> order[b].amount,
                              payout |-> order[b].payout]
                        ELSE order[b]]

BugBatchCreate(r) ==
    /\ spc[r] = "persist"
    /\ SettleTo(r, "pay")
    /\ order' = Stored(batch[r]) \/ ("order" \in Faults /\ UNCHANGED order)
    /\ UNCHANGED <<clockVars, requestVars, repoVars, popped, batch, cur, credits, notices, wallet>>

\* processBatch 1: all orders of the batch are written, or SettleRound returns.
BatchCreate(r) ==
    /\ spc[r] = "persist"
    /\ \/ "order" \in Faults /\ SettleTo(r, "failed") /\ UNCHANGED order
       \/ SettleTo(r, "pay") /\ order' = Stored(batch[r])
    /\ UNCHANGED <<clockVars, requestVars, repoVars, popped, batch, cur, credits, notices, wallet>>

BugNextPc(r, left) ==
    IF left # {} THEN "pay" ELSE IF popped[r] # {} THEN "batch" ELSE "clear"

BugNextPcPay(r, left) ==
    IF left # {} \/ popped[r] = {} THEN "pay" ELSE "batch"

\* Where the settlement goes on when `left` is what remains of the batch.
NextPc(r, left) ==
    IF left # {} THEN "pay" ELSE IF popped[r] # {} THEN "batch" ELSE "pop"

\* AddBalance deposits the payout of bet b; a user the wallet does not know
\* starts from nothing.
Deposit(b) ==
    /\ wallet' = [wallet EXCEPT ![user[b]] = (IF @ = NoEntry THEN 0 ELSE @) + order[b].payout]
    /\ credits' = [credits EXCEPT ![b] = Append(@, order[b].payout)]

BugAddBalance(r, b) ==
    /\ spc[r] = "pay" /\ b \in batch[r]
    /\ batch' = [batch EXCEPT ![r] = @ \ {b}]
    /\ SettleTo(r, "notify") /\ cur' = [cur EXCEPT ![r] = b]
    /\ \/ order[b].payout > 0 /\ Deposit(b)
       \/ (order[b].payout <= 0 \/ "credit" \in Faults) /\ UNCHANGED <<wallet, credits>>
    /\ UNCHANGED <<clockVars, requestVars, repoVars, popped, order, notices>>

\* processBatch 2: the payout of one bet of the batch, if it won. When AddBalance
\* fails the player is not notified and nothing is retried.
AddBalance(r, b) ==
    /\ spc[r] = "pay" /\ b \in batch[r]
    /\ batch' = [batch EXCEPT ![r] = @ \ {b}]
    /\ \/ /\ \/ order[b].payout > 0 /\ Deposit(b)
             \/ order[b].payout <= 0 /\ UNCHANGED <<wallet, credits>>
          /\ SettleTo(r, "notify") /\ cur' = [cur EXCEPT ![r] = b]
       \/ /\ order[b].payout > 0 /\ "credit" \in Faults
          /\ SettleTo(r, NextPc(r, batch[r] \ {b})) /\ UNCHANGED <<cur, wallet, credits>>
    /\ UNCHANGED <<clockVars, requestVars, repoVars, popped, order, notices>>

\* SendToUser with the bet and its win amount, for winners and losers alike.
SendToUser(r) ==
    /\ spc[r] = "notify"
    /\ notices' = [notices EXCEPT ![cur[r]] = Append(@, order[cur[r]].payout)]
    /\ SettleTo(r, NextPc(r, batch[r])) /\ cur' = [cur EXCEPT ![r] = NoBet]
    /\ UNCHANGED <<clockVars, requestVars, repoVars, popped, batch, order, credits, wallet>>

\* The loop has ended: ClearBets drops what the repository holds for the round;
\* the final broadcast to all players follows.
ClearBets(r) ==
    /\ spc[r] = "clear"
    /\ SettleTo(r, "done")
    /\ bets' = [bets EXCEPT ![r] = {}]
    /\ queue' = [queue EXCEPT ![r] = {}]
    /\ UNCHANGED <<clockVars, requestVars, stake, popped, batch, cur, order, credits, notices, wallet>>

----------------------------------------------------------------------------
PlaceBet(q) == AskRound(q) \/ Debit(q) \/ RecordBet(q) \/ GetUserBet(q)
               \/ UpdateBetAmount(q) \/ SaveBet(q)

SettleRound(r) == GetBetsForSettlement(r) \/ FillBatch(r) \/ MakeOrders(r) \/ BatchCreate(r)
                  \/ (\E b \in Requests : AddBalance(r, b)) \/ SendToUser(r) \/ ClearBets(r)

Tick == ClockStep /\ UNCHANGED <<requestVars, repoVars, settleVars, wallet>>

Next == \/ Tick
        \/ \E q \in Requests : PlaceBet(q)
        \/ \E r \in Rounds : RoundResult(r) \/ SettleRound(r)

\* A settlement that was started is a goroutine nothing blocks for ever.
Fairness == \A r \in Rounds : WF_vars(SettleRound(r))

Spec == Init /\ [][Next]_vars

FairSpec == Spec /\ Fairness

----------------------------------------------------------------------------
\* Properties.

\* Every variable stays in its domain.
TypeOK ==
    /\ ClockTypeOK
    /\ user \in [Requests -> Users] /\ color \in [Requests -> BetColors]
    /\ amount \in [Requests -> Amounts]
    /\ pc \in [Requests -> RequestPcs] /\ rid \in [Requests -> 0 .. MaxRounds]
    /\ found \in [Requests -> Requests \cup {NoBet}]
    /\ stake \in [Requests -> Int]
    /\ bets \in [Rounds -> SUBSET Requests]
    /\ queue \in [Rounds -> SUBSET Requests]
    /\ spc \in [Rounds -> SettlePcs] /\ cur \in [Rounds -> Requests \cup {NoBet}]
    /\ popped \in [Rounds -> SUBSET Requests] /\ batch \in [Rounds -> SUBSET Requests]
    /\ order \in [Requests -> Order]
    /\ wallet \in [Users -> Int \cup {NoEntry}]
    /\ credits \in [Requests -> Seq(Int)]
    /\ notices \in [Requests -> Seq(Int)]
    /\ late \subseteq Requests /\ torn \subseteq Requests

\* The bets round r still has to put into an order.
Unsettled(r) == queue[r] \cup popped[r]

\* A bet that waits for settlement has no order yet, and a bet whose order is
\* being processed does not wait: no bet can be settled a second time, however
\* SaveBet, UpdateBetAmount, the pops and ClearBets interleave.
SettledOnce ==
    \A r \in Rounds :
        /\ queue[r] \cap popped[r] = {}
        /\ \A b \in Unsettled(r) : order[b].st = "none" /\ credits[b] = <<>> /\ notices[b] = <<>>
        /\ batch[r] \cap Unsettled(r) = {}

\* Stored orders are made from a result the round has shown: nothing for the other
\* colours, and for the winning one twice the amount, unless the stake grew
\* between the two reads the order is made from.
OrdersMatchResult ==
    \A b \in Requests : order[b].st = "stored" =>
        /\ Shown(rid[b])
        /\ color[b] # results[rid[b]] => order[b].payout = 0
        /\ color[b] = results[rid[b]] /\ b \notin torn => order[b].payout = 2 * order[b].amount

\* Money is paid out at most once per bet, only for a stored order ("DB first"),
\* and in the amount the order states.
PayoutsBacked ==
    \A b \in Requests : credits[b] # <<>> =>
        /\ credits[b] = <<order[b].payout>>
        /\ order[b].st = "stored"
        /\ order[b].payout > 0

\* A player is notified at most once per bet, of what the stored order says, and
\* told of a win only when it has been deposited.
WinnersPaidBeforeNotice ==
    \A b \in Requests : notices[b] # <<>> =>
        /\ notices[b] = <<order[b].payout>>
        /\ order[b].st = "stored"
        /\ order[b].payout > 0 => credits[b] = notices[b]

\* The inductive invariant behind the four properties above, proved in
\* BettingServiceProofs: where a bet is in its settlement and what has happened
\* to it by then.

\* The bets a settlement has in hand.
InHand(r) == popped[r] \cup batch[r]
             \cup (IF spc[r] = "notify" THEN {cur[r]} ELSE {})

\* A request that has passed step 1 has the ID of a round.
RoundKnown == \A q \in Requests : pc[q] \notin {"idle", "failed"} => rid[q] \in Rounds

\* Only saved bets of round r are in the queue or in the hands of its
\* settlement, and only saved bets have orders.
BetsSaved ==
    /\ \A r \in Rounds : \A b \in queue[r] \cup InHand(r) :
          b \in Requests /\ pc[b] = "ok" /\ rid[b] = r
    /\ \A b \in Requests : order[b].st # "none" => pc[b] = "ok" /\ rid[b] \in Rounds

\* A settlement runs only after GMS has pushed the result of a shown round.
SettlementTold ==
    \A r \in Rounds : spc[r] # "idle" => told[r] = <<results[r]>> /\ Shown(r)

\* An order, finished or not, matches the result of its round.
OrderRight(b) ==
    order[b].st # "none" =>
        /\ Shown(rid[b])
        /\ color[b] # results[rid[b]] => order[b].payout = 0
        /\ color[b] = results[rid[b]] /\ b \notin torn =>
              order[b].payout = 2 * (IF order[b].st = "priced" THEN stake[b] ELSE order[b].amount)

OrdersRight == \A b \in Requests : OrderRight(b)

\* What has been done for the bets of the current batch of round r.
RoundProgress(r) ==
    /\ \A b \in batch[r] :
          /\ credits[b] = <<>> /\ notices[b] = <<>>
          /\ spc[r] = "order" => order[b].st = "priced"
          /\ spc[r] = "persist" => order[b].st = "draft"
          /\ spc[r] \in {"pay", "notify"} => order[b].st = "stored"
    /\ spc[r] = "notify" =>
          /\ cur[r] \notin batch[r] \cup Unsettled(r)
          /\ order[cur[r]].st = "stored" /\ notices[cur[r]] = <<>>
          /\ order[cur[r]].payout > 0 => credits[cur[r]] = <<order[cur[r]].payout>>

BatchProgress == \A r \in Rounds : RoundProgress(r)

SettlementInv ==
    /\ RoundKnown /\ BetsSaved /\ SettlementTold /\ OrdersRight /\ BatchProgress
    /\ SettledOnce /\ PayoutsBacked /\ WinnersPaidBeforeNotice

Debited == {q \in Requests : pc[q] \notin {"idle", "asked", "failed"}}

\* Paid[b]: what has been deposited for bet b.
Paid == [b \in Requests |-> SumFunction(credits[b])]

CallsOf(u) == {q \in Requests : user[q] = u}

Balance(u) ==
    IF CallsOf(u) \cap Debited = {} THEN NoEntry
    ELSE DefaultBalance - SumFunctionOnSet(amount, CallsOf(u) \cap Debited)
                        + SumFunctionOnSet(Paid, CallsOf(u))

\* Every balance is what the deductions and the deposits of its player add up to.
BalanceInv == \A u \in Users : wallet[u] = Balance(u)

\* What the balances and the completeness of a settlement rest on, proved with them
\* in BettingServiceProofs: where the stake of every accepted request is.

\* The bet that the stake of request q goes into.
BetOf(q) == IF found[q] = NoBet THEN q ELSE found[q]

IsSaved(b) == pc[b] = "ok" /\ found[b] = NoBet

\* The stakes of bet b that its order has to carry.
Kept(b) == {q \in Requests : pc[q] = "ok" /\ BetOf(q) = b /\ q \notin late}

\* The repository, the settlements and the calls that found a bet hold saved bets, of
\* the right round and area.
BetsKnown ==
    /\ \A r \in Rounds : \A b \in bets[r] : b \in Requests /\ IsSaved(b) /\ rid[b] = r
    /\ \A q, b \in Requests : found[q] = b =>
          pc[q] \in {"looked", "ok"} /\ IsSaved(b) /\ rid[b] = rid[q] /\ SameArea(q, b)
    /\ \A r \in Rounds : \A b \in queue[r] \cup popped[r] \cup batch[r] : found[b] = NoBet
    /\ \A b \in Requests : order[b].st # "none" => found[b] = NoBet

\* A bet that was saved too late never gets an order, and neither do the stakes
\* added to it.
LateStaysOut ==
    \A b \in late :
        /\ pc[b] = "ok"
        /\ IsSaved(b) => /\ spc[rid[b]] \in {"clear", "done", "failed"}
                         /\ order[b].st = "none" /\ Kept(b) = {}

\* The stakes of a bet are in it until its order is made, and in the order after it.
Carried(b) == IF order[b].st \in {"none", "priced"} THEN stake[b] ELSE order[b].amount

StakesKept ==
    \A b \in Requests \ late : IsSaved(b) => SumFunctionOnSet(amount, Kept(b)) = Carried(b)

\* A bet saved in time is on its way to a stored order until it has one.
NoneForgotten ==
    \A b \in Requests \ late, r \in Rounds : IsSaved(b) /\ rid[b] = r =>
        order[b].st = "stored" \/ b \in Unsettled(r) \cup batch[r]

\* A settlement pops, and ends its loop, with empty hands, and ends it only when the
\* queue holds nothing that came in time.
EmptyHands ==
    \A r \in Rounds :
        /\ spc[r] \in {"idle", "pop", "clear", "done"} => popped[r] = {}
        /\ spc[r] \in {"idle", "pop", "clear", "done", "batch"} => batch[r] = {}
        /\ spc[r] \in {"clear", "done"} => queue[r] \subseteq late

\* A saved bet holds the stakes of all requests that went into it, late or not.
AddedTo(b) == {q \in Requests : pc[q] = "ok" /\ BetOf(q) = b}

StakesAdded == \A b \in Requests : IsSaved(b) => stake[b] = SumFunctionOnSet(amount, AddedTo(b))

LedgerInv == BetsKnown /\ LateStaysOut /\ StakesKept /\ NoneForgotten /\ EmptyHands

\* The bets of player u, and the calls of u that were charged but have no bet: not
\* yet, or never, because GMS refused the bet after the deduction.
BetsOf(u)    == {b \in CallsOf(u) : IsSaved(b)}
Pending(u)   == {q \in CallsOf(u) : pc[q] \in {"debited", "recorded", "looked"}}
Forfeited(u) == {q \in CallsOf(u) : pc[q] = "forfeit"}

\* What the bets and the wallet say player u has been charged.
Charged(u) == DefaultBalance + SumFunctionOnSet(Paid, CallsOf(u)) - wallet[u]
Staked(u)  == SumFunctionOnSet(stake, BetsOf(u))

\* A player is charged for the amounts of his bets and for nothing else, apart from
\* the calls that PlaceBet is still at and those that were refused after the
\* deduction: concurrent calls and payouts lose no deduction, no deposit and no
\* stake of a bet, and charge none twice (PlaceBet, UpdateBetAmount, AddBalance).
ChargesMatchBets ==
    \A u \in Users :
        IF wallet[u] = NoEntry THEN BetsOf(u) \cup Pending(u) \cup Forfeited(u) = {}
        ELSE Charged(u) = Staked(u) + SumFunctionOnSet(amount, Pending(u))
                                    + SumFunctionOnSet(amount, Forfeited(u))

\* What the documentation of GS says: a transaction keeps the deduction of a bet and
\* the creation of its order consistent. A player none of whose calls is under
\* way has then been charged for the bets he has.
ChargedForBetsOnly ==
    \A u \in Users : wallet[u] # NoEntry /\ Pending(u) = {} => Charged(u) = Staked(u)

\* The requests accepted for one betting area.
Accepted(u, c, r) ==
    {q \in Requests : pc[q] = "ok" /\ user[q] = u /\ color[q] = c /\ rid[q] = r}

\* Ordered[b]: the amount of the order of bet b.
Ordered == [b \in Requests |-> order[b].amount]

\* When the settlement loop of a round has ended, its orders carry every stake
\* accepted for the round except those that arrived too late (a bet saved after
\* the last pop, an amount added after the order was made).
SettlementComplete ==
    \A r \in Rounds : spc[r] \in {"clear", "done"} =>
        \A u \in Users, c \in Colors :
            SumFunctionOnSet(Ordered, {b \in Accepted(u, c, r) : order[b].st = "stored"})
                = SumFunctionOnSet(amount, Accepted(u, c, r) \ late)

\* A settlement that GMS started comes to an end.
SettlementEnds ==
    \A r \in Rounds : told[r] # <<>> ~> spc[r] \in {"done", "failed"}

=============================================================================
