------------------------------ MODULE RedisBets ------------------------------
(***************************************************************************)
(* The Redis bet repository under PlaceBet and SettleRound, on top of      *)
(* RoundClock. Every Redis command is a step: the repository's pipelines   *)
(* are not transactions, and the calls that share the store, in one GS     *)
(* process or in several, hold no lock. A bet read from Redis is a copy,   *)
(* so an amount is read, added to and written back whole. The queues are   *)
(* sets: no property depends on which of their IDs a pop takes.            *)
(*                                                                         *)
(* A request is one PlaceBet call after its steps at GMS and at the wallet,*)
(* which BettingService models; its bet has the request as its ID. Or it   *)
(* is a GetState call, which reads the player's index and then the bets.   *)
(*                                                                         *)
(* Definitions whose name starts with Bug are faulty variants of the       *)
(* definition that follows them; no specification uses them.               *)
(***************************************************************************)
EXTENDS RoundClock, Integers, FiniteSets, Functions

CONSTANTS Users, Requests, Amounts,
          NoBet,       \* no entry under this key or field
          ShardOf,     \* ShardOf[u]: UserID % ShardCount
          PopCount,    \* IDs taken by one LPOP (100)
          Faults

Shards == {ShardOf[u] : u \in Users}

FaultKinds == {"stop",     \* a PlaceBet call ends at any point: Redis does not
                           \* answer, or the process dies
               "order",    \* processBatch fails
               "crash"}    \* the process of a settlement dies, or Redis fails it

ASSUME RBNames == NoBet \notin Requests \cup Int
ASSUME RBRequests == IsFiniteSet(Requests)
ASSUME RBBounds == PopCount \in Nat \ {0} /\ Amounts \subseteq Int
ASSUME RBFaults == Faults \subseteq FaultKinds

VARIABLES
    user, color, amount,   \* the arguments of each call
    view,                  \* view[q]: the bets a GetState call has found
    pc, rid,               \* where it is; its round
    found, copy,           \* the bet its GetUserBet found: ID and amount read
    data,      \* data[b]: the amount in bet_data:<round> under b
    queue,     \* queue[r][s]: settlement_queue:<round>:<shard>
    index,     \* index[r][u][c]: user_index:<round>:<user> under colour c
    spc,       \* where SettleRound(r) is
    left,      \* left[r]: shards its current repository call has still to visit
    hand,      \* bets popped by this call and not yet in an order
    fetched,   \* fetched[b]: the amount of b when its data was read
    orders,    \* orders[b]: amounts of the orders written for b
    wrote,     \* history: requests whose stake was written into their bet
    raced,     \* history: those whose bet was held in a copy when they wrote
    before     \* history: bets pushed before the current call began

args      == <<user, color, amount, view>>
callVars  == <<args, pc, rid, found, copy, wrote, raced>>
storeVars == <<data, queue, index>>
settleVars == <<spc, left, hand, fetched, orders, before>>
vars == <<clockVars, callVars, storeVars, settleVars>>

RequestPcs == {"idle", "recorded", "indexed", "found", "data", "push", "index",
               "ok", "missing", "stopped", "asked", "ids", "shown"}

SettlePcs == {"idle", "scan", "fetch", "order", "clear", "queues", "done", "failed"}

Init ==
    /\ ClockInit
    /\ user \in [Requests -> Users]
    /\ color \in [Requests -> Colors]
    /\ amount \in [Requests -> Amounts]
    /\ view = [q \in Requests |-> {}]
    /\ pc = [q \in Requests |-> "idle"]
    /\ rid = [q \in Requests |-> 0]
    /\ found = [q \in Requests |-> NoBet]
    /\ copy = [q \in Requests |-> NoBet]
    /\ data = [b \in Requests |-> NoBet]
    /\ queue = [r \in Rounds |-> [s \in Shards |-> {}]]
    /\ index = [r \in Rounds |-> [u \in Users |-> [c \in Colors |-> NoBet]]]
    /\ spc = [r \in Rounds |-> "idle"]
    /\ left = [r \in Rounds |-> {}]
    /\ hand = [r \in Rounds |-> {}]
    /\ fetched = [b \in Requests |-> NoBet]
    /\ orders = [b \in Requests |-> <<>>]
    /\ wrote = {} /\ raced = {}
    /\ before = [r \in Rounds |-> {}]

----------------------------------------------------------------------------
\* PlaceBet, from the point where GMS has accepted the bet.

To(q, next) == pc' = [pc EXCEPT ![q] = next]

\* RecordBet accepts the bet for the round that takes bets.
RecordBet(q) ==
    /\ pc[q] = "idle"
    /\ \E r \in Rounds : Accepting(r) /\ rid' = [rid EXCEPT ![q] = r]
    /\ To(q, "recorded")
    /\ UNCHANGED <<clockVars, args, found, copy, wrote, raced, storeVars, settleVars>>

\* GetUserBet, first command: the bet ID under the user's colour.
ReadIndex(q) ==
    /\ pc[q] = "recorded"
    /\ LET b == index[rid[q]][user[q]][color[q]]
       IN  /\ found' = [found EXCEPT ![q] = b]
           /\ To(q, IF b = NoBet THEN "data" ELSE "indexed")
    /\ UNCHANGED <<clockVars, args, rid, copy, wrote, raced, storeVars, settleVars>>

\* Second command: the bet itself. A missing one is an error and PlaceBet fails.
ReadBet(q) ==
    /\ pc[q] = "indexed"
    /\ copy' = [copy EXCEPT ![q] = data[found[q]]]
    /\ To(q, IF data[found[q]] = NoBet THEN "missing" ELSE "found")
    /\ UNCHANGED <<clockVars, args, rid, found, wrote, raced, storeVars, settleVars>>

\* Another call, or the settlement, has read bet b and goes on with what it read.
InCopy(b, q) ==
    \/ fetched[b] # NoBet
    \/ \E p \in Requests \ {q} : pc[p] = "found" /\ found[p] = b

\* The stake of q is written into its bet; a copy read before does not contain it.
Write(q) ==
    /\ wrote' = wrote \cup {q}
    /\ raced' = IF InCopy(found[q], q) THEN raced \cup {q} ELSE raced

BugUpdateBetAmount(q) ==
    /\ pc[q] = "found"
    /\ data' = [data EXCEPT ![found[q]] = (IF @ = NoBet THEN 0 ELSE @) + copy[q] + amount[q]]
    /\ Write(q)
    /\ To(q, "ok")
    /\ UNCHANGED <<clockVars, args, rid, found, copy, queue, index, settleVars>>

\* UpdateBetAmount writes the copy back with the stake added, whatever the store
\* holds by now: the field is created again if the round has been cleared.
UpdateBetAmount(q) ==
    /\ pc[q] = "found"
    /\ data' = [data EXCEPT ![found[q]] = copy[q] + amount[q]]
    /\ Write(q)
    /\ To(q, "ok")
    /\ UNCHANGED <<clockVars, args, rid, found, copy, queue, index, settleVars>>

\* SaveBet: three commands of one pipeline. The bet under its ID ...
SaveData(q) ==
    /\ pc[q] = "data"
    /\ data' = [data EXCEPT ![q] = amount[q]]
    /\ wrote' = wrote \cup {q}
    /\ To(q, "push")
    /\ UNCHANGED <<clockVars, args, rid, found, copy, raced, queue, index, settleVars>>

\* ... its ID into the queue of the user's shard ...
PushQueue(q) ==
    /\ pc[q] = "push"
    /\ queue' = [queue EXCEPT ![rid[q]][ShardOf[user[q]]] = @ \cup {q}]
    /\ To(q, "index")
    /\ UNCHANGED <<clockVars, args, rid, found, copy, wrote, raced, data, index, settleVars>>

BugSetIndex(q) ==
    /\ pc[q] = "index"
    /\ To(q, "ok")
    /\ UNCHANGED <<clockVars, args, rid, found, copy, wrote, raced, storeVars, settleVars>>

\* ... and into the user's index.
SetIndex(q) ==
    /\ pc[q] = "index"
    /\ index' = [index EXCEPT ![rid[q]][user[q]][color[q]] = q]
    /\ To(q, "ok")
    /\ UNCHANGED <<clockVars, args, rid, found, copy, wrote, raced, data, queue, settleVars>>

InProgress == {"recorded", "indexed", "found", "data", "push", "index"}

\* The call ends here, with an error or with its process.
GiveUp(q) ==
    /\ "stop" \in Faults /\ pc[q] \in InProgress
    /\ To(q, "stopped")
    /\ UNCHANGED <<clockVars, args, rid, found, copy, wrote, raced, storeVars, settleVars>>

----------------------------------------------------------------------------
\* GetState: GetUserBets for the current round.

\* GetCurrentRound of GMS: the round to show.
GetCurrentRound(q) ==
    /\ pc[q] = "idle" /\ id \in Rounds
    /\ rid' = [rid EXCEPT ![q] = id]
    /\ To(q, "asked")
    /\ UNCHANGED <<clockVars, args, found, copy, wrote, raced, storeVars, settleVars>>

\* First command: the IDs in the user's index.
GetUserBets(q) ==
    LET ids == {index[rid[q]][user[q]][c] : c \in Colors} \ {NoBet} IN
    /\ pc[q] = "asked"
    /\ view' = [view EXCEPT ![q] = ids]
    /\ To(q, IF ids = {} THEN "shown" ELSE "ids")
    /\ UNCHANGED <<clockVars, user, color, amount, rid, found, copy, wrote, raced, storeVars, settleVars>>

\* Second command: their bets; IDs without data are skipped.
ReadBets(q) ==
    /\ pc[q] = "ids"
    /\ view' = [view EXCEPT ![q] = {b \in @ : data[b] # NoBet}]
    /\ To(q, "shown")
    /\ UNCHANGED <<clockVars, user, color, amount, rid, found, copy, wrote, raced, storeVars, settleVars>>

GetState(q) == GetCurrentRound(q) \/ GetUserBets(q) \/ ReadBets(q)

----------------------------------------------------------------------------
\* SettleRound(r).

SettleTo(r, next) == spc' = [spc EXCEPT ![r] = next]

Pushed(r) == {b \in Requests : rid[b] = r /\ \E s \in Shards : b \in queue[r][s]}
             \cup {b \in Requests : rid[b] = r /\ orders[b] # <<>>}

\* GetBetsForSettlement is called: no shard has been looked at.
Scan(r) ==
    /\ SettleTo(r, "scan")
    /\ left' = [left EXCEPT ![r] = Shards]

\* GMS pushes the result, to one GS process.
RoundResult(r) ==
    /\ TellGS(r)
    /\ Scan(r)
    /\ before' = [before EXCEPT ![r] = Pushed(r)]
    /\ UNCHANGED <<callVars, storeVars, hand, fetched, orders>>

BugPop(r, s, B) == UNCHANGED queue

\* LPOP: the IDs in B leave the list.
Pop(r, s, B) == queue' = [queue EXCEPT ![r][s] = @ \ B]

BugAfterEmpty(r, s) == "clear"

BugAfterEmptyLoop(r, s) == "scan"

\* Where SettleRound goes on after finding shard s empty: when every shard was
\* empty GetBetsForSettlement returns nothing, and SettleRound leaves its loop.
AfterEmpty(r, s) == IF left[r] = {s} THEN "clear" ELSE "scan"

\* The next shard (they are visited in a circle from a random one): up to
\* PopCount IDs are popped.
PopShard(r, s) ==
    /\ spc[r] = "scan" /\ s \in left[r]
    /\ \/ /\ queue[r][s] = {}
          /\ left' = [left EXCEPT ![r] = @ \ {s}]
          /\ SettleTo(r, AfterEmpty(r, s))
          /\ UNCHANGED <<queue, hand>>
       \/ \E B \in (SUBSET queue[r][s]) \ {{}} :
             /\ Cardinality(B) = PopCount \/ (B = queue[r][s] /\ Cardinality(B) < PopCount)
             /\ hand' = [hand EXCEPT ![r] = B]
             /\ Pop(r, s, B)
             /\ SettleTo(r, "fetch")
             /\ UNCHANGED left
    /\ UNCHANGED <<clockVars, callVars, data, index, fetched, orders, before>>

\* HMGET: the bets of the popped IDs; IDs without data are skipped, and if none
\* is left SettleRound leaves its loop.
FetchBets(r) ==
    /\ spc[r] = "fetch"
    /\ fetched' = [b \in Requests |-> IF b \in hand[r] THEN data[b] ELSE fetched[b]]
    /\ LET known == {b \in hand[r] : data[b] # NoBet}
       IN  /\ hand' = [hand EXCEPT ![r] = known]
           /\ SettleTo(r, IF known = {} THEN "clear" ELSE "order")
    /\ UNCHANGED <<clockVars, callVars, storeVars, left, orders, before>>

\* processBatch on everything fetched: the orders are written (payment and notices
\* as in BettingService) and GetBetsForSettlement is called again, or
\* SettleRound returns the error.
ProcessBatch(r) ==
    /\ spc[r] = "order"
    /\ hand' = [hand EXCEPT ![r] = {}]
    /\ \/ /\ orders' = [b \in Requests |-> IF b \in hand[r] THEN Append(orders[b], fetched[b])
                                                            ELSE orders[b]]
          /\ Scan(r)
          /\ before' = [before EXCEPT ![r] = Pushed(r) \cup hand[r]]
       \/ "order" \in Faults /\ SettleTo(r, "failed") /\ UNCHANGED <<orders, left, before>>
    /\ UNCHANGED <<clockVars, callVars, storeVars, fetched>>

\* ClearBets: the data of the round is deleted ...
ClearData(r) ==
    /\ spc[r] = "clear"
    /\ data' = [b \in Requests |-> IF rid[b] = r THEN NoBet ELSE data[b]]
    /\ SettleTo(r, "queues")
    /\ left' = [left EXCEPT ![r] = Shards]
    /\ UNCHANGED <<clockVars, callVars, queue, index, hand, fetched, orders, before>>

\* ... then the queues, one by one; the index stays until it expires.
ClearQueue(r, s) ==
    /\ spc[r] = "queues" /\ s \in left[r]
    /\ queue' = [queue EXCEPT ![r][s] = {}]
    /\ left' = [left EXCEPT ![r] = @ \ {s}]
    /\ SettleTo(r, IF left[r] = {s} THEN "done" ELSE "queues")
    /\ UNCHANGED <<clockVars, callVars, data, index, hand, fetched, orders, before>>

\* The process of the settlement dies; GMS does not push the result again.
Crash(r) ==
    /\ "crash" \in Faults /\ spc[r] \notin {"idle", "done", "failed"}
    /\ SettleTo(r, "failed")
    /\ hand' = [hand EXCEPT ![r] = {}]
    /\ UNCHANGED <<clockVars, callVars, storeVars, left, fetched, orders, before>>

----------------------------------------------------------------------------
PlaceBet(q) == ReadIndex(q) \/ ReadBet(q) \/ UpdateBetAmount(q)
               \/ SaveData(q) \/ PushQueue(q) \/ SetIndex(q)

SettleRound(r) == (\E s \in Shards : PopShard(r, s) \/ ClearQueue(r, s))
                  \/ FetchBets(r) \/ ProcessBatch(r) \/ ClearData(r)

Tick == ClockStep /\ UNCHANGED <<callVars, storeVars, settleVars>>

Next == \/ Tick
        \/ \E q \in Requests : RecordBet(q) \/ PlaceBet(q) \/ GiveUp(q) \/ GetState(q)
        \/ \E r \in Rounds : RoundResult(r) \/ SettleRound(r) \/ Crash(r)

\* A started settlement goes on until its process dies.
Fairness == \A r \in Rounds : WF_vars(SettleRound(r))

Spec == Init /\ [][Next]_vars

FairSpec == Spec /\ Fairness

----------------------------------------------------------------------------
\* Properties.

\* Every variable stays in its domain.
TypeOK ==
    /\ ClockTypeOK
    /\ user \in [Requests -> Users] /\ color \in [Requests -> Colors]
    /\ amount \in [Requests -> Amounts]
    /\ view \in [Requests -> SUBSET Requests]
    /\ pc \in [Requests -> RequestPcs] /\ rid \in [Requests -> 0 .. MaxRounds]
    /\ found \in [Requests -> Requests \cup {NoBet}]
    /\ copy \in [Requests -> Int \cup {NoBet}]
    /\ data \in [Requests -> Int \cup {NoBet}]
    /\ queue \in [Rounds -> [Shards -> SUBSET Requests]]
    /\ index \in [Rounds -> [Users -> [Colors -> Requests \cup {NoBet}]]]
    /\ spc \in [Rounds -> SettlePcs]
    /\ left \in [Rounds -> SUBSET Shards] /\ hand \in [Rounds -> SUBSET Requests]
    /\ fetched \in [Requests -> Int \cup {NoBet}]
    /\ orders \in [Requests -> Seq(Int)]
    /\ wrote \subseteq Requests /\ raced \subseteq Requests
    /\ before \in [Rounds -> SUBSET Requests]

\* A bet is in one queue, or in the hands of one settlement, or has one order, and
\* never in two of these places: popping is what makes settlement happen at most
\* once, although the processes share the queues and may die anywhere.
SettledOnce ==
    \A b \in Requests :
        /\ Len(orders[b]) <= 1
        /\ \A r \in Rounds, s \in Shards : b \in queue[r][s] =>
              rid[b] = r /\ s = ShardOf[user[b]] /\ b \notin hand[r] /\ orders[b] = <<>>
        /\ \A r \in Rounds : b \in hand[r] => rid[b] = r /\ orders[b] = <<>>

\* The inductive invariant behind TypeOK and SettledOnce, proved in RedisBetsProofs.

\* A request that has not pushed its bet has no bet in the settlement, and one past
\* RecordBet has the ID of a round.
NotYetPushed ==
    \A b \in Requests :
        /\ pc[b] # "idle" => rid[b] \in Rounds
        /\ pc[b] \in {"idle", "recorded", "indexed", "found", "data", "push"} =>
              /\ orders[b] = <<>>
              /\ \A r \in Rounds : b \notin hand[r] /\ \A s \in Shards : b \notin queue[r][s]

\* Amounts are used only after they have been read.
AmountsKnown ==
    /\ \A q \in Requests : /\ pc[q] \in {"indexed", "found"} => found[q] \in Requests
                           /\ pc[q] = "found" => copy[q] \in Int
    /\ \A r \in Rounds : spc[r] = "order" => \A b \in hand[r] : fetched[b] \in Int

RedisInv == TypeOK /\ NotYetPushed /\ AmountsKnown /\ SettledOnce

\* The stakes written into bet b after the first, and those that nobody's copy of
\* the bet has missed.
Added(b) == {q \in wrote : found[q] = b}
Sure(b)  == Added(b) \ raced

\* What bet b may amount to: its first stake, every stake added to it that did not
\* race, and some of those that did, each once.
WholeAmounts(b) ==
    {amount[b] + SumFunctionOnSet(amount, S) : S \in {T \in SUBSET Added(b) : Sure(b) \subseteq T}}

\* Whatever interleaving of reads and writes made it, the amount of a bet in the
\* store is its first stake and every stake added later, each once: a stake may be
\* missing only if another call, or the settlement, was working on a copy of the bet
\* when it was written (UpdateBetAmount). So is the amount of an order.
StakesWhole ==
    \A b \in Requests :
        /\ data[b] # NoBet => data[b] \in WholeAmounts(b)
        /\ orders[b] # <<>> => orders[b][1] \in WholeAmounts(b)

\* The inductive invariant behind it: so are the amounts that a PlaceBet call or a
\* settlement has read, an order is made of a bet that was read, a call writes its
\* stake as its last or its first step, and a bet that was found has been written.
StakesInv ==
    /\ StakesWhole
    /\ \A q \in wrote : pc[q] \in {"push", "index", "ok", "stopped"}
    /\ \A q, b \in Requests : pc[q] = "found" /\ found[q] = b => copy[q] \in WholeAmounts(b)
    /\ \A r \in Rounds : spc[r] = "order" => \A b \in hand[r] : fetched[b] \in WholeAmounts(b)
    /\ \A b \in Requests : orders[b] # <<>> => fetched[b] # NoBet
    /\ \A q, b \in Requests : found[q] = b => b \in wrote

\* The PlaceBet calls of player u for colour c in round r with a given outcome.
CallsFor(u, c, r, pcs) ==
    {q \in Requests : user[q] = u /\ color[q] = c /\ rid[q] = r /\ pc[q] \in pcs}

\* What the documentation of GS says: repeated bets of a player on one area of a round
\* accumulate. Once all of them have been answered, and until the round is settled,
\* what the store holds for the area is then the sum of their stakes.
RepeatedBetsAccumulate ==
    \A r \in Rounds, u \in Users, c \in Colors :
        spc[r] = "idle" /\ CallsFor(u, c, r, InProgress) = {} =>
            LET done == CallsFor(u, c, r, {"ok"}) IN
            SumFunctionOnSet(data, {b \in done : data[b] # NoBet}) = SumFunctionOnSet(amount, done)

Cleared(r) == spc[r] \in {"queues", "done", "failed"}

\* GetState shows a bet for every area the player had a confirmed bet on when it
\* read the index, unless the settlement clears the round meanwhile: index and data are
\* read, and were written, by separate commands, and two first bets on an area
\* overwrite each other's entry in the index.
GetStateComplete ==
    [][\A q \in Requests :
         /\ pc[q] = "asked" /\ pc'[q] \in {"ids", "shown"} =>
              \A p \in Requests :
                pc[p] = "ok" /\ rid[p] = rid[q] /\ user[p] = user[q] =>
                  \E b \in view'[q] : color[b] = color[p] /\ user[b] = user[p]
         /\ pc[q] = "ids" /\ pc'[q] = "shown" /\ ~Cleared(rid[q]) => view'[q] = view[q]]_vars

\* When SettleRound has left its loop, every bet that was in a queue when its last
\* GetBetsForSettlement began has an order: no shard is skipped, and a bet left
\* behind was pushed during the last call or later.
NothingLeftBehind ==
    \A r \in Rounds : spc[r] \in {"clear", "queues", "done"} =>
        \A b \in before[r] : orders[b] # <<>>

\* A settlement that GMS started comes to an end.
SettlementEnds ==
    \A r \in Rounds : told[r] # <<>> ~> spc[r] \in {"done", "failed"}

=============================================================================
