# A TLA+ model of the colour game

This directory models, checks and proves properties of the game back end in
`src/`: a betting game in rounds. The Game Manager Service (GMS) plays the
rounds, the Game Service (GS) takes bets and settles them, the gateway keeps one
WebSocket connection per player, a wallet holds balances. The programs under
`src/cmd/color_game` run these parts in one process (`monolith`) or in one
process each (`microservices`); players have accounts with the user service, and
operators watch the processes with the ops centre (`src/cmd/ops`).
`BettingService` follows the single-process program, where the parts call one
another through the local adapters; `Cluster` follows the program of several
processes, which call one another by gRPC.

Paths below are relative to `src/internal/modules` unless they start with `src/`.

## Inventory

| Component | State | Operations | Talks to |
|---|---|---|---|
| GMS state machine, `color_game/gms/machine` | current round, stop flag, job queue (100), 5 workers, handlers | `Start`/`runRound`, `emitEvent`, `Stop`, `GracefulShutdown`, `GetCurrentRound`, `CanAcceptBet` | calls registered handlers from worker goroutines |
| GMS use case, `color_game/gms/usecase` | per-round bet counters | `handleGameEvent`, `IncrementBetCount`, `SetGSService` | broadcasts to the gateway, writes `game_rounds`, pushes results to GS |
| GS use case, `color_game/gs/usecase` | none of its own | `PlaceBet`, `SettleRound`/`processBatch`, `GetState` | GMS, wallet, bet repository, `bet_orders`, gateway |
| Bet repositories, `color_game/gs/repository` | bets and settlement queue per round, in memory or in Redis | `SaveBet`, `GetUserBet`, `UpdateBetAmount`, `GetBetsForSettlement`, `ClearBets` | |
| Wallet mock, `wallet/mock.go` | balances | `DeductBalance`, `AddBalance` | |
| Gateway, `gateway/ws`, `gateway/adapter`, `gateway/usecase` | map user -> connection, a send buffer (1024) per connection | `Run`, `Register`, `Broadcast`, `SendToUser`, pumps, `HandleMessage`, `Shutdown` | reads commands of players, calls GS, sends events |
| User module, `user` | users and sessions in the database, two rate limiters | `Register`, `Login`, `ValidateToken`, `RefreshToken`, `Logout` | asked by the gateway for every connection |
| gRPC clients and discovery, `src/pkg/grpc_client`, `src/pkg/discovery` | address cache, connection cache, task pool | `GetServiceAddrs`, `GetLBConn`, `SubmitTask` | Nacos |
| Mains, `src/cmd/color_game` | servers, the registration loop | start-up, `RegisterService`, signals, `GracefulStop` | Nacos |
| Admin server, `src/pkg/admin` | the process-wide profiles | `CollectPerformanceData` | called by the ops centre |
| Ops centre, `src/cmd/ops` | projects, recordings on disk, a table of viewers | listing, recording, history, viewers, generic calls | Nacos, admin servers, the game's services |
| Logger, configuration, test robot | buffers | | |

What is hard here, and what the properties are aimed at (every item is a hazard
with its line in `PROJECT.json`):

* **Concurrency without transactions.** `PlaceBet` is six calls with nothing held
  between them; settlement of the same round, and of earlier rounds, runs in
  other goroutines. `IncrementBetCount` takes three locks one after the other.
  `SettleRound` reads a bet's amount twice without any lock. In Redis every
  command is a step of its own, and an amount is read, increased and written back.
* **Order.** Five workers execute the events of a round concurrently; when the
  queue is full an event overtakes the queue in a goroutine of its own. A result
  may reach GS when the next round is under way.
* **Partial failure.** The wallet has been debited when GMS refuses a bet; a batch
  of orders fails after others have been paid; a deposit fails for one winner.
* **Limits.** A full job queue, a full send buffer, a worker pool that panics must
  not eat.
* **Stale copies.** Address lists pushed by the registry are applied after a random
  delay; an index entry outlives the bet it points to; `RefreshToken` writes back a
  session it read before a logout.
* **Processes.** A remote call may fail after it took effect; an error code travels in
  a response whose Go error is nil; results reach one of several GS instances, whose
  settlement outlives the call; instances die.
* **Lifetime.** Stop in the middle of a round, cancellation, start-up before the
  handler is registered, a reconnecting player whose old connection is still
  being torn down, a read pump blocked on its own full buffer, a signal during the
  registration loop, a graceful stop while a ten-minute call is served, a viewer
  whose goroutine outlives its session.

## Modules

| Module | Models |
|---|---|
| `RoundClock` | abstract: what GMS promises GS and the players |
| `GameMachine` | GMS: state machine, pool, use case, `game_rounds`, start-up and shutdown; implements `RoundClock` |
| `BettingService` | GS with the in-memory repository, `bet_orders` and the wallet, on top of `RoundClock` |
| `WsManager` | the gateway's connections |
| `RedisBets` | the Redis repository under `PlaceBet` and `SettleRound`, on top of `RoundClock` |
| `ServiceClient` | the gRPC client: addresses, connections, worker pool, fan-out to the gateways |
| `UserService` | accounts, logins and sessions, statement by statement |
| `Cluster` | gateway, GMS and several GS instances as processes, on top of `RoundClock` |
| `ServiceProcess` | the five mains from start to end, and Nacos' list of addresses |
| `AdminServer` | `CollectPerformanceData` in such a process; extends `ServiceProcess` |
| `PprofSessions` | the ops centre's table of viewers |
| `OpsCenter` | the composition: ops centre, viewers, admin servers, processes |
| `MC...` | instances for TLC (values of constants, symmetry); the rest is in the `.cfg` files |
| `GameMachineProofs`, `BettingServiceProofs`, `RedisBetsProofs`, `WsManagerProofs`, `ServiceClientProofs`, `UserServiceProofs`, `ClusterProofs`, `OpsCenterProofs` | theorems about the module of that name |

`BettingService`, `RedisBets` and `Cluster` extend `RoundClock` rather than `GameMachine`: GS
sees of GMS only which round is current, whether it takes bets, and the pushes of results.
The run `game_machine` and the theorem `MachineImplementsClock` show that `GameMachine`
implements exactly that (`RefinesRoundClock`), so what is checked and proved about GS holds with the
real state machine under it.

### RoundClock

`id` is the number of the current round, `phase` its phase, `results[r]` the
colour drawn, `told[r]` the `RoundResult` calls GS has received. Phases follow
`gms/domain/round.go`; "closed" is the time between `BettingEnd` and `Draw`, in
which `CanAcceptBet` is already false. `TellGS(r)` may happen at any time after
round r has shown its result, at most once.

### GameMachine

| In the model | In the code |
|---|---|
| `loop` | where the goroutine of `Start`/`runRound` is: at the top of the loop, in one of the five sleeps, in the deferred `shutdownWorkers`, ended |
| `jobs`, `workers`, `tasks` | `jobQueue`, live workers, handler calls being executed by workers (`pool`) or fallback goroutines |
| `BeginRound` ... `EndRound` | the sections of `runRound`: the locked update together with the `emitEvent` behind it (only this goroutine emits, so nothing observes the point in between except a read of the state, which the next step allows as well) |
| `Broadcast`, `UpdateDB`, `PushResult` | the three parts of `handleGameEvent`, separate steps |
| `AskRound`, `CheckOpen`, `CheckRound`, `CountBet` | `GetCurrentRound`, then the three critical sections of `IncrementBetCount` |
| `NewGMSUseCase` ... `GracefulShutdownReturns` | `main`, which launches `Start` before it builds the use case |

Timers are "the sleep may end now", except that the betting sleep cannot end
before `BettingEnd`: `runRound` computes the deadline before it starts to sleep
for the same duration. `drawResult` may return any colour. `betPlayers` and
`betAmount` change together with `betCount` and are left out. A panic in a
fallback goroutine is not recovered and ends the process; the behaviour simply
ends there.

### BettingService

A request is one `PlaceBet` call; a bet it creates has the request as its ID.
`pc` names the call the request makes next: `GetCurrentRound` and the colour
check (`AskRound`), `Debit`, `RecordBet`, `GetUserBet`, then `UpdateBetAmount` or
`SaveBet`. The repository's slices are sets, because no property depends on their
order; which of two bets on one area `GetUserBet` returns, and how a popped slice
is cut into batches, is nondeterministic instead.

`SettleRound` of each round is a process of its own (`spc[r]`): pop the queue,
price a batch, make its orders, insert them, then deposit and notify bet by bet,
pop again until the queue is empty, clear. `FillBatch` and `MakeOrders` handle
the bets of a batch together; the order of a bet depends on nothing but that bet,
so interleavings between the bets of one batch add no outcome. That a stake is
added to a bet between the two reads of its amount is kept: the order is then
"torn", its amount contains the stake and its payout does not.

`RecordBet` is one step although `IncrementBetCount` has three critical sections:
`CountedInBetting` says that a call that passes all of them saw its own round
open at the first one, so the call takes effect there.

The wallet is the mock of `wallet/mock.go`: `DeductBalance` starts an unknown
user at the default balance and has no lower limit, `AddBalance` starts an
unknown user at zero. Three faults can be switched on: the deduction, the
insertion of a batch, a deposit fail.

`late` and `torn` are history variables: requests whose stake came too late for
an order, and bets with a torn order.

### WsManager

`pc[c]` follows the HTTP handler of connection c and then its read pump; `writer`
its write pump; `sock` the server's end, closed once. `register` and `unregister`
are unbuffered, so a goroutine blocked on one is a state, and the Run loop's
reception an action (`RunRegister`, `RunUnregister`). Messages are counted, not
told apart. They come through the adapter of the monolith or that of the gateway
process (`LocalBroadcast`, `GrpcSend`, ...), which pass on two types of events and
ignore the others, or from the ops centre (`TestBroadcast`). `SendToUser` is three steps: look up under the read lock, try, wait
up to five seconds for room; the client found first is used to the end. A read
pump replies through the same three steps and reads nothing meanwhile.

### RedisBets

The same two operations as in `BettingService`, with the repository of
`color_game/gs/repository/redis/bet_repo.go` (the monolith uses it when Redis is
configured). What `BettingService` treats as one repository call is here one step
per Redis command, because the pipelines of `SaveBet` and `ClearBets` are no
transactions: `SaveData`, `PushQueue`, `SetIndex`; `ReadIndex`, `ReadBet`;
`PopShard`, `FetchBets`; `ClearData`, `ClearQueue`. `data`, `queue` and `index` are the
three kinds of keys. `copy[q]` is the amount in the bet object that `GetUserBet`
unmarshalled for request q, which is what `UpdateBetAmount` writes back. `wrote` and `raced`
are history variables: requests whose stake is in the store's copy of their bet when they
write it, and those of them that wrote while another call, or the settlement, went on with
a copy read before.

`GetBetsForSettlement` visits the shards in a circle from a random one; in the model
it visits each of them once in any order (`left[r]`), which contains every circle.
Its result is one batch: at most 100 IDs are popped and a batch holds 500 orders.
Steps before the bet is accepted, payment and notices are those of
`BettingService` and not repeated. A request may instead be a `GetState` call: it asks GMS
for the round (`GetCurrentRound`), and its `GetUserBets` is two commands, the IDs of the
index and then their bets. `GiveUp` ends a call after any command (an error
or the end of the process), `Crash` a settlement; nobody restarts a settlement. Keys
expire after 24 hours, which no run reaches.

### ServiceClient

`src/pkg/grpc_client/base` for one service, the gateway. The registry is external: it
has a set of healthy instances that changes, and calls back after a change once the
client has subscribed. Each callback sleeps up to three seconds before it writes the
cache, so callbacks overtake one another (`pushes` is a set). `flight` is the lookup
that `requestGroup.Do` executes, step by step; callers that found the cache empty start
it or wait for the one under way. The addresses are then submitted one by one to the queue of the worker
pool, or to a goroutine when the queue is full; a task looks for its connection,
dials under the write lock after a second look, and calls the instance.
`Broadcast` and `SendToUser` differ in their payload only. `GetLBConn`, which picks one
of the same addresses, changes no further state; `Close`, which nobody calls, and
`grpc.Dial`'s refusal of a malformed address are left out. `stamp` and `overtaken` are
history variables.

### UserService

`users` and `sessions` are the two tables, as sets of rows; the actions of a request are
its database statements, named after the repository methods, preceded by the HTTP
handler with its limiter (`Allow`). `now` counts seconds, the resolution of a JWT's
expiry; a session's expiry has nanoseconds, so within its second both outcomes of the
comparison are possible. The unique keys of `users` are the columns' constraints, and
`UpdatedSession` follows gorm's `Updates` by primary key: it writes nothing, without an
error, when the row is gone. `Suspend` is an operator's change of an account's status.
`ValidateToken` is asked through the local adapter, or through the gRPC adapter and
client, where a bad token is first a response without an error and then an error again;
`OpsValidateToken` is the ops centre's. `RefreshToken` has no adapter yet; it is called as
the use case offers it. Token strings, hashing and validation of fields are left out:
a password is right or wrong.

### Cluster

A request is one command of a player, taken by `HandleMessage` from the player's
connection, or a `GetState` of an operator (`GenericCall`). `CallGS` starts it at a random
instance; `GetCurrentRound`, `RecordBet`, `GetUserBet`, `SaveBet`, `GetUserBets` are the calls
of `PlaceBet` and `GetState` there, and `PlaceBetReply`, `GetStateReply` what the gateway makes
of the response. `Remote` is a call that may be lost on the way there or back;
`Disconnect` lets the caller go on, with an error, while the instance still serves the
request. Every instance has its own bets, queue and (mock) wallet. `RoundResult` starts a
settlement at one instance. The context of that call, which ends when the handler
returns, plays no part: the insert has a context of its own, and the repository and the
wallet of a GS process ignore theirs. `Crash` ends an instance. `code` is the error code of a response: `RecordBet` of GMS
and the handlers of GS put failures there.

Amounts, batches and torn orders are those of `BettingService` and not repeated: here a
settlement pops the queue, inserts, pays, and pops again.

### ServiceProcess, AdminServer, PprofSessions, OpsCenter

`todo[p]` is the rest of p's main, one of five lists of steps. `RegisterService` is one attempt
of the registration loop, in main or, in the user service, in a goroutine (`reg`). A
failed attempt may have reached Nacos. A signal ends a process that has not yet called
`signal.Notify` (`phase` is then "terminated"), and starts the shutdown of one that waits; a
main that dereferences a nil client is "panicked", one that dies otherwise "killed". `GracefulStop` lets the calls
under way finish; `ForceStop` is the timer behind it.

`call[c]` is the handler of collection c in `AdminServer`: it switches the profiling rates
on (`rates`), starts the CPU profile (`cpu`) and the trace (`tracer`), waits, stops both,
sends, and has deferred clean-up. The three are global in a process. The second of two
overlapping calls fails to start the profile or the trace, and its clean-up then switches
the rates of the first one off.

The viewers' table is a sequence in the order of last use; `stale` says how many at its
front have been idle for 15 minutes. Everything but the end of a viewer happens under the
mutex; a viewer's `Wait` goroutine takes it later (`Reap`). `ProcessState` is read without
synchronisation, so a viewer that has exited may or may not be seen as such (`Cleaned`). A
viewer is the `go` command that the ops centre starts and kills; the tool that this
command runs is a process of its own, which may go on after a kill, and nothing is said
about it.

`OpsCenter` composes them: projects that could not be initialised are missing for good
(`initProjects`), an operator chooses among addresses that were listed now or earlier
(`known`), a recording is waited for, saved, deleted, and its files opened. Deleting a
folder does not end its viewers: the handler looks for sessions whose key starts with the
folder's name and a slash, and the keys are absolute paths. For the empty name, which
stands for the directory of all the folders, every key matches (`DeleteStorage`).

## Runs

Passing runs, and what they show:

* `game_machine`: two rounds, a queue of one, one worker, one fallback goroutine at
  a time, one bet counter, all faults. A nil return of `GracefulShutdown` means that
  the pool has nothing left to do (`DrainedOnReturn`); a bet passes
  `IncrementBetCount` only if its own round was open (`CountedInBetting`); a row of
  `game_rounds` that says Ended stays as it is (`EndedIsFinal`); the machine implements
  `RoundClock` (`RefinesRoundClock`). After `Stop` it does not come to rest before its end
  (`StopCompletes`), nor ever with an emitted event that nobody has seen (`EventsShown`),
  panicking handlers included.
* `betting`: two requests of two players, two rounds whose settlements may overlap, all
  faults. No bet is settled twice (`SettledOnce`), money is paid out once, in the ordered
  amount and after the order is stored (`PayoutsBacked`), nobody is told of a win that was
  not deposited (`WinnersPaidBeforeNotice`), and a player is charged for the amounts of his
  bets, for calls still under way and for those refused after the deduction, and for
  nothing else (`ChargesMatchBets`). Orders follow the result of their own round
  (`OrdersMatchResult`); an ended settlement covers every accepted stake but the late ones
  (`SettlementComplete`); every settlement ends (`SettlementEnds`).
* `ws_manager`: two connections of one player (so that one replaces the other),
  replies, a service message, a broadcast, buffers of one. The map never holds a
  connection that has left (`EntriesAlive`); closed connections leave the map
  (`ClosedLeavesMap`) and both their pumps end (`PumpsEnd`).
* `redis_bets`: three requests of two players in two shards, one round, pops of one ID,
  calls and settlements that end anywhere. A bet is queued, held or ordered, never
  two of these (`SettledOnce`); a stored or ordered amount contains every stake once, those
  excepted that met another call or the settlement at work on a copy of the bet
  (`StakesWhole`); whatever was queued when the last `GetBetsForSettlement` began has an
  order (`NothingLeftBehind`); `GetState` shows a bet for every area with a confirmed bet
  until the round is cleared (`GetStateComplete`); settlements end (`SettlementEnds`).
* `service_client`: two calls, two addresses, one change of the registry, a queue of one
  and one worker, all faults. One connection per address (`DialedOnce`), one message
  per call and address (`SentOnce`), a cache that equals the registry when nothing is
  under way unless an older list overtook a newer one (`FreshUnlessOvertaken`), and
  calls that complete although lookups fail and tasks panic (`CallsComplete`).
* `user_service`: three requests of any kind, two names, two addresses, an empty table or
  one account, failing statements. Two registrations that succeed share neither name nor
  address (`RegisteredOnce`); a failed login leaves no session (`SessionsHaveOwners`); an
  ended session stays ended although a refresh writes it back (`NoSessionRevived`), and
  ends only by a logout with its current token or after its expiry
  (`SessionEndsRightly`).
* `cluster`: two requests, two instances, one round, lost calls, failing inserts, crashes.
  A confirmed bet exists where it was confirmed (`SuccessHasBet`); only stored bets are
  paid, and only at the instance that was told the result (`PayoutsPersisted`); an
  instance shows the bets it has confirmed (`ReadYourWrites`); every command is answered
  (`RequestsAnswered`).
* `ops_center`: a process running the main of GMS or of the user service, two collections
  with one file each, two registration attempts, two viewers in a table of two, all
  faults. No process is left with profiling on (`ProfilingOff`); a collecting call owns the
  CPU profile and the trace, and has its rates on unless another call has returned
  (`CollectorOwnsProfiles`). A process is not listed after it has deregistered, unless Nacos
  did not hear of it or the user service's goroutine registered once more
  (`UnlistedOnceDeregistered`); a main told to stop always has a next step, although a
  collection is under way (`ShutdownGoesOn`). No running viewer is missing from the table
  (`ViewersTracked`), and the viewer of a file that is not opened any more ends, although
  the other file is opened again and again (`ViewersEnd`).

Runs that find a disagreement between the code and what a document or a comment says of
it (quoted in `PROJECT.json`):

* `ws_reconnect` (`NewestReachable`): the README calls reconnection safe; the unregister of a
  replaced connection deletes the entry of the new one.
* `closed_round_bets` (`BetsAcceptedByGMS`): the GS document says that GMS decides whether a
  round takes bets; between processes the refusal is an error code that `PlaceBet` does not
  look at, and the bet is kept.
* `refused_stakes` (`ChargedForBetsOnly`): the GS document says that a transaction keeps
  deduction and order together; a bet refused by GMS after the deduction costs its stake
  (`gs/usecase/gs_uc.go:105`, with a TODO).
* `repeated_bets` (`RepeatedBetsAccumulate`): the same document says that repeated bets on an
  area accumulate; in Redis two concurrent updates write back copies of the same amount, and
  one confirmed stake is lost (`redis/bet_repo.go:145`).
Smaller differences and known behaviour met on the way, without a run of their own:

* Two concurrent calls on one area create two bets (`gs_uc.go:110`), while the document
  says one record per area; both are settled.
* A gracefully stopped machine can leave a round that `game_rounds` does not show as
  ended: its `ROUND_STARTED` came before the handler was registered, or `Create` was
  executed after `UpdateResult`.
* Bets at GS instances that are not told the result are not settled.
* The ops document says that the block and mutex rates are on while a service collects
  (`src/docs/cmd/ops/README.md:65`); the deferred clean-up of another call that returns
  switches them off (`src/pkg/admin/server.go:47`).
* The registration goroutine of the user service may list the address again after main has
  deregistered it (`src/cmd/color_game/microservices/user/main.go:95`), and without a Nacos
  client its deregistration is a nil dereference (`user/main.go:125`). The other mains
  register before they wait for the signal, and end without a client.
* SIGTERM during the registration loop, before `signal.Notify`, ends a process without
  deregistration (`src/cmd/color_game/microservices/gms/main.go:112`); an attempt that failed
  may have listed it, until Nacos misses its heartbeats.
* Deleting a folder of recordings leaves the viewers of its files in the table
  (`src/cmd/ops/main.go:680`): the keys are absolute paths and never match.
* Losers are notified personally too (`gs_uc.go:364`), while the GS document mentions
  winners; the GMS document says that a timed-out `GracefulShutdown` cancels the
  context, while the programs pass `context.Background()` to `Start`; the bet counters of
  past rounds are never deleted; `PlaceBet` checks neither the phase nor the amount
  itself; a failed subscription is retried only when the address cache is empty again.

**Bounds.** All bounds are constants: `MaxRounds`, `MaxFallback`, `MaxSends`,
`MaxBroadcasts`, `MaxChanges`, `MaxTime`, `MaxAttempts`, `MaxTools`, and the sizes of `Requests`,
`Conns`, `Callers`, `Calls`, `Collections`. Capacities are 1, so that "full" is reached at once, and `BatchSize` is 1, so that one settlement
has several batches. Two rounds are what a late push, a stale round ID or
overlapping settlements need, and two requests are what two bets on one area, or a bet
and a late stake, need; in `redis_bets` three requests are one bet with two concurrent
updates; two connections are what a replacement needs. One change of the registry, with the fetch, is enough for two
lists to overtake one another. In `cluster` two requests are a bet and what follows it (a
second bet, a state, an operator's question), and two instances are what a wrong one
needs; a third request adds no new pair of steps and is out of reach with liveness. In
`user_service` a login, a refresh and a logout are three calls, durations of one second
reach every expiry before `MaxTime`. In `ops_center` two collections are a winner and a
loser; two registration attempts are one retry; two files are one that is opened for ever
and one that is not. Of the mains it has GMS's, with the registration loop, deregistration and graceful stop
that the gateway and GS have in the same order, and the user service's, which registers
aside. The theorems about them hold for all five mains, any number of collections and any
size of the table (a third file evicts a session); `ShutdownGoesOn` is checked for these two
only. Each main, collection or file more multiplies the states. `MaxRounds`
and the number of requests only cut behaviours off, which is why these
configurations do not check for deadlock: a finished program stops.
`MaxFallback` makes an emission wait when that many fallback goroutines are
running, where the code would start another; with a queue of one, each of two
rounds still reaches the fallback.

**Fairness.** `GameMachine`: timers fire and goroutines that can run do run; the
calls of a handler return (`Running`). No fairness for main, bets or faults. No step of the
machine leads back to an earlier state and rounds are bounded, so every behaviour that is
fair in this sense comes to rest (`AtRest`); that something happens in the end is
therefore the invariant that it has happened wherever the machine is at rest, which is
how `StopCompletes` and `EventsShown` are stated. `BettingService`:
a started settlement goes on; its calls return or fail. `WsManager`: the Run loop
serves both channels, reads on a broken connection fail (read deadline), writes
end within the write deadline, the five-second timer fires. `RedisBets`: a started
settlement goes on until its process dies. `ServiceClient`: calls of the registry and of
instances return, delays end, submitted tasks are taken and executed. `Cluster`: a
request in progress is a goroutine whose calls return or fail. `OpsCenter`: the
clean-up monitor ticks and time passes; no collection has to end. That a shutdown goes on
is the invariant `ShutdownGoesOn`: the steps of main after the signal (its waits have timers)
are never all blocked, and each leaves main less to do. `UserService` states no liveness. Nobody has to connect, to bet or
to send.

## Proofs

The theorems hold for all values of the constants that satisfy the `ASSUME`s: any
number of players, requests, rounds, instances and connections, any batch size and
buffer capacity, any subset of the faults. The assumptions say only that bounds and
capacities are numbers (positive where the code needs it: queues, workers, batches),
that the values standing for "none" differ from real ones, that the requests of a
behaviour are finite in number where their stakes are added up (`BSRequests`, `RBRequests`), and,
for `UserService`, that the accounts there from the start are a finite set of rows
(`InitialRowsOK`). Every inductive invariant was first checked by TLC on the instance of the
component's run.

Every invariant and every action property that a passing run checks is also a theorem, the
refinement of `RoundClock` included; what is left to TLC is liveness and the three
invariants that speak of `ENABLED`.

What the proofs need of `RoundClock` (its types, that shown results and pushes stay) is at
the head of each module that needs it. So are the facts about sums: that
`SumFunctionOnSet` adds up the values at the elements of a finite set in whatever order,
can be split by a partition of it, and depends only on those values. The installed
provers cannot use the library's induction theorems, so these go by a smallest
counterexample: a set of subsets of a finite set has a smallest member (`SmallestSet`, from
the library's `WFMin`), and the smallest set for which a fact about sums failed would
have a smaller one for which it fails too. `OpsCenterProofs` treats the recursion over a
sequence in the same way, with a least prefix (`LeastNat`).

### GameMachineProofs

`MachineInv` has five parts. `LoopInRound`: where the goroutine of `runRound` is
determines the state of the round. `PoolDrains`: a worker leaves only when the queue is
closed and empty, and there is at most one task per live worker. `CallersInOrder`: the
round a caller asked about, the one it saw open and the current one are in that order.
`EventsInv`: the RESULT event of a round is in one place only, a slot of the queue or one
task (`ResultsOnce`); before the result is shown the round is neither ended nor pushed
(`NotBeforeResult`); handlers reach the database and GS only with events of a round
(`TasksInRound`). From it follow

* `DrainedOnReturn`: with `loop = "done"` no worker is left, so no task of one is;
* `CountedInBetting`, from `CallersInOrder`;
* `EndedIsFinal`: only a RESULT task writes a final row, there is one such task, and while
  it has to write, the row is not ended;
* `RefinesRoundClock`, proved action by action: `BeginRound` is `NewRound`;
  `StartBetting`, `BettingEnd`, `Draw` and `ShowResult` are the clock's steps of the same
  name; `PushResult` is `TellGS` (`ResultsOnce` gives that GS had not been told and that the
  event carries the colour drawn), all others stutter.

### BettingServiceProofs

`TypeCorrect` needs one more fact, `RoundKnown`: a request past its first step carries
the ID of a real round. `SettledOnce`, `PayoutsBacked`, `WinnersPaidBeforeNotice` and
`OrdersMatchResult` are not inductive alone. `SettlementInv` adds where a bet can
be: bets in the queue or in the hands of round r's settlement are saved bets that
carry r (`BetsSaved`), so two settlements never hold the same bet; a settlement
runs only for a result that was shown and pushed, which never changes
(`SettlementTold`); what has been done for the bets of a batch is determined by
the settlement's step (`BatchProgress`); an order follows its result from the
moment it is priced, with the torn case spelled out (`OrdersRight`). Saved bets,
shown results and arguments never change, which the lemmas `OkStays`,
`ShownStays`, `ToldStays` and `ColorStays` state once; then there is one lemma per
action and `SettlementInvStep` combines them.

`ChargesMatchBets` relates three sums: what the wallet has lost, the amounts of the bets and
the stakes of the calls without one. `BalanceInv`, which is inductive with the invariants
above, gives the first: a debit moves one request into the set whose stakes are deducted, a
deposit changes the payout of one bet, and a lemma about sums turns each into the change of
one balance (`DebitStep`, `DepositStep`). `StakesAdded` gives the second: a saved bet holds the
stakes of all the requests that went into it, so the bets of a player add up to the stakes
of his calls that ended well (`StakedIs`). The calls that were charged are those, the ones
under way and the ones refused (`ChargesThen`).

`SettlementComplete` is about two sums that range over different sets: the orders of an
area, and the requests accepted for it. `LedgerInv` connects them through the bet each
stake went into (`BetOf`). The repository and the calls that found a bet know only saved
bets of the right round and area (`BetsKnown`); the stakes of a bet that came in time are
in it, or in its order once that is made (`StakesKept`); such a bet is in the queue or in the
hands of the settlement until its order is stored (`NoneForgotten`); a settlement leaves its
loop with empty hands and nothing in time left in the queue (`EmptyHands`); and what came
too late stays out (`LateStaysOut`). Then the stakes of an area are partitioned by the bet
they went into, and each part is the amount of one stored order (`CompleteThen`).

### RedisBetsProofs

`RedisInv` gives `TypeOK` and `SettledOnce`. It says that a request that has not pushed its
ID has left no trace in the settlement (`NotYetPushed`), which is what makes the one push
per request enough, and that amounts are used only after they were read
(`AmountsKnown`). `SettledOnce` itself says under which key an ID can be: the queue of its
own round and its user's shard, so no two pops meet it.

`StoreInv` is about what the keys lead to. Only saved bets are indexed (`IndexInv`), pushed
and popped (`QueuedInv`); a saved bet has its data until the settlement of its round
clears it (`DataInv`); a bet pushed before the current pass of `GetBetsForSettlement` has its
order or waits in a shard that the pass has yet to visit (`ScansInv`). The last needs the
one before: a batch with no data at all would end the loop of `SettleRound` early, and
`DataInv` says that a popped batch never comes back empty-handed. From it follow
`NothingLeftBehind` and the action property `GetStateComplete`.

`StakesInv` extends `StakesWhole` to what is in flight: the amount a `PlaceBet` call has read
and is about to write back, and the amounts a settlement has fetched, are also a first
stake, the later ones that did not race and some of those that did, each once. A call writes
its own stake once, so it was not in the amount it read (`WholeMore`). If nobody holds a copy
then, the stake is from now on in every amount; if somebody does, it joins `raced`, and the
amounts that were possible stay possible (`WholesSame`).

### ClusterProofs

`ClusterInv`: a request which has made a bet, or has added to one, changes nothing but its
answer from then on (`RequestsInv`); a repository holds only bets made at its instance and
in their own round (`RepoInv`); a settlement belongs to one instance and pays only what it
has stored (`SettleInv`, `StoredInv`); and a bet leaves the repository of a running
instance only when the settlement of its round is done (`Holds`). From it follow
`SuccessHasBet`, `PayoutsPersisted` and the action property `ReadYourWrites`, with
instances crashing at any point.

### UserServiceProofs

`UserInv`: the record of a request fits the statement it is at (`CallsWellFormed`), a refresh
token is drawn by one login (`TokensUnique`), and the expiry of a session row, and of
what a `RefreshToken` has read of it, is the one its login gave it (`ExpiryFixed`).
`RegisteredOnce` is inductive with these: the unique keys of the table, not the checks
before the insert, keep it. `SessionsHaveOwners` follows from `ExpiryFixed`, and the action
properties `NoSessionRevived` and `SessionEndsRightly` go through the actions that write the
table: the insert of a login uses a token that no session had before, the update of a
refresh changes rows and adds none.

### ServiceClientProofs

`ClientInv`: a list with the registry's version is the registry's list (`ListsCurrent`);
once the client has subscribed, the latest change is in the cache or on its way, unless an
older list has overtaken it (`PushesFollow`); a message that was sent is in one place, the
queue, a task, arrived or lost (`OnePlace`), which needs that jobs and tasks are distinct and
that a call crosses off what it has sent. From it follow `DialedOnce`,
`FreshUnlessOvertaken` and `SentOnce`.

### WsManagerProofs

`TypeOK`, whose point is that no buffer exceeds its capacity, and `EntriesAlive`.

### OpsCenterProofs

Four inductive invariants.

`ProfilesOwned`: a profile that is on belongs to a call at that process which is at a step
that will turn it off, and the rates are on only where a call is active. The code stops
"the" CPU profile without knowing whose it is; the proof shows that it is always its own.
The end of a process takes calls and profiles together, a cancellation touches neither.
With `TypeOK` it gives `ProfilingOff`. `RatesHeld` says that the rates of a process are on
from a call's first step on, as long as no call has returned; the two give
`CollectorOwnsProfiles`.

`Listed`: what is left of a main is still in order (`register` before `deregister`, which
directly follows `wait`), as it is in the five lists the mains begin with; and an address that
Nacos lists belongs to a main that has yet to deregister it, or that died, or is in
`lingering`, which records the two ways in which an address outlives its deregistration: Nacos
did not hear of it, or the goroutine of the user service came after it (`TooLate`). A main
that was told to stop and is past `deregister` has no address listed otherwise, hence
`UnlistedOnceDeregistered`, for all five mains.

`TableInv`: the table holds viewers, is within its limit and has every running viewer. What
`Drop` leaves of a table is shown for every table (`DropLeaves`): no longer than before,
shorter if its first session goes, and with every session that was not to be dropped.
An eviction thus makes room, and only viewers that have ended or are killed in the same
step leave the table, hence `ViewersTracked`.

### Only model-checked

The liveness properties (`SettlementEnds` of both repositories, `ClosedLeavesMap`,
`PumpsEnd`, `CallsComplete`, `RequestsAnswered`, `ViewersEnd`) and what is said of states in
which nothing, or something, can go on (`StopCompletes`, `EventsShown`, `ShutdownGoesOn`): the
prover has no reasoning about fairness and `ENABLED`.

## Plan

Done, in this order: `RoundClock` and `GameMachine`, `BettingService`, `WsManager`,
`RedisBets`, `ServiceClient`; then `UserService`, `Cluster`, the processes and the ops centre,
`GetState`, the adapters of the gateway; then the proofs above: the settlement invariants
of both repositories, the connection map, `GameMachine` with its refinement of `RoundClock`,
`UserService`, `Cluster`, `ServiceClient`, and what the keys of Redis lead to; last, the
sums (`ChargesMatchBets`, `SettlementComplete`, `StakesWhole`) and the ops centre.

What could follow: an abstract ledger of bets (accepted, settled once) that
`BettingService` and `RedisBets` are both shown to implement.

## Not modelled

* The logger: formats, levels, request IDs and a buffered writer whose output no other
  part reads.
* Configuration, static files, HTTP routing, generated protobuf code: no state that
  changes.
* The test robot: a load generator; the commands it sends are those of players.
* The gRPC wallet client, and the ops centre's `GetBalance` and `AddBalance` on it: the
  wallet service they call is not in the repository. The ops centre's `GetCurrentRound`
  reads one value of GMS.
* Repository methods without a caller: `GetBets`, `GetByEmail`, `DeleteExpired`,
  `DeleteByUserID`, `BaseClient.Close`.
* That BetIDs are unique is assumed: every GS instance uses snowflake node 1
  (`color_game/gs/domain/bet.go:34`).
