----------------------------- MODULE GameMachine -----------------------------
(***************************************************************************)
(* The Game Manager Service of one process: the StateMachine loop that     *)
(* plays rounds, the job queue and worker pool that run its event          *)
(* handlers, GMSUseCase.handleGameEvent (the only handler the programs     *)
(* register), the game_rounds table it writes, the bet counting that GS    *)
(* calls, and the start-up and shutdown sequence of main.                  *)
(*                                                                         *)
(* Timers are abstracted to "the sleep may end now"; the one time relation *)
(* the code relies on is kept: the betting sleep ends after BettingEnd.    *)
(* Round IDs (second-granularity timestamps of rounds that last seconds)   *)
(* are numbers.                                                            *)
(*                                                                         *)
(* Definitions whose name starts with Bug are faulty variants of the       *)
(* definition that follows them; no specification uses them.               *)
(***************************************************************************)
EXTENDS Naturals, Sequences, FiniteSets

CONSTANTS Colors, NoColor,  \* drawResult's rewards; no result yet
          MaxRounds,        \* bound: rounds played in one behaviour
          QueueCap,         \* capacity of jobQueue (100 in the code)
          NumWorkers,       \* size of the worker pool (5 in the code)
          MaxFallback,      \* bound: fallback goroutines alive at a time
          Callers,          \* RecordBet calls in flight (each is one call)
          Faults            \* which external faults may happen, see FaultKinds

FaultKinds == {"cancel",    \* the context given to Start is cancelled
               "db",        \* a statement on game_rounds fails
               "gs",        \* the RoundResult call to GS fails
               "panic"}     \* the handler panics

ASSUME GMColors == NoColor \notin Colors
ASSUME GMBounds == /\ MaxRounds \in Nat
                   /\ QueueCap \in Nat \ {0}
                   /\ NumWorkers \in Nat \ {0}
                   /\ MaxFallback \in Nat \ {0}
ASSUME GMFaults == Faults \subseteq FaultKinds

VARIABLES
    roundId, state, expired,  \* currentRound: number, State, now >= BettingEnd
    drawn,                    \* drawn[r]: Result of round r
    loop,                     \* where the goroutine of Start is
    stopping, ctxDone,        \* the stop flag; the context is cancelled
    main,                     \* where the main goroutine is
    handler, gsSet,           \* handleGameEvent registered; gsBroadcaster set
    jobs,                     \* jobQueue
    workers,                  \* worker goroutines still alive
    tasks,                    \* handler calls being executed
    rows,                     \* the game_rounds table
    told,                     \* told[r]: RoundResult calls GS received for r
    betCount,                 \* GMSUseCase.betCount
    caller,                   \* the RecordBet calls
    due                       \* history: events emitted to the handler and
                              \* not yet broadcast, nor lost to a panic

roundVars == <<roundId, state, expired, drawn>>
mainVars  == <<main, stopping, ctxDone, handler, gsSet>>
poolVars  == <<jobs, workers, tasks, due>>
outVars   == <<rows, told>>
betVars   == <<betCount, caller>>
vars == <<roundVars, loop, mainVars, poolVars, outVars, betVars>>

Rounds == 1 .. MaxRounds

States == {"NONE", "ROUND_STARTED", "BETTING", "DRAWING", "RESULT"}

EventTypes == {"ROUND_STARTED", "BETTING", "DRAWING", "RESULT", "ROUND_ENDED",
               "STOPPED"}

Events == [type : EventTypes, round : 0 .. MaxRounds,
           data : Colors \cup {NoColor}]

\* One call of handleGameEvent; pool: run by a worker, not by a fallback
\* goroutine; step: what it does next.
Tasks == [ev : Events, step : {"broadcast", "db", "gs"}, pool : BOOLEAN]

Row == [status : {"absent", "InProgress", "Ended"}, total : Nat]

CallerPcs == {"idle", "asked", "open", "matched", "returned"}

Init ==
    /\ roundId = 0 /\ state = "NONE" /\ expired = FALSE
    /\ drawn = [r \in Rounds |-> NoColor]
    /\ loop = "top" /\ stopping = FALSE /\ ctxDone = FALSE
    /\ main = "register" /\ handler = FALSE /\ gsSet = FALSE
    /\ jobs = <<>> /\ workers = NumWorkers /\ tasks = {}
    /\ rows = [r \in Rounds |-> [status |-> "absent", total |-> 0]]
    /\ told = [r \in Rounds |-> <<>>]
    /\ betCount = [r \in Rounds |-> 0]
    /\ caller = [c \in Callers |-> [pc |-> "idle", rid |-> 0, seen |-> 0]]
    /\ due = {}

----------------------------------------------------------------------------
\* The main goroutine. Start was launched first, so the loop below already
\* runs while main is still wiring the handler and GS.

RegisterEventHandler == handler' = TRUE

\* NewGMSUseCase registers handleGameEvent.
NewGMSUseCase ==
    /\ main = "register"
    /\ main' = "setgs"
    /\ RegisterEventHandler
    /\ UNCHANGED <<roundVars, loop, stopping, ctxDone, gsSet, poolVars, outVars, betVars>>

SetGSService ==
    /\ main = "setgs"
    /\ main' = "serve"
    /\ gsSet' = TRUE
    /\ UNCHANGED <<roundVars, loop, stopping, ctxDone, handler, poolVars, outVars, betVars>>

\* GracefulShutdown: Stop() sets the flag, then main waits for doneChan.
Stop ==
    /\ main = "serve"
    /\ main' = "waiting"
    /\ stopping' = TRUE
    /\ UNCHANGED <<roundVars, loop, ctxDone, handler, gsSet, poolVars, outVars, betVars>>

\* ... and returns nil once doneChan is closed, or an error after the timeout.
GracefulShutdownReturns ==
    /\ main = "waiting"
    /\ \/ loop = "done" /\ main' = "returned"
       \/ loop # "done" /\ main' = "timedout"
    /\ UNCHANGED <<roundVars, loop, stopping, ctxDone, handler, gsSet, poolVars, outVars, betVars>>

Cancel ==
    /\ "cancel" \in Faults
    /\ ~ctxDone
    /\ ctxDone' = TRUE
    /\ UNCHANGED <<roundVars, loop, main, stopping, handler, gsSet, poolVars, outVars, betVars>>

----------------------------------------------------------------------------
\* The loop of Start and runRound. loop names the sleep the goroutine is in.

NewTask(e, isPool) == [ev |-> e, step |-> "broadcast", pool |-> isPool]

Fallbacks == {t \in tasks : ~t.pool}

\* emitEvent: a job for the pool, or a goroutine when the queue is full;
\* nothing while no handler is registered.
Emit(e) ==
    IF handler
    THEN /\ due' = due \cup {e}
         /\ IF Len(jobs) < QueueCap
            THEN jobs' = Append(jobs, e) /\ UNCHANGED tasks
            ELSE /\ Cardinality(Fallbacks) < MaxFallback
                 /\ tasks' = tasks \cup {NewTask(e, FALSE)} /\ UNCHANGED jobs
    ELSE UNCHANGED <<due, jobs, tasks>>

EmitInRound(type, data) == Emit([type |-> type, round |-> roundId, data |-> data])

\* Top of the loop: a new round under the lock, then ROUND_STARTED.
BeginRound ==
    /\ loop = "top" /\ ~ctxDone /\ ~stopping
    /\ roundId < MaxRounds
    /\ roundId' = roundId + 1
    /\ state' = "ROUND_STARTED"
    /\ expired' = FALSE
    /\ Emit([type |-> "ROUND_STARTED", round |-> roundId + 1, data |-> NoColor])
    /\ loop' = "wait"
    /\ UNCHANGED <<drawn, mainVars, workers, outVars, betVars>>

StartBetting ==
    /\ loop = "wait" /\ ~ctxDone
    /\ state' = "BETTING"
    /\ EmitInRound("BETTING", NoColor)
    /\ loop' = "betting"
    /\ UNCHANGED <<roundId, expired, drawn, mainVars, workers, outVars, betVars>>

\* The clock reaches round.BettingEnd.
BettingEnd ==
    /\ state = "BETTING" /\ ~expired
    /\ expired' = TRUE
    /\ UNCHANGED <<roundId, state, drawn, loop, mainVars, poolVars, outVars, betVars>>

\* Any of the colours.
drawResult == Colors

BugDrawEarly ==
    /\ loop = "betting" /\ ~ctxDone
    /\ state' = "DRAWING"
    /\ \E c \in drawResult : /\ drawn' = [drawn EXCEPT ![roundId] = c]
                             /\ EmitInRound("DRAWING", c)
    /\ loop' = "drawing"
    /\ UNCHANGED <<roundId, expired, mainVars, workers, outVars, betVars>>

\* The betting sleep ends no earlier than BettingEnd.
Draw ==
    /\ loop = "betting" /\ ~ctxDone /\ expired
    /\ state' = "DRAWING"
    /\ \E c \in drawResult : /\ drawn' = [drawn EXCEPT ![roundId] = c]
                             /\ EmitInRound("DRAWING", c)
    /\ loop' = "drawing"
    /\ UNCHANGED <<roundId, expired, mainVars, workers, outVars, betVars>>

ShowResult ==
    /\ loop = "drawing" /\ ~ctxDone
    /\ state' = "RESULT"
    /\ EmitInRound("RESULT", drawn[roundId])
    /\ loop' = "result"
    /\ UNCHANGED <<roundId, expired, drawn, mainVars, workers, outVars, betVars>>

\* ROUND_ENDED changes no field of the round.
EndRound ==
    /\ loop = "result" /\ ~ctxDone
    /\ EmitInRound("ROUND_ENDED", NoColor)
    /\ loop' = "rest"
    /\ UNCHANGED <<roundVars, mainVars, workers, outVars, betVars>>

Sleeps == {"wait", "betting", "drawing", "result", "rest"}

\* runRound returns: after the rest, or from any sleep once ctx is cancelled.
LeaveRound ==
    /\ loop \in Sleeps
    /\ ctxDone \/ loop = "rest"
    /\ loop' = "top"
    /\ UNCHANGED <<roundVars, mainVars, poolVars, outVars, betVars>>

BugExitLoop ==
    /\ loop = "top" /\ ctxDone
    /\ loop' = "closing"
    /\ UNCHANGED <<roundVars, mainVars, poolVars, outVars, betVars>>

\* Start leaves its loop: at once when ctx is cancelled, else with STOPPED
\* when the stop flag is set. The deferred shutdownWorkers closes the queue.
ExitLoop ==
    /\ loop = "top"
    /\ \/ ctxDone /\ UNCHANGED <<jobs, tasks, due>>
       \/ /\ ~ctxDone /\ stopping
          /\ Emit([type |-> "STOPPED", round |-> 0, data |-> NoColor])
    /\ loop' = "closing"
    /\ UNCHANGED <<roundVars, mainVars, workers, outVars, betVars>>

BugCloseDone ==
    /\ loop = "closing"
    /\ loop' = "done"
    /\ UNCHANGED <<roundVars, mainVars, poolVars, outVars, betVars>>

\* workerWg.Wait() returns, then doneChan is closed.
CloseDone ==
    /\ loop = "closing" /\ workers = 0
    /\ loop' = "done"
    /\ UNCHANGED <<roundVars, mainVars, poolVars, outVars, betVars>>

----------------------------------------------------------------------------
\* The worker pool and handleGameEvent.

PoolTasks == {t \in tasks : t.pool}

IdleWorker == workers > 0 /\ Cardinality(PoolTasks) < workers

\* A worker receives the next job.
TakeJob ==
    /\ jobs # <<>> /\ IdleWorker
    /\ tasks' = tasks \cup {NewTask(Head(jobs), TRUE)}
    /\ jobs' = Tail(jobs)
    /\ UNCHANGED <<roundVars, loop, mainVars, workers, due, outVars, betVars>>

\* An idle worker leaves `range jobQueue`: closed and empty.
WorkerExit ==
    /\ loop = "closing" /\ jobs = <<>> /\ IdleWorker
    /\ workers' = workers - 1
    /\ UNCHANGED <<roundVars, loop, mainVars, jobs, tasks, due, outVars, betVars>>

\* The step of handleGameEvent that follows step s for event e.
Following(e, s) ==
    IF s = "broadcast" /\ e.type \in {"ROUND_STARTED", "RESULT"} THEN "db"
    ELSE IF s = "db" /\ e.type = "RESULT" THEN "gs"
    ELSE "return"

\* Task t goes on to its next step, or returns.
Advance(t) ==
    LET next == Following(t.ev, t.step)
    IN  tasks' = (tasks \ {t}) \cup
                 (IF next = "return" THEN {} ELSE {[t EXCEPT !.step = next]})

\* handleGameEvent, first part: the gateway broadcast.
Broadcast(t) ==
    /\ t.step = "broadcast"
    /\ due' = due \ {t.ev}
    /\ Advance(t)
    /\ UNCHANGED <<roundVars, loop, mainVars, jobs, workers, outVars, betVars>>

\* GameRoundRepository.Create: a new row, refused if the key exists.
Create(r) ==
    rows' = IF rows[r].status = "absent"
            THEN [rows EXCEPT ![r] = [status |-> "InProgress", total |-> 0]]
            ELSE rows

\* GameRoundRepository.UpdateResult: UPDATE ... WHERE round_id; no row, no error.
UpdateResult(r) ==
    rows' = IF rows[r].status = "absent"
            THEN rows
            ELSE [rows EXCEPT ![r] = [status |-> "Ended", total |-> betCount[r]]]

BugUpdateDB(t) ==
    /\ t.step = "db"
    /\ rows' = [rows EXCEPT ![t.ev.round] =
                    [status |-> IF t.ev.type = "RESULT" THEN "Ended" ELSE "InProgress",
                     total |-> 0]]
    /\ Advance(t)
    /\ UNCHANGED <<roundVars, loop, mainVars, jobs, workers, due, told, betVars>>

\* Second part: the game_rounds table; its errors are ignored.
UpdateDB(t) ==
    /\ t.step = "db"
    /\ \/ "db" \in Faults /\ UNCHANGED rows
       \/ t.ev.type = "ROUND_STARTED" /\ Create(t.ev.round)
       \/ t.ev.type = "RESULT" /\ UpdateResult(t.ev.round)
    /\ Advance(t)
    /\ UNCHANGED <<roundVars, loop, mainVars, jobs, workers, due, told, betVars>>

\* Third part: RESULT is pushed to GS, if GS is set; the error is ignored.
PushResult(t) ==
    /\ t.step = "gs"
    /\ \/ (~gsSet \/ "gs" \in Faults) /\ UNCHANGED told
       \/ gsSet /\ told' = [told EXCEPT ![t.ev.round] = Append(@, t.ev.data)]
    /\ Advance(t)
    /\ UNCHANGED <<roundVars, loop, mainVars, jobs, workers, due, rows, betVars>>

BugPanic(t) ==
    /\ "panic" \in Faults
    /\ t.pool
    /\ due' = due \ {t.ev} /\ tasks' = tasks \ {t} /\ workers' = workers - 1
    /\ UNCHANGED <<roundVars, loop, mainVars, jobs, outVars, betVars>>

\* The handler panics in a worker, which recovers and goes on. (A fallback
\* goroutine has no recover: its panic ends the process, and so the behaviour.)
Panic(t) ==
    /\ "panic" \in Faults
    /\ t.pool
    /\ due' = due \ {t.ev} /\ tasks' = tasks \ {t}
    /\ UNCHANGED <<roundVars, loop, mainVars, jobs, workers, outVars, betVars>>

----------------------------------------------------------------------------
\* Bet counting: PlaceBet's GetCurrentRound followed by RecordBet, whose three
\* critical sections are separate.

CanAcceptBet == state = "BETTING" /\ ~expired

SetCaller(c, pc, rid, seen) ==
    /\ caller' = [caller EXCEPT ![c] = [pc |-> pc, rid |-> rid, seen |-> seen]]
    /\ UNCHANGED <<roundVars, loop, mainVars, poolVars, outVars>>

\* GetCurrentRound: the round ID the bet will carry.
AskRound(c) ==
    /\ caller[c].pc = "idle" /\ roundId # 0
    /\ SetCaller(c, "asked", roundId, 0)
    /\ UNCHANGED betCount

\* IncrementBetCount, first lock: CanAcceptBet. seen: the round it looked at.
CheckOpen(c) ==
    /\ caller[c].pc = "asked"
    /\ IF CanAcceptBet THEN SetCaller(c, "open", caller[c].rid, roundId)
                       ELSE SetCaller(c, "returned", 0, 0)
    /\ UNCHANGED betCount

BugCheckRound(c) ==
    /\ caller[c].pc = "open"
    /\ SetCaller(c, "matched", caller[c].rid, caller[c].seen)
    /\ UNCHANGED betCount

\* Second lock: the round ID must be the current one.
CheckRound(c) ==
    /\ caller[c].pc = "open"
    /\ IF roundId = caller[c].rid THEN SetCaller(c, "matched", caller[c].rid, caller[c].seen)
                                  ELSE SetCaller(c, "returned", 0, 0)
    /\ UNCHANGED betCount

\* Third lock: the bet is counted.
CountBet(c) ==
    /\ caller[c].pc = "matched"
    /\ betCount' = [betCount EXCEPT ![caller[c].rid] = @ + 1]
    /\ SetCaller(c, "returned", 0, 0)

----------------------------------------------------------------------------
MainNext == NewGMSUseCase \/ SetGSService \/ Stop \/ GracefulShutdownReturns \/ Cancel

LoopNext == BeginRound \/ StartBetting \/ Draw \/ ShowResult \/ EndRound
            \/ LeaveRound \/ ExitLoop \/ CloseDone

HandleStep(t) == Broadcast(t) \/ UpdateDB(t) \/ PushResult(t)

PoolNext == TakeJob \/ WorkerExit \/ \E t \in tasks : HandleStep(t)

CallerNext == \E c \in Callers : AskRound(c) \/ CheckOpen(c) \/ CheckRound(c) \/ CountBet(c)

Next == MainNext \/ LoopNext \/ BettingEnd \/ PoolNext
        \/ (\E t \in tasks : Panic(t)) \/ CallerNext

Spec == Init /\ [][Next]_vars

----------------------------------------------------------------------------
\* Properties.

\* When GracefulShutdown returns nil, no job is left in the queue or with a
\* worker (shutdownWorkers runs before doneChan is closed); only fallback
\* goroutines, which nobody waits for, may still be at work.
DrainedOnReturn == main = "returned" => jobs = <<>> /\ PoolTasks = {}

\* A bet that passes IncrementBetCount's checks was checked while its own round,
\* not a later one, was taking bets, although the check and the comparison of
\* round IDs are two critical sections.
CountedInBetting ==
    \A c \in Callers : caller[c].pc = "matched" => caller[c].seen = caller[c].rid

\* A round that game_rounds shows as Ended is never put back or rewritten, in
\* whatever order the workers execute its events.
EndedIsFinal ==
    [][\A r \in Rounds : rows[r].status = "Ended" => rows'[r] = rows[r]]_vars

\* The phase of the current round as RoundClock names it.
RoundPhase == CASE state = "NONE" -> "none"
                [] state = "ROUND_STARTED" -> "started"
                [] state = "BETTING" /\ ~expired -> "betting"
                [] state = "BETTING" /\ expired -> "closed"
                [] state = "DRAWING" -> "drawing"
                [] OTHER -> "result"

Clock == INSTANCE RoundClock WITH id <- roundId, phase <- RoundPhase, results <- drawn

\* The machine implements RoundClock: phases in order, no draw before the
\* betting deadline, each result pushed to GS at most once and unchanged.
RefinesRoundClock == Clock!ClockSpec

\* The steps that are bound to come: timers fire, the loop and every goroutine of the
\* pool get to run, and the calls of a handler (gateway, database, GS) return. Nothing
\* forces main to stop the machine, a caller to bet, or a fault to happen. No step
\* leads back to an earlier state, so the machine comes to rest.
Running == LoopNext \/ BettingEnd \/ PoolNext

AtRest == ~ENABLED Running

\* After Stop the machine comes to an end: the round finishes, the queue is
\* drained and doneChan closed, panicking handlers notwithstanding; it does not
\* come to rest anywhere else.
StopCompletes == AtRest /\ stopping => loop = "done"

\* Every event emitted to the handler is broadcast in the end, unless its
\* handler panics: the machine does not come to rest with events still due.
EventsShown == AtRest => due = {}

=============================================================================
