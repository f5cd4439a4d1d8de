-------------------------- MODULE GameMachineProofs --------------------------
(***************************************************************************)
(* Proofs about GameMachine, for any number of rounds, workers, queue      *)
(* slots and callers, and any faults: shutdown drains the pool, bets are   *)
(* counted in their own round, game_rounds rows are final, and the machine *)
(* implements RoundClock.                                                  *)
(***************************************************************************)
EXTENDS GameMachine, FiniteSetTheorems, TLAPS

Loops == {"top", "wait", "betting", "drawing", "result", "rest", "closing", "done"}

Mains == {"register", "setgs", "serve", "waiting", "returned", "timedout"}

TypeOK ==
    /\ roundId \in 0 .. MaxRounds /\ state \in States /\ expired \in BOOLEAN
    /\ drawn \in [Rounds -> Colors \cup {NoColor}]
    /\ loop \in Loops /\ stopping \in BOOLEAN /\ ctxDone \in BOOLEAN
    /\ main \in Mains /\ handler \in BOOLEAN /\ gsSet \in BOOLEAN
    /\ jobs \in Seq(Events) /\ workers \in 0 .. NumWorkers
    /\ tasks \subseteq Tasks /\ IsFiniteSet(tasks) /\ due \subseteq Events
    /\ rows \in [Rounds -> Row] /\ told \in [Rounds -> Seq(Colors \cup {NoColor})]
    /\ betCount \in [Rounds -> Nat]
    /\ caller \in [Callers -> [pc : CallerPcs, rid : 0 .. MaxRounds, seen : 0 .. MaxRounds]]

\* Where the loop is says what the round is doing; a new round begins only after the
\* result of the last one, unless the context is cancelled and none begins at all.
LoopInRound ==
    /\ state = "NONE" <=> roundId = 0
    /\ loop = "wait" => state = "ROUND_STARTED"
    /\ loop = "betting" => state = "BETTING"
    /\ loop = "drawing" => state = "DRAWING"
    /\ loop \in {"result", "rest"} => state = "RESULT"
    /\ loop = "top" /\ ~ctxDone => state \in {"NONE", "RESULT"}
    /\ state = "ROUND_STARTED" => ~expired

\* A worker leaves only when the queue is closed and empty, each has at most one
\* task, and main returns only after all of them.
PoolDrains ==
    /\ workers < NumWorkers => loop \in {"closing", "done"} /\ jobs = <<>>
    /\ Cardinality(PoolTasks) <= workers
    /\ loop = "done" => workers = 0
    /\ main = "returned" => loop = "done"

\* The round a caller asks for, the round it saw open and the current one are in
\* this order.
CallersInOrder ==
    \A c \in Callers :
        /\ caller[c].pc \in {"asked", "open", "matched"} => caller[c].rid \in 1 .. roundId
        /\ caller[c].pc = "open" => caller[c].rid <= caller[c].seen /\ caller[c].seen <= roundId
        /\ caller[c].pc = "matched" => caller[c].seen = caller[c].rid

\* Round r has reached its RESULT phase.
ResultShown(r) == r < roundId \/ (r = roundId /\ state = "RESULT")

IsResult(e) == e.type = "RESULT"

\* The events that carry the result of a shown round which GS has not been told, ...
Unpushed == {e \in Events : /\ e.round \in Rounds /\ ResultShown(e.round)
                            /\ e.data = drawn[e.round] /\ told[e.round] = <<>>}

\* ... and whose row has not been ended either.
Unended == {e \in Unpushed : rows[e.round].status # "Ended"}

\* The task still has to end the row of its RESULT event, or to push it to GS.
TaskPending(t) == t.ev \in Unpushed /\ (t.step # "gs" => t.ev \in Unended)

\* The RESULT event of a round is in one place: one slot of the queue or one task.
ResultsOnce ==
    /\ \A i \in DOMAIN jobs : IsResult(jobs[i]) => jobs[i] \in Unended
    /\ \A t \in tasks : IsResult(t.ev) => TaskPending(t)
    /\ \A i, j \in DOMAIN jobs :
         IsResult(jobs[i]) /\ IsResult(jobs[j]) /\ jobs[i].round = jobs[j].round => i = j
    /\ \A i \in DOMAIN jobs, t \in tasks :
         IsResult(jobs[i]) /\ IsResult(t.ev) => jobs[i].round # t.ev.round
    /\ \A t, u \in tasks : IsResult(t.ev) /\ IsResult(u.ev) /\ t.ev.round = u.ev.round => t = u

\* Before its result is shown a round is neither ended nor pushed to GS, ...
NotBeforeResult ==
    \A r \in Rounds : ~ResultShown(r) => told[r] = <<>> /\ rows[r].status # "Ended"

\* ... and a handler gets to the database and to GS only with events of a round.
TasksInRound ==
    /\ \A i \in DOMAIN jobs : jobs[i].type = "ROUND_STARTED" => jobs[i].round \in Rounds
    /\ \A t \in tasks :
         /\ t.ev.type = "ROUND_STARTED" => t.ev.round \in Rounds
         /\ t.step = "db" => t.ev.type \in {"ROUND_STARTED", "RESULT"}
         /\ t.step = "gs" => t.ev.type = "RESULT"

\* The parts of the invariant that speak of events.
EventsInv == ResultsOnce /\ NotBeforeResult /\ TasksInRound

\* The inductive invariant of the machine.
MachineInv == TypeOK /\ LoopInRound /\ PoolDrains /\ CallersInOrder /\ EventsInv

-----------------------------------------------------------------------------
(* What the steps do to the queue and the tasks.                           *)

\* A new task carries its event and begins with the broadcast of handleGameEvent.
LEMMA NewTaskType ==
    ASSUME NEW e \in Events, NEW b \in BOOLEAN
    PROVE  NewTask(e, b) \in Tasks /\ NewTask(e, b).ev = e /\ NewTask(e, b).pool = b
           /\ NewTask(e, b).step = "broadcast"
BY DEF NewTask, Tasks

\* emitEvent does nothing, or queues the event, or starts a fallback goroutine.
LEMMA EmitEffect ==
    ASSUME TypeOK, NEW e \in Events, Emit(e)
    PROVE  /\ due' \subseteq Events
           /\ \/ jobs' = jobs /\ tasks' = tasks
              \/ jobs' = Append(jobs, e) /\ tasks' = tasks
              \/ jobs' = jobs /\ tasks' = tasks \cup {NewTask(e, FALSE)}
BY DEF TypeOK, Emit

\* ... which leaves the types of the queue and the tasks, and the tasks of the
\* workers, as they are.
LEMMA EmitType ==
    ASSUME TypeOK, NEW e \in Events, Emit(e)
    PROVE  /\ jobs' \in Seq(Events) /\ tasks' \subseteq Tasks /\ IsFiniteSet(tasks')
           /\ due' \subseteq Events
           /\ PoolTasks' = PoolTasks
<1>1. jobs' \in Seq(Events) /\ due' \subseteq Events
  <2>1. jobs \in Seq(Events)
    BY DEF TypeOK
  <2>2. jobs' = jobs \/ jobs' = Append(jobs, e)
    BY EmitEffect
  <2>3. Append(jobs, e) \in Seq(Events)
    BY <2>1
  <2> QED
    BY <2>1, <2>2, <2>3, EmitEffect
<1>2. tasks' = tasks \/ tasks' = tasks \cup {NewTask(e, FALSE)}
  BY EmitEffect
<1>3. NewTask(e, FALSE) \in Tasks /\ ~NewTask(e, FALSE).pool
  BY NewTaskType
<1>4. IsFiniteSet(tasks')
  <2>1. IsFiniteSet(tasks)
    BY DEF TypeOK
  <2>2. IsFiniteSet(tasks \cup {NewTask(e, FALSE)})
    BY <2>1, FS_AddElement
  <2> QED
    BY <1>2, <2>1, <2>2
<1>5. PoolTasks' = PoolTasks
  BY <1>2, <1>3 DEF PoolTasks
<1> QED
  BY <1>1, <1>2, <1>3, <1>4, <1>5 DEF TypeOK

\* A handler that goes on replaces its task, by one of the same event and pool.
LEMMA AdvanceEffect ==
    ASSUME TypeOK, NEW t \in tasks, Advance(t)
    PROVE  \/ tasks' = tasks \ {t} /\ Following(t.ev, t.step) = "return"
           \/ \E u \in Tasks : /\ tasks' = (tasks \ {t}) \cup {u}
                               /\ u.ev = t.ev /\ u.pool = t.pool
                               /\ u.step = Following(t.ev, t.step)
<1>1. t \in Tasks
  BY DEF TypeOK
<1>2. CASE Following(t.ev, t.step) = "return"
  BY <1>2 DEF Advance
<1>3. CASE Following(t.ev, t.step) # "return"
  <2> DEFINE u == [t EXCEPT !.step = Following(t.ev, t.step)]
  <2>1. Following(t.ev, t.step) \in {"db", "gs"}
    BY <1>3 DEF Following
  <2>2. u \in Tasks /\ u.ev = t.ev /\ u.pool = t.pool /\ u.step = Following(t.ev, t.step)
    BY <1>1, <2>1 DEF Tasks
  <2>3. tasks' = (tasks \ {t}) \cup {u}
    BY <1>3 DEF Advance
  <2> QED
    BY <2>2, <2>3
<1> QED
  BY <1>2, <1>3

\* The workers have no more tasks than before when one goes on, returns or panics.
LEMMA PoolShrinks ==
    ASSUME TypeOK, NEW t \in tasks, NEW U \in SUBSET Tasks,
           tasks' = (tasks \ {t}) \cup U,
           U = {} \/ \E u \in Tasks : U = {u} /\ u.pool = t.pool
    PROVE  /\ tasks' \subseteq Tasks /\ IsFiniteSet(tasks')
           /\ Cardinality(PoolTasks') <= Cardinality(PoolTasks)
           /\ Cardinality(PoolTasks') \in Nat
<1>1. IsFiniteSet(tasks \ {t})
  BY FS_RemoveElement DEF TypeOK
<1>2. IsFiniteSet(tasks')
  <2>1. CASE U = {}
    <3>1. tasks' = tasks \ {t}
      BY <2>1
    <3> QED
      BY <1>1, <3>1
  <2>2. ASSUME NEW u \in Tasks, U = {u}
        PROVE  IsFiniteSet(tasks')
    <3>1. IsFiniteSet((tasks \ {t}) \cup {u})
      BY <1>1, FS_AddElement
    <3> QED
      BY <2>2, <3>1
  <2> QED
    BY <2>1, <2>2
<1>3. IsFiniteSet(PoolTasks) /\ IsFiniteSet(PoolTasks')
  BY <1>2, FS_Subset DEF TypeOK, PoolTasks
<1>4. Cardinality(PoolTasks) \in Nat /\ Cardinality(PoolTasks') \in Nat
  BY <1>3, FS_CardinalityType
<1>5. CASE U = {}
  <2>1. PoolTasks' \subseteq PoolTasks
    BY <1>5 DEF PoolTasks
  <2> QED
    BY <1>2, <1>3, <1>4, <2>1, FS_Subset DEF TypeOK
<1>6. ASSUME NEW u \in Tasks, U = {u}, u.pool = t.pool
      PROVE  Cardinality(PoolTasks') <= Cardinality(PoolTasks)
  <2>1. CASE ~t.pool
    <3>1. PoolTasks' \subseteq PoolTasks
      BY <1>6, <2>1 DEF PoolTasks
    <3> QED
      BY <1>3, <3>1, FS_Subset
  <2>2. CASE t.pool
    <3>1. PoolTasks' = (PoolTasks \ {t}) \cup {u} /\ t \in PoolTasks
      BY <1>6, <2>2 DEF PoolTasks
    <3>2. IsFiniteSet(PoolTasks \ {t}) /\ Cardinality(PoolTasks \ {t}) = Cardinality(PoolTasks) - 1
      BY <1>3, <3>1, FS_RemoveElement
    <3>3. Cardinality((PoolTasks \ {t}) \cup {u}) \in
             {Cardinality(PoolTasks \ {t}), Cardinality(PoolTasks \ {t}) + 1}
      BY <3>2, FS_AddElement
    <3> QED
      BY <1>4, <3>1, <3>2, <3>3
  <2> QED
    BY <2>1, <2>2 DEF TypeOK, Tasks
<1> QED
  BY <1>2, <1>4, <1>5, <1>6 DEF TypeOK

-----------------------------------------------------------------------------
(* The events of results: what the steps of the loop, the pool and the     *)
(* handlers preserve.                                                      *)

\* The round goes on: a result that has been shown stays shown, and as it was.
ResultsKept ==
    \A r \in Rounds : ResultShown(r) => ResultShown(r)' /\ drawn'[r] = drawn[r]

\* A step that changes neither the events under way nor what they lead to.
LEMMA EventsFrame ==
    ASSUME TypeOK, EventsInv, ResultsKept,
           UNCHANGED <<jobs, tasks, told, rows>>
    PROVE  EventsInv'
<1>1. Unpushed \subseteq Unpushed' /\ Unended \subseteq Unended'
  BY DEF Unpushed, Unended, ResultsKept
<1>2. ResultsOnce'
  BY <1>1 DEF EventsInv, ResultsOnce, TaskPending, IsResult
<1>3. NotBeforeResult' /\ TasksInRound'
  BY DEF EventsInv, NotBeforeResult, TasksInRound, ResultsKept
<1> QED
  BY <1>2, <1>3 DEF EventsInv

\* emitEvent: only the first RESULT event of a round is ever emitted.
LEMMA EmitEvents ==
    ASSUME TypeOK, EventsInv, ResultsKept, UNCHANGED <<told, rows>>,
           NEW e \in Events, Emit(e),
           e.type = "ROUND_STARTED" => e.round \in Rounds,
           IsResult(e) => /\ e.round \in Rounds /\ ~ResultShown(e.round)
                          /\ ResultShown(e.round)' /\ e.data = drawn'[e.round]
    PROVE  EventsInv'
<1>1. /\ Unpushed \subseteq Unpushed' /\ Unended \subseteq Unended' /\ Unended \subseteq Unpushed
      /\ IsResult(e) => \A f \in Unpushed : f.round # e.round
  BY DEF Unpushed, Unended, ResultsKept
<1>2. IsResult(e) => e \in Unpushed' /\ e \in Unended'
  BY DEF Unpushed, Unended, EventsInv, NotBeforeResult
<1>3. NotBeforeResult'
  BY DEF EventsInv, NotBeforeResult, ResultsKept
<1>4. CASE jobs' = jobs /\ tasks' = tasks
  BY <1>1, <1>3, <1>4 DEF EventsInv, ResultsOnce, TasksInRound, TaskPending, IsResult
<1>5. CASE jobs' = Append(jobs, e) /\ tasks' = tasks
  <2>1. jobs \in Seq(Events)
    BY DEF TypeOK
  <2>2. DOMAIN jobs' = DOMAIN jobs \cup {Len(jobs) + 1} /\ jobs'[Len(jobs) + 1] = e
        /\ Len(jobs) + 1 \notin DOMAIN jobs
    BY <1>5, <2>1
  <2>3. \A i \in DOMAIN jobs : jobs'[i] = jobs[i]
    BY <1>5, <2>1
  <2>4. TasksInRound'
    BY <1>5, <2>2, <2>3 DEF EventsInv, TasksInRound
  <2>5. \A i \in DOMAIN jobs' : IsResult(jobs'[i]) => jobs'[i] \in Unended'
    BY <1>1, <1>2, <2>2, <2>3 DEF EventsInv, ResultsOnce, TaskPending
  <2>6. \A t \in tasks : IsResult(t.ev) => TaskPending(t)'
    BY <1>1 DEF EventsInv, ResultsOnce, TaskPending
  <2>7. \A i, j \in DOMAIN jobs' :
          IsResult(jobs'[i]) /\ IsResult(jobs'[j]) /\ jobs'[i].round = jobs'[j].round => i = j
    BY <1>1, <2>2, <2>3 DEF EventsInv, ResultsOnce, TaskPending
  <2>8. \A i \in DOMAIN jobs', t \in tasks :
          IsResult(jobs'[i]) /\ IsResult(t.ev) => jobs'[i].round # t.ev.round
    BY <1>1, <2>2, <2>3 DEF EventsInv, ResultsOnce, TaskPending
  <2>9. ResultsOnce'
    BY <1>5, <2>5, <2>6, <2>7, <2>8 DEF EventsInv, ResultsOnce, IsResult
  <2> QED
    BY <1>3, <2>4, <2>9 DEF EventsInv
<1>6. CASE jobs' = jobs /\ tasks' = tasks \cup {NewTask(e, FALSE)}
  <2> PICK n : n = NewTask(e, FALSE)
    OBVIOUS
  <2>1. n.ev = e /\ n.step = "broadcast"
    BY NewTaskType
  <2>2. tasks' = tasks \cup {n} /\ jobs' = jobs
    BY <1>6
  <2>3. TasksInRound'
    BY <2>1, <2>2 DEF EventsInv, TasksInRound
  <2>4. \A i \in DOMAIN jobs : IsResult(jobs[i]) => jobs[i] \in Unended'
    BY <1>1 DEF EventsInv, ResultsOnce, TaskPending
  <2>5. \A t \in tasks' : IsResult(t.ev) => TaskPending(t)'
    BY <1>1, <1>2, <2>1, <2>2 DEF EventsInv, ResultsOnce, TaskPending
  <2>6. \A i \in DOMAIN jobs, t \in tasks' :
          IsResult(jobs[i]) /\ IsResult(t.ev) => jobs[i].round # t.ev.round
    BY <1>1, <2>1, <2>2 DEF EventsInv, ResultsOnce, TaskPending
  <2>7. \A t, u \in tasks' :
          IsResult(t.ev) /\ IsResult(u.ev) /\ t.ev.round = u.ev.round => t = u
    <3>1. \A t \in tasks : IsResult(t.ev) /\ IsResult(n.ev) => t.ev.round # n.ev.round
      BY <1>1, <2>1 DEF EventsInv, ResultsOnce, TaskPending
    <3>2. \A t, u \in tasks :
            IsResult(t.ev) /\ IsResult(u.ev) /\ t.ev.round = u.ev.round => t = u
      BY DEF EventsInv, ResultsOnce
    <3> SUFFICES ASSUME NEW t \in tasks', NEW u \in tasks',
                        IsResult(t.ev), IsResult(u.ev), t.ev.round = u.ev.round
                 PROVE  t = u
      OBVIOUS
    <3>3. t \in tasks \/ t = n
      BY <2>2
    <3>4. u \in tasks \/ u = n
      BY <2>2
    <3> QED
      BY <3>1, <3>2, <3>3, <3>4
  <2>8. ResultsOnce'
    BY <2>2, <2>4, <2>5, <2>6, <2>7 DEF EventsInv, ResultsOnce, IsResult
  <2> QED
    BY <1>3, <2>3, <2>8 DEF EventsInv
<1> QED
  BY <1>4, <1>5, <1>6, EmitEffect

\* A worker moves the event at the head of the queue into a task.
LEMMA TakeEvents ==
    ASSUME TypeOK, EventsInv, TakeJob
    PROVE  EventsInv'
<1> PICK n : n = NewTask(Head(jobs), TRUE)
  OBVIOUS
<1>1. jobs \in Seq(Events) /\ jobs # <<>> /\ jobs' = Tail(jobs)
  BY DEF TypeOK, TakeJob
<1>2. 1 \in DOMAIN jobs /\ Head(jobs) = jobs[1] /\ Head(jobs) \in Events
  BY <1>1
<1>3. \A i \in DOMAIN jobs' : i + 1 \in DOMAIN jobs /\ jobs'[i] = jobs[i + 1] /\ i + 1 # 1
                              /\ i \in Nat
  BY <1>1
<1>4. n.ev = jobs[1] /\ n.step = "broadcast"
  BY <1>2, NewTaskType
<1>5. tasks' = tasks \cup {n}
  BY DEF TakeJob
<1>6. Unpushed' = Unpushed /\ Unended' = Unended /\ Unended \subseteq Unpushed
  BY DEF TakeJob, roundVars, outVars, Unpushed, Unended, ResultShown
<1>7. NotBeforeResult'
  BY DEF TakeJob, roundVars, outVars, EventsInv, NotBeforeResult, ResultShown
<1>8. TasksInRound'
  BY <1>2, <1>3, <1>4, <1>5 DEF EventsInv, TasksInRound
<1>9. ResultsOnce'
  <2>1. \A i \in DOMAIN jobs' : IsResult(jobs'[i]) => jobs'[i] \in Unended'
    BY <1>3, <1>6 DEF EventsInv, ResultsOnce, TaskPending
  <2>2. \A t \in tasks' : IsResult(t.ev) => TaskPending(t)'
    <3>1. \A t \in tasks : IsResult(t.ev) => TaskPending(t)'
      BY <1>6 DEF EventsInv, ResultsOnce, TaskPending
    <3>2. IsResult(n.ev) => TaskPending(n)'
      BY <1>2, <1>4, <1>6 DEF EventsInv, ResultsOnce, TaskPending
    <3> QED
      BY <1>5, <3>1, <3>2 DEF IsResult
  <2>3. \A i, j \in DOMAIN jobs' :
          IsResult(jobs'[i]) /\ IsResult(jobs'[j]) /\ jobs'[i].round = jobs'[j].round => i = j
    <3> SUFFICES ASSUME NEW i \in DOMAIN jobs', NEW j \in DOMAIN jobs',
                        IsResult(jobs'[i]), IsResult(jobs'[j]), jobs'[i].round = jobs'[j].round
                 PROVE  i = j
      OBVIOUS
    <3>1. i + 1 = j + 1
      BY <1>3 DEF EventsInv, ResultsOnce, TaskPending
    <3> QED
      BY <1>3, <3>1
  <2>4. \A i \in DOMAIN jobs', t \in tasks' :
          IsResult(jobs'[i]) /\ IsResult(t.ev) => jobs'[i].round # t.ev.round
    <3> SUFFICES ASSUME NEW i \in DOMAIN jobs', NEW t \in tasks',
                        IsResult(jobs'[i]), IsResult(t.ev)
                 PROVE  jobs'[i].round # t.ev.round
      OBVIOUS
    <3>1. CASE t \in tasks
      BY <1>3, <3>1 DEF EventsInv, ResultsOnce
    <3>2. CASE t = n
      BY <1>2, <1>3, <1>4, <3>2 DEF EventsInv, ResultsOnce
    <3> QED
      BY <1>5, <3>1, <3>2
  <2>5. \A t, u \in tasks' :
          IsResult(t.ev) /\ IsResult(u.ev) /\ t.ev.round = u.ev.round => t = u
    <3>1. \A t \in tasks : IsResult(t.ev) /\ IsResult(n.ev) => t.ev.round # n.ev.round
      BY <1>2, <1>4 DEF EventsInv, ResultsOnce, TaskPending
    <3>2. \A t, u \in tasks :
            IsResult(t.ev) /\ IsResult(u.ev) /\ t.ev.round = u.ev.round => t = u
      BY DEF EventsInv, ResultsOnce
    <3> QED
      <4> SUFFICES ASSUME NEW t \in tasks \cup {n}, NEW u \in tasks \cup {n},
                          IsResult(t.ev), IsResult(u.ev), t.ev.round = u.ev.round
                   PROVE  t = u
        BY <1>5
      <4>1. CASE t \in tasks /\ u \in tasks
        BY <4>1, <3>2
      <4>2. CASE t = n \/ u = n
        BY <4>2, <3>1
      <4> QED
        BY <4>1, <4>2
  <2> QED
    BY <2>1, <2>2, <2>3, <2>4, <2>5 DEF ResultsOnce, IsResult
<1> QED
  BY <1>7, <1>8, <1>9 DEF EventsInv

\* A handler's step ends its task t or goes on with task u for the same event; it
\* touches the row and the messages of a round only for the RESULT event of it.
LEMMA TaskEvents ==
    ASSUME TypeOK, EventsInv, UNCHANGED <<roundVars, jobs>>,
           NEW t \in tasks, NEW U,
           tasks' = (tasks \ {t}) \cup U,
           \A u \in U : /\ u.ev = t.ev
                        /\ u.step = "db" => t.ev.type \in {"ROUND_STARTED", "RESULT"}
                        /\ u.step = "gs" => t.ev.type = "RESULT"
                        /\ IsResult(t.ev) => /\ told'[t.ev.round] = told[t.ev.round]
                                             /\ u.step # "gs" => t.step # "gs" /\ rows' = rows
                        /\ U = {u},
           \A r \in Rounds :
               \/ IsResult(t.ev) /\ r = t.ev.round
               \/ /\ told'[r] = told[r]
                  /\ rows'[r].status = "Ended" => rows[r].status = "Ended"
    PROVE  EventsInv'
<1>1. \A r : ResultShown(r)' <=> ResultShown(r)
  BY DEF roundVars, ResultShown
<1>2. drawn' = drawn /\ jobs' = jobs
  BY DEF roundVars
<1>3. NotBeforeResult'
  <2>1. IsResult(t.ev) => ResultShown(t.ev.round)
    BY DEF EventsInv, ResultsOnce, TaskPending, Unpushed
  <2> QED
    BY <1>1, <2>1 DEF EventsInv, NotBeforeResult
<1>4. TasksInRound'
  BY <1>2 DEF EventsInv, TasksInRound
<1>5. \A f \in Unpushed : ~(IsResult(t.ev) /\ f.round = t.ev.round) =>
          f \in Unpushed' /\ (f \in Unended => f \in Unended')
  BY <1>1, <1>2 DEF Unpushed, Unended
<1>6. \A i \in DOMAIN jobs : IsResult(jobs[i]) => jobs[i] \in Unended'
  <2>1. Unended \subseteq Unpushed
    BY DEF Unended
  <2> QED
    BY <1>5, <2>1 DEF EventsInv, ResultsOnce
<1>7. \A v \in tasks \ {t} : IsResult(v.ev) => TaskPending(v)'
  BY <1>5 DEF EventsInv, ResultsOnce, TaskPending
<1>8. \A u \in U : IsResult(u.ev) => TaskPending(u)'
  BY <1>1, <1>2 DEF EventsInv, ResultsOnce, TaskPending, Unpushed, Unended
<1>9. \A v \in tasks' : IsResult(v.ev) => TaskPending(v)'
  BY <1>7, <1>8
<1>10. \A i \in DOMAIN jobs, v \in tasks' :
          IsResult(jobs[i]) /\ IsResult(v.ev) => jobs[i].round # v.ev.round
  BY DEF EventsInv, ResultsOnce, TaskPending
<1>11. \A v, w \in tasks' :
          IsResult(v.ev) /\ IsResult(w.ev) /\ v.ev.round = w.ev.round => v = w
  BY DEF EventsInv, ResultsOnce, TaskPending
<1>12. ResultsOnce'
  BY <1>2, <1>6, <1>9, <1>10, <1>11 DEF EventsInv, ResultsOnce, IsResult
<1> QED
  BY <1>3, <1>4, <1>12 DEF EventsInv

-----------------------------------------------------------------------------
(* MachineInv is inductive: the initial state, main, the loop, the pool    *)
(* and the callers.                                                        *)

\* The machine before main has started anything.
LEMMA MachineInit == Init => MachineInv
<1> SUFFICES ASSUME Init
             PROVE  MachineInv
  OBVIOUS
<1>1. IsFiniteSet(tasks) /\ Cardinality(PoolTasks) = 0
  <2>1. tasks = {} /\ PoolTasks = {}
    BY DEF Init, PoolTasks
  <2> QED
    BY <2>1, FS_EmptySet
<1>2. TypeOK
  <2>1. roundId \in 0 .. MaxRounds /\ workers \in 0 .. NumWorkers
    BY GMBounds DEF Init
  <2>2. jobs \in Seq(Events) /\ rows \in [Rounds -> Row]
        /\ told \in [Rounds -> Seq(Colors \cup {NoColor})]
    BY DEF Init, Row
  <2>3. caller \in [Callers -> [pc : CallerPcs, rid : 0 .. MaxRounds, seen : 0 .. MaxRounds]]
    BY GMBounds DEF Init, CallerPcs
  <2> QED
    BY <1>1, <2>1, <2>2, <2>3 DEF Init, TypeOK, Loops, Mains, States
<1>3. LoopInRound /\ CallersInOrder
  BY DEF Init, LoopInRound, CallersInOrder
<1>4. PoolDrains
  BY <1>1, GMBounds DEF Init, PoolDrains
<1>5. EventsInv
  BY DEF Init, EventsInv, ResultsOnce, NotBeforeResult, TasksInRound
<1> QED
  BY <1>2, <1>3, <1>4, <1>5 DEF MachineInv

\* Rounds only go up, so the callers stay in order while they do nothing.
LEMMA CallersKept ==
    ASSUME TypeOK, CallersInOrder, caller' = caller,
           roundId' \in Nat, roundId <= roundId'
    PROVE  CallersInOrder'
BY DEF TypeOK, CallersInOrder

\* While the loop plays rounds, all the workers are there.
LEMMA PoolKept ==
    ASSUME TypeOK, PoolDrains, loop \notin {"closing", "done"}, loop' # "done",
           main' = main, workers' = workers, PoolTasks' = PoolTasks
    PROVE  PoolDrains'
BY DEF TypeOK, PoolDrains

\* The main goroutine and the context touch neither rounds nor events.
LEMMA MainStep ==
    ASSUME MachineInv, MainNext
    PROVE  MachineInv'
<1> USE DEF roundVars, mainVars, poolVars, outVars, betVars
<1>1. UNCHANGED <<roundVars, loop, poolVars, outVars, betVars>>
  BY DEF MainNext, NewGMSUseCase, SetGSService, Stop, GracefulShutdownReturns, Cancel
<1>2. TypeOK'
  BY <1>1 DEF MachineInv, TypeOK, MainNext, NewGMSUseCase, SetGSService, Stop, Mains,
              GracefulShutdownReturns, Cancel, RegisterEventHandler
<1>3. ctxDone => ctxDone'
  BY DEF MainNext, NewGMSUseCase, SetGSService, Stop, GracefulShutdownReturns, Cancel
<1>4. LoopInRound'
  BY <1>1, <1>3 DEF MachineInv, LoopInRound, TypeOK
<1>5. PoolDrains'
  <2>1. main' = "returned" => loop = "done"
    BY DEF MachineInv, PoolDrains, MainNext, NewGMSUseCase, SetGSService, Stop,
           GracefulShutdownReturns, Cancel
  <2> QED
    BY <1>1, <2>1 DEF MachineInv, PoolDrains, PoolTasks
<1>6. CallersInOrder'
  BY <1>1, CallersKept DEF MachineInv, TypeOK
<1>7. EventsInv'
  <2>1. ResultsKept
    BY <1>1 DEF ResultsKept, ResultShown
  <2> QED
    BY <1>1, <2>1, EventsFrame DEF MachineInv
<1> QED
  BY <1>2, <1>4, <1>5, <1>6, <1>7 DEF MachineInv

\* A step of the loop that emits an event of the round it is in, or goes to.
LEMMA EmitStep ==
    ASSUME MachineInv, NEW e \in Events, Emit(e),
           e.type = "ROUND_STARTED" => e.round \in Rounds,
           IsResult(e) => /\ e.round \in Rounds /\ ~ResultShown(e.round)
                          /\ ResultShown(e.round)' /\ e.data = drawn'[e.round],
           roundId' \in 0 .. MaxRounds, roundId <= roundId',
           state' \in States, expired' \in BOOLEAN,
           drawn' \in [Rounds -> Colors \cup {NoColor}],
           loop' \in Loops, loop \notin {"closing", "done"}, loop' # "done",
           ResultsKept, LoopInRound',
           UNCHANGED <<mainVars, workers, outVars, betVars>>
    PROVE  MachineInv'
<1>1. TypeOK /\ LoopInRound /\ PoolDrains /\ CallersInOrder /\ EventsInv
  BY DEF MachineInv
<1>2. TypeOK'
  <2>1. /\ jobs' \in Seq(Events) /\ tasks' \subseteq Tasks /\ IsFiniteSet(tasks')
        /\ due' \subseteq Events
    BY <1>1, EmitType
  <2> QED
    BY <1>1, <2>1 DEF TypeOK, mainVars, outVars, betVars
<1>3. PoolDrains'
  BY <1>1, EmitType, PoolKept DEF mainVars
<1>4. CallersInOrder'
  BY <1>1, CallersKept, GMBounds DEF betVars
<1>5. EventsInv'
  BY <1>1, EmitEvents DEF outVars
<1> QED
  BY <1>2, <1>3, <1>4, <1>5 DEF MachineInv

\* The loop: one round after another, then STOPPED and the wait for the workers.
LEMMA LoopStep ==
    ASSUME MachineInv, LoopNext \/ BettingEnd
    PROVE  MachineInv'
<1>1. TypeOK /\ LoopInRound /\ PoolDrains /\ CallersInOrder /\ EventsInv
  BY DEF MachineInv
<1>2. roundId \in Nat /\ MaxRounds \in Nat
  BY <1>1, GMBounds DEF TypeOK
<1>3. state \notin {"NONE"} => roundId \in Rounds
  BY <1>1, <1>2 DEF LoopInRound, TypeOK, Rounds
<1>4. CASE BeginRound
  <2> PICK e : e = [type |-> "ROUND_STARTED", round |-> roundId + 1, data |-> NoColor]
    OBVIOUS
  <2>1. roundId + 1 \in Rounds /\ roundId' = roundId + 1
    BY <1>2, <1>4 DEF BeginRound, Rounds
  <2>2. e \in Events /\ Emit(e) /\ e.type = "ROUND_STARTED" /\ e.round = roundId + 1
    BY <1>4, <2>1 DEF BeginRound, Events, EventTypes, Rounds
  <2>3. ~IsResult(e)
    BY <2>2 DEF IsResult
  <2>4. ResultsKept
    BY <1>2, <1>4, <2>1 DEF BeginRound, ResultsKept, ResultShown, Rounds
  <2>5. LoopInRound'
    BY <1>2, <1>4 DEF BeginRound, LoopInRound
  <2>6. roundId' \in 0 .. MaxRounds /\ roundId <= roundId' /\ state' \in States
        /\ expired' \in BOOLEAN /\ drawn' \in [Rounds -> Colors \cup {NoColor}]
        /\ loop' \in Loops /\ loop \notin {"closing", "done"} /\ loop' # "done"
    <3>1. roundId' \in 0 .. MaxRounds /\ roundId <= roundId'
      BY <1>2, <2>1 DEF Rounds
    <3> QED
      BY <1>1, <1>4, <3>1 DEF BeginRound, States, Loops, TypeOK
  <2>7. UNCHANGED <<mainVars, workers, outVars, betVars>>
    BY <1>4 DEF BeginRound
  <2> QED
    BY <2>1, <2>2, <2>3, <2>4, <2>5, <2>6, <2>7, EmitStep
<1>5. CASE StartBetting
  <2> PICK e : e = [type |-> "BETTING", round |-> roundId, data |-> NoColor]
    OBVIOUS
  <2>1. e \in Events /\ Emit(e) /\ e.type = "BETTING"
    BY <1>1, <1>5 DEF StartBetting, EmitInRound, Events, EventTypes, TypeOK
  <2>2. ~IsResult(e) /\ e.type # "ROUND_STARTED"
    BY <2>1 DEF IsResult
  <2>3. ResultsKept
    BY <1>1, <1>5 DEF StartBetting, ResultsKept, ResultShown, LoopInRound
  <2>4. LoopInRound'
    BY <1>1, <1>5 DEF StartBetting, LoopInRound
  <2>5. roundId' \in 0 .. MaxRounds /\ roundId <= roundId' /\ state' \in States
        /\ expired' \in BOOLEAN /\ drawn' \in [Rounds -> Colors \cup {NoColor}]
        /\ loop' \in Loops /\ loop \notin {"closing", "done"} /\ loop' # "done"
    BY <1>1, <1>2, <1>5 DEF StartBetting, States, Loops, TypeOK
  <2>6. UNCHANGED <<mainVars, workers, outVars, betVars>>
    BY <1>5 DEF StartBetting
  <2> QED
    BY <2>1, <2>2, <2>3, <2>4, <2>5, <2>6, EmitStep
<1>6. CASE BettingEnd
  <2>1. UNCHANGED <<roundId, state, drawn, loop, mainVars, poolVars, outVars, betVars>>
        /\ expired' = TRUE /\ state = "BETTING"
    BY <1>6 DEF BettingEnd
  <2>2. TypeOK'
    BY <1>1, <2>1 DEF TypeOK, mainVars, poolVars, outVars, betVars
  <2>3. LoopInRound' /\ PoolDrains'
    BY <1>1, <2>1 DEF LoopInRound, PoolDrains, PoolTasks, mainVars, poolVars
  <2>4. CallersInOrder'
    BY <1>1, <1>2, <2>1, CallersKept DEF betVars
  <2>5. ResultsKept
    BY <2>1 DEF ResultsKept, ResultShown
  <2>6. EventsInv'
    BY <1>1, <2>1, <2>5, EventsFrame DEF poolVars, outVars
  <2> QED
    BY <2>2, <2>3, <2>4, <2>6 DEF MachineInv
<1>7. CASE Draw
  <2>1. PICK c \in Colors : drawn' = [drawn EXCEPT ![roundId] = c] /\ EmitInRound("DRAWING", c)
    BY <1>7 DEF Draw, drawResult
  <2> PICK e : e = [type |-> "DRAWING", round |-> roundId, data |-> c]
    OBVIOUS
  <2>2. e \in Events /\ Emit(e) /\ e.type = "DRAWING"
    BY <1>1, <2>1 DEF EmitInRound, Events, EventTypes, TypeOK
  <2>3. ~IsResult(e) /\ e.type # "ROUND_STARTED"
    BY <2>2 DEF IsResult
  <2>4. ResultsKept
    BY <1>1, <1>2, <1>7, <2>1 DEF Draw, ResultsKept, ResultShown, LoopInRound, TypeOK, Rounds
  <2>5. LoopInRound'
    BY <1>1, <1>7 DEF Draw, LoopInRound
  <2>6. roundId' \in 0 .. MaxRounds /\ roundId <= roundId' /\ state' \in States
        /\ expired' \in BOOLEAN /\ drawn' \in [Rounds -> Colors \cup {NoColor}]
        /\ loop' \in Loops /\ loop \notin {"closing", "done"} /\ loop' # "done"
    <3>1. drawn \in [Rounds -> Colors \cup {NoColor}]
      BY <1>1 DEF TypeOK
    <3>2. drawn' \in [Rounds -> Colors \cup {NoColor}]
      BY <2>1, <3>1
    <3> QED
      BY <1>1, <1>2, <1>7, <3>2 DEF Draw, States, Loops, TypeOK
  <2>7. UNCHANGED <<mainVars, workers, outVars, betVars>>
    BY <1>7 DEF Draw
  <2> QED
    BY <2>2, <2>3, <2>4, <2>5, <2>6, <2>7, EmitStep
<1>8. CASE ShowResult
  <2> PICK e : e = [type |-> "RESULT", round |-> roundId, data |-> drawn[roundId]]
    OBVIOUS
  <2>1. state = "DRAWING" /\ roundId \in Rounds
    BY <1>1, <1>3, <1>8 DEF ShowResult, LoopInRound
  <2>2. drawn[roundId] \in Colors \cup {NoColor}
    BY <1>1, <2>1 DEF TypeOK
  <2>3. e \in Events /\ Emit(e) /\ e.type = "RESULT" /\ e.round = roundId
        /\ e.data = drawn[roundId]
    BY <1>1, <1>8, <2>2 DEF ShowResult, EmitInRound, Events, EventTypes, TypeOK
  <2>4. roundId' = roundId /\ drawn' = drawn /\ state' = "RESULT"
    BY <1>8 DEF ShowResult
  <2>5. ~ResultShown(e.round) /\ ResultShown(e.round)' /\ e.data = drawn'[e.round]
    BY <1>2, <2>1, <2>3, <2>4 DEF ResultShown
  <2>6. ResultsKept
    BY <2>1, <2>4 DEF ResultsKept, ResultShown
  <2>7. LoopInRound'
    BY <1>1, <1>8, <2>1 DEF ShowResult, LoopInRound
  <2>8. roundId' \in 0 .. MaxRounds /\ roundId <= roundId' /\ state' \in States
        /\ expired' \in BOOLEAN /\ drawn' \in [Rounds -> Colors \cup {NoColor}]
        /\ loop' \in Loops /\ loop \notin {"closing", "done"} /\ loop' # "done"
    BY <1>1, <1>2, <1>8 DEF ShowResult, States, Loops, TypeOK
  <2>9. UNCHANGED <<mainVars, workers, outVars, betVars>>
    BY <1>8 DEF ShowResult
  <2> QED
    BY <2>1, <2>3, <2>5, <2>6, <2>7, <2>8, <2>9, EmitStep
<1>9. CASE EndRound
  <2> PICK e : e = [type |-> "ROUND_ENDED", round |-> roundId, data |-> NoColor]
    OBVIOUS
  <2>1. e \in Events /\ Emit(e) /\ e.type = "ROUND_ENDED"
    BY <1>1, <1>9 DEF EndRound, EmitInRound, Events, EventTypes, TypeOK
  <2>2. ~IsResult(e) /\ e.type # "ROUND_STARTED"
    BY <2>1 DEF IsResult
  <2>3. UNCHANGED <<roundVars, mainVars, workers, outVars, betVars>> /\ loop = "result"
        /\ loop' = "rest"
    BY <1>9 DEF EndRound
  <2>4. ResultsKept
    BY <2>3 DEF ResultsKept, ResultShown, roundVars
  <2>5. LoopInRound'
    BY <1>1, <2>3 DEF LoopInRound, roundVars, mainVars
  <2>6. roundId' \in 0 .. MaxRounds /\ roundId <= roundId' /\ state' \in States
        /\ expired' \in BOOLEAN /\ drawn' \in [Rounds -> Colors \cup {NoColor}]
        /\ loop' \in Loops /\ loop \notin {"closing", "done"} /\ loop' # "done"
    BY <1>1, <1>2, <2>3 DEF Loops, TypeOK, roundVars
  <2> QED
    BY <2>1, <2>2, <2>3, <2>4, <2>5, <2>6, EmitStep
<1>10. CASE LeaveRound \/ (ExitLoop /\ UNCHANGED <<jobs, tasks, due>>) \/ CloseDone
  <2>1. UNCHANGED <<roundVars, mainVars, poolVars, outVars, betVars>>
    BY <1>10 DEF LeaveRound, ExitLoop, CloseDone, poolVars
  <2>2. TypeOK'
    BY <1>1, <1>10, <2>1 DEF TypeOK, LeaveRound, ExitLoop, CloseDone, Loops,
                             roundVars, mainVars, poolVars, outVars, betVars
  <2>3. LoopInRound'
    BY <1>1, <1>10, <2>1 DEF LoopInRound, LeaveRound, ExitLoop, CloseDone, Sleeps,
                             roundVars, mainVars
  <2>4. PoolDrains'
    <3>1. PoolTasks' = PoolTasks
      BY <2>1 DEF PoolTasks, poolVars
    <3>2. CASE LeaveRound \/ ExitLoop
      <4>1. loop \notin {"closing", "done"} /\ loop' # "done"
        BY <3>2 DEF LeaveRound, ExitLoop, Sleeps
      <4> QED
        BY <1>1, <2>1, <3>1, <4>1, PoolKept DEF mainVars, poolVars
    <3>3. CASE CloseDone
      BY <1>1, <2>1, <3>1, <3>3 DEF PoolDrains, CloseDone, mainVars, poolVars
    <3> QED
      BY <1>10, <3>2, <3>3
  <2>5. CallersInOrder'
    BY <1>1, <1>2, <2>1, CallersKept DEF roundVars, betVars
  <2>6. ResultsKept
    BY <2>1 DEF ResultsKept, ResultShown, roundVars
  <2>7. EventsInv'
    BY <1>1, <2>1, <2>6, EventsFrame DEF poolVars, outVars
  <2> QED
    BY <2>2, <2>3, <2>4, <2>5, <2>7 DEF MachineInv
<1>11. CASE ExitLoop /\ Emit([type |-> "STOPPED", round |-> 0, data |-> NoColor])
  <2> PICK e : e = [type |-> "STOPPED", round |-> 0, data |-> NoColor]
    OBVIOUS
  <2>1. e \in Events /\ Emit(e) /\ e.type = "STOPPED"
    BY <1>2, <1>11 DEF Events, EventTypes
  <2>2. ~IsResult(e) /\ e.type # "ROUND_STARTED"
    BY <2>1 DEF IsResult
  <2>3. UNCHANGED <<roundVars, mainVars, workers, outVars, betVars>> /\ loop = "top"
        /\ loop' = "closing"
    BY <1>11 DEF ExitLoop
  <2>4. ResultsKept
    BY <2>3 DEF ResultsKept, ResultShown, roundVars
  <2>5. LoopInRound'
    BY <1>1, <2>3 DEF LoopInRound, roundVars, mainVars
  <2>6. roundId' \in 0 .. MaxRounds /\ roundId <= roundId' /\ state' \in States
        /\ expired' \in BOOLEAN /\ drawn' \in [Rounds -> Colors \cup {NoColor}]
        /\ loop' \in Loops /\ loop \notin {"closing", "done"} /\ loop' # "done"
    BY <1>1, <1>2, <2>3 DEF Loops, TypeOK, roundVars
  <2> QED
    BY <2>1, <2>2, <2>3, <2>4, <2>5, <2>6, EmitStep
<1>12. ExitLoop => UNCHANGED <<jobs, tasks, due>>
                   \/ Emit([type |-> "STOPPED", round |-> 0, data |-> NoColor])
  BY DEF ExitLoop
<1> QED
  BY <1>4, <1>5, <1>6, <1>7, <1>8, <1>9, <1>10, <1>11, <1>12 DEF LoopNext

\* A worker has one task more, but only an idle worker takes one.
LEMMA TakeStep ==
    ASSUME MachineInv, TakeJob
    PROVE  MachineInv'
<1>1. TypeOK /\ LoopInRound /\ PoolDrains /\ CallersInOrder /\ EventsInv
  BY DEF MachineInv
<1>2. UNCHANGED <<roundVars, loop, mainVars, workers, due, outVars, betVars>>
  BY DEF TakeJob
<1>3. PICK n : n = NewTask(Head(jobs), TRUE)
  OBVIOUS
<1>4. jobs \in Seq(Events) /\ jobs # <<>> /\ jobs' = Tail(jobs) /\ Head(jobs) \in Events
      /\ Tail(jobs) \in Seq(Events)
  BY <1>1 DEF TypeOK, TakeJob
<1>5. tasks' = tasks \cup {n} /\ n \in Tasks /\ n.pool
  BY <1>3, <1>4, NewTaskType DEF TakeJob
<1>6. IsFiniteSet(tasks) /\ IsFiniteSet(tasks')
  <2>1. IsFiniteSet(tasks)
    BY <1>1 DEF TypeOK
  <2>2. IsFiniteSet(tasks \cup {n})
    BY <2>1, FS_AddElement
  <2> QED
    BY <1>5, <2>1, <2>2
<1>7. TypeOK'
  BY <1>1, <1>2, <1>4, <1>5, <1>6 DEF TypeOK, roundVars, mainVars, outVars, betVars
<1>8. PoolDrains'
  <2>1. PoolTasks' = PoolTasks \cup {n}
    BY <1>5 DEF PoolTasks
  <2>2. IsFiniteSet(PoolTasks)
    BY <1>6, FS_Subset DEF PoolTasks
  <2>3. Cardinality(PoolTasks) \in Nat
        /\ Cardinality(PoolTasks \cup {n}) \in {Cardinality(PoolTasks), Cardinality(PoolTasks) + 1}
    BY <2>2, FS_CardinalityType, FS_AddElement
  <2>4. workers \in Nat /\ Cardinality(PoolTasks) < workers
    BY <1>1 DEF TakeJob, IdleWorker, TypeOK
  <2>5. Cardinality(PoolTasks') <= workers
    BY <2>1, <2>3, <2>4
  <2> QED
    BY <1>1, <1>2, <1>4, <2>5 DEF PoolDrains, mainVars
<1>9. LoopInRound' /\ CallersInOrder'
  BY <1>1, <1>2 DEF LoopInRound, CallersInOrder, roundVars, mainVars, betVars
<1>10. EventsInv'
  BY <1>1, TakeEvents
<1> QED
  BY <1>7, <1>8, <1>9, <1>10 DEF MachineInv

\* A worker leaves the closed and empty queue.
LEMMA ExitStep ==
    ASSUME MachineInv, WorkerExit
    PROVE  MachineInv'
<1>1. TypeOK /\ LoopInRound /\ PoolDrains /\ CallersInOrder /\ EventsInv
  BY DEF MachineInv
<1>2. UNCHANGED <<roundVars, loop, mainVars, jobs, tasks, due, outVars, betVars>>
  BY DEF WorkerExit
<1>3. workers' = workers - 1 /\ workers \in 1 .. NumWorkers /\ workers' \in 0 .. NumWorkers
  BY <1>1, GMBounds DEF WorkerExit, IdleWorker, TypeOK
<1>4. TypeOK'
  BY <1>1, <1>2, <1>3 DEF TypeOK, roundVars, mainVars, outVars, betVars
<1>5. PoolDrains'
  <2>1. PoolTasks' = PoolTasks
    BY <1>2 DEF PoolTasks
  <2>2. Cardinality(PoolTasks) \in Nat
    BY <1>1, FS_Subset, FS_CardinalityType DEF TypeOK, PoolTasks
  <2>3. Cardinality(PoolTasks) < workers
    BY DEF WorkerExit, IdleWorker
  <2>4. Cardinality(PoolTasks') <= workers'
    BY <1>3, <2>1, <2>2, <2>3
  <2>5. loop = "closing" /\ jobs = <<>>
    BY DEF WorkerExit
  <2> QED
    BY <1>1, <1>2, <2>4, <2>5 DEF PoolDrains, mainVars
<1>6. LoopInRound' /\ CallersInOrder'
  BY <1>1, <1>2 DEF LoopInRound, CallersInOrder, roundVars, mainVars, betVars
<1>7. ResultsKept
  BY <1>2 DEF ResultsKept, ResultShown, roundVars
<1>8. EventsInv'
  BY <1>1, <1>2, <1>7, EventsFrame DEF outVars
<1> QED
  BY <1>4, <1>5, <1>6, <1>8 DEF MachineInv

\* A handler's task ends or goes on to its next step.
LEMMA TaskStep ==
    ASSUME MachineInv, NEW t \in tasks, NEW U \in SUBSET Tasks,
           tasks' = (tasks \ {t}) \cup U,
           U = {} \/ \E u \in Tasks : U = {u} /\ u.pool = t.pool,
           UNCHANGED <<roundVars, loop, mainVars, jobs, workers, betVars>>,
           due' \subseteq Events, rows' \in [Rounds -> Row],
           told' \in [Rounds -> Seq(Colors \cup {NoColor})],
           EventsInv'
    PROVE  MachineInv'
<1>1. TypeOK /\ LoopInRound /\ PoolDrains /\ CallersInOrder
  BY DEF MachineInv
<1>2. tasks' \subseteq Tasks /\ IsFiniteSet(tasks')
      /\ Cardinality(PoolTasks') <= Cardinality(PoolTasks) /\ Cardinality(PoolTasks') \in Nat
  BY <1>1, PoolShrinks
<1>3. TypeOK'
  BY <1>1, <1>2 DEF TypeOK, roundVars, mainVars, betVars
<1>4. PoolDrains'
  <2>1. Cardinality(PoolTasks) \in Nat
    BY <1>1, FS_Subset, FS_CardinalityType DEF TypeOK, PoolTasks
  <2>2. Cardinality(PoolTasks') <= workers
    BY <1>1, <1>2, <2>1 DEF PoolDrains, TypeOK
  <2> QED
    BY <1>1, <2>2 DEF PoolDrains, mainVars
<1>5. LoopInRound' /\ CallersInOrder'
  BY <1>1 DEF LoopInRound, CallersInOrder, roundVars, mainVars, betVars
<1> QED
  BY <1>3, <1>4, <1>5 DEF MachineInv

\* The rows of game_rounds that a handler's database step touches.
LEMMA RowsEffect ==
    ASSUME MachineInv, NEW t \in tasks, UpdateDB(t)
    PROVE  /\ rows' \in [Rounds -> Row]
           /\ t.ev.round \in Rounds
           /\ \A r \in Rounds :
                \/ rows'[r] = rows[r]
                \/ r = t.ev.round /\ t.ev.type = "RESULT" /\ rows[r].status # "Ended"
                \/ rows'[r].status = "InProgress" /\ rows[r].status = "absent"
<1>1. TypeOK /\ ResultsOnce /\ TasksInRound
  BY DEF MachineInv, EventsInv
<1>2. t.step = "db" /\ t.ev.type \in {"ROUND_STARTED", "RESULT"}
  BY <1>1 DEF UpdateDB, TasksInRound
<1>3. t.ev.type = "RESULT" => t.ev.round \in Rounds /\ rows[t.ev.round].status # "Ended"
  BY <1>1, <1>2 DEF ResultsOnce, TaskPending, Unended, Unpushed, IsResult
<1>4. t.ev.round \in Rounds
  BY <1>1, <1>2, <1>3 DEF TasksInRound
<1>5. rows \in [Rounds -> Row] /\ betCount[t.ev.round] \in Nat
  BY <1>1, <1>4 DEF TypeOK
<1>6. CASE rows' = rows
  BY <1>4, <1>5, <1>6
<1>7. CASE t.ev.type = "ROUND_STARTED" /\ Create(t.ev.round) /\ rows' # rows
  <2>1. rows[t.ev.round].status = "absent"
        /\ rows' = [rows EXCEPT ![t.ev.round] = [status |-> "InProgress", total |-> 0]]
    BY <1>7 DEF Create
  <2>2. [status |-> "InProgress", total |-> 0] \in Row
    BY DEF Row
  <2> QED
    BY <1>4, <1>5, <2>1, <2>2
<1>8. CASE t.ev.type = "RESULT" /\ UpdateResult(t.ev.round) /\ rows' # rows
  <2>1. rows' = [rows EXCEPT ![t.ev.round] = [status |-> "Ended", total |-> betCount[t.ev.round]]]
    BY <1>8 DEF UpdateResult
  <2>2. [status |-> "Ended", total |-> betCount[t.ev.round]] \in Row
    BY <1>5 DEF Row
  <2> QED
    BY <1>3, <1>4, <1>5, <1>8, <2>1, <2>2
<1> QED
  BY <1>6, <1>7, <1>8 DEF UpdateDB

\* The handler: broadcast, database and push, or a panic.
LEMMA HandlerStep ==
    ASSUME MachineInv, NEW t \in tasks, HandleStep(t) \/ Panic(t)
    PROVE  MachineInv'
<1>1. TypeOK /\ EventsInv /\ TasksInRound /\ t \in Tasks
  BY DEF MachineInv, EventsInv, TypeOK
<1>2. UNCHANGED <<roundVars, loop, mainVars, jobs, workers, betVars>> /\ due' \subseteq Events
  BY <1>1 DEF HandleStep, Broadcast, UpdateDB, PushResult, Panic, TypeOK
<1>3. CASE Panic(t)
  <2> PICK U \in SUBSET Tasks : U = {}
    OBVIOUS
  <2>1. tasks' = (tasks \ {t}) \cup U /\ rows' = rows /\ told' = told
    BY <1>3 DEF Panic, outVars
  <2>2. EventsInv'
    BY <1>1, <1>2, <2>1, TaskEvents
  <2> QED
    BY <1>1, <1>2, <2>1, <2>2, TaskStep DEF TypeOK
<1>4. CASE HandleStep(t)
  <2>1. Advance(t)
    BY <1>4 DEF HandleStep, Broadcast, UpdateDB, PushResult
  <2>2. PICK U \in SUBSET Tasks :
          /\ tasks' = (tasks \ {t}) \cup U
          /\ \/ U = {}
             \/ \E u \in Tasks : /\ U = {u} /\ u.ev = t.ev /\ u.pool = t.pool
                                 /\ u.step = Following(t.ev, t.step)
    BY <1>1, <2>1, AdvanceEffect, Zenon
  <2>3. /\ Following(t.ev, t.step) = "db" =>
             t.step = "broadcast" /\ t.ev.type \in {"ROUND_STARTED", "RESULT"}
        /\ Following(t.ev, t.step) = "gs" => t.step = "db" /\ t.ev.type = "RESULT"
        /\ Following(t.ev, t.step) \in {"db", "gs", "return"}
    BY DEF Following
  <2>4. \A u \in U : u \in Tasks /\ u.ev = t.ev /\ u.step = Following(t.ev, t.step)
                     /\ u.step # "return" /\ U = {u}
    BY <2>2 DEF Tasks
  <2>5. rows' \in [Rounds -> Row] /\ told' \in [Rounds -> Seq(Colors \cup {NoColor})]
        /\ EventsInv'
    <3>1. CASE Broadcast(t)
      <4>1. rows' = rows /\ told' = told /\ t.step = "broadcast"
        BY <3>1 DEF Broadcast, outVars
      <4>2. EventsInv'
        BY <1>1, <1>2, <2>2, <2>3, <2>4, <4>1, TaskEvents
      <4> QED
        BY <1>1, <4>1, <4>2 DEF TypeOK
    <3>2. CASE UpdateDB(t)
      <4>1. told' = told /\ t.step = "db"
        BY <3>2 DEF UpdateDB
      <4>2. \A u \in U : u.step = "gs" /\ u.ev.type = "RESULT"
        BY <2>3, <2>4, <4>1
      <4>3. \A r \in Rounds :
               \/ IsResult(t.ev) /\ r = t.ev.round
               \/ told'[r] = told[r] /\ (rows'[r].status = "Ended" => rows[r].status = "Ended")
        BY <3>2, <4>1, RowsEffect DEF IsResult
      <4>4. EventsInv'
        BY <1>1, <1>2, <2>2, <2>4, <4>1, <4>2, <4>3, TaskEvents
      <4> QED
        BY <1>1, <3>2, <4>1, <4>4, RowsEffect DEF TypeOK
    <3>3. CASE PushResult(t)
      <4>1. rows' = rows /\ t.step = "gs"
        BY <3>3 DEF PushResult
      <4>2. U = {}
        BY <2>2, <2>3, <2>4, <4>1
      <4>3. IsResult(t.ev) /\ t.ev.round \in Rounds /\ t.ev.data \in Colors \cup {NoColor}
        BY <1>1, <4>1 DEF TasksInRound, EventsInv, ResultsOnce, TaskPending, Unpushed,
                          IsResult, Events
      <4>4. told' = told \/ told' = [told EXCEPT ![t.ev.round] = Append(@, t.ev.data)]
        BY <3>3 DEF PushResult
      <4>5. told \in [Rounds -> Seq(Colors \cup {NoColor})]
        BY <1>1 DEF TypeOK
      <4>6. Append(told[t.ev.round], t.ev.data) \in Seq(Colors \cup {NoColor})
        BY <4>3, <4>5
      <4>7. told' \in [Rounds -> Seq(Colors \cup {NoColor})]
            /\ \A r \in Rounds : r = t.ev.round \/ told'[r] = told[r]
        BY <4>4, <4>5, <4>6
      <4>8. EventsInv'
        BY <1>1, <1>2, <2>2, <4>1, <4>2, <4>3, <4>7, TaskEvents
      <4> QED
        BY <1>1, <4>1, <4>7, <4>8 DEF TypeOK
    <3> QED
      BY <1>4, <3>1, <3>2, <3>3 DEF HandleStep
  <2> QED
    BY <1>2, <2>2, <2>5, TaskStep
<1> QED
  BY <1>3, <1>4

\* The records of RecordBet calls.
CallerStates == [pc : CallerPcs, rid : 0 .. MaxRounds, seen : 0 .. MaxRounds]

\* A RecordBet call goes from one of its critical sections to the next.
LEMMA CallerMoves ==
    ASSUME MachineInv, NEW c \in Callers, NEW k \in CallerStates,
           caller' = [caller EXCEPT ![c] = k],
           k.pc \in {"asked", "open", "matched"} => k.rid \in 1 .. roundId,
           k.pc = "open" => k.rid <= k.seen /\ k.seen <= roundId,
           k.pc = "matched" => k.seen = k.rid,
           betCount' \in [Rounds -> Nat],
           UNCHANGED <<roundVars, loop, mainVars, poolVars, outVars>>
    PROVE  MachineInv'
<1>1. TypeOK /\ LoopInRound /\ PoolDrains /\ CallersInOrder /\ EventsInv
  BY DEF MachineInv
<1>2. caller \in [Callers -> CallerStates]
  BY <1>1 DEF TypeOK, CallerStates
<1>3. caller' \in [Callers -> CallerStates]
      /\ \A d \in Callers : caller'[d] = IF d = c THEN k ELSE caller[d]
  BY <1>2
<1>4. TypeOK'
  BY <1>1, <1>3 DEF TypeOK, CallerStates, roundVars, mainVars, poolVars, outVars
<1>5. LoopInRound' /\ PoolDrains'
  BY <1>1 DEF LoopInRound, PoolDrains, PoolTasks, roundVars, mainVars, poolVars
<1>6. CallersInOrder'
  BY <1>1, <1>3 DEF CallersInOrder, roundVars
<1>7. ResultsKept
  BY DEF ResultsKept, ResultShown, roundVars
<1>8. EventsInv'
  BY <1>1, <1>7, EventsFrame DEF poolVars, outVars
<1> QED
  BY <1>4, <1>5, <1>6, <1>8 DEF MachineInv

\* RecordBet: the question for the round, the two checks and the count.
LEMMA CallerStep ==
    ASSUME MachineInv, NEW c \in Callers,
           AskRound(c) \/ CheckOpen(c) \/ CheckRound(c) \/ CountBet(c)
    PROVE  MachineInv'
<1>1. TypeOK /\ CallersInOrder
  BY DEF MachineInv
<1>2. UNCHANGED <<roundVars, loop, mainVars, poolVars, outVars>>
  BY DEF AskRound, CheckOpen, CheckRound, CountBet, SetCaller
<1>3. /\ roundId \in 0 .. MaxRounds /\ MaxRounds \in Nat
      /\ caller[c].rid \in 0 .. MaxRounds /\ caller[c].seen \in 0 .. MaxRounds
  BY <1>1, GMBounds DEF TypeOK
<1>4. betCount' \in [Rounds -> Nat]
  <2>1. betCount \in [Rounds -> Nat]
    BY <1>1 DEF TypeOK
  <2>2. CASE CountBet(c)
    <3>1. caller[c].rid \in Rounds
      BY <1>1, <1>3, <2>2 DEF CountBet, CallersInOrder, Rounds
    <3>2. betCount' = [betCount EXCEPT ![caller[c].rid] = betCount[caller[c].rid] + 1]
      BY <2>2 DEF CountBet
    <3> QED
      BY <2>1, <3>1, <3>2
  <2> QED
    BY <2>1, <2>2 DEF AskRound, CheckOpen, CheckRound
<1>5. CASE caller' = [caller EXCEPT ![c] = [pc |-> "returned", rid |-> 0, seen |-> 0]]
  <2> PICK k : k = [pc |-> "returned", rid |-> 0, seen |-> 0]
    OBVIOUS
  <2>1. k \in CallerStates /\ k.pc = "returned"
    BY <1>3 DEF CallerStates, CallerPcs
  <2> QED
    BY <1>2, <1>4, <1>5, <2>1, CallerMoves
<1>6. CASE AskRound(c)
  <2> PICK k : k = [pc |-> "asked", rid |-> roundId, seen |-> 0]
    OBVIOUS
  <2>1. k \in CallerStates /\ k.pc = "asked" /\ k.rid \in 1 .. roundId
    BY <1>3, <1>6 DEF CallerStates, CallerPcs, AskRound
  <2>2. caller' = [caller EXCEPT ![c] = k]
    BY <1>6 DEF AskRound, SetCaller
  <2> QED
    BY <1>2, <1>4, <2>1, <2>2, CallerMoves
<1>7. CASE CheckOpen(c) /\ CanAcceptBet
  <2> PICK k : k = [pc |-> "open", rid |-> caller[c].rid, seen |-> roundId]
    OBVIOUS
  <2>1. caller[c].rid \in 1 .. roundId
    BY <1>1, <1>7 DEF CheckOpen, CallersInOrder
  <2>2. k \in CallerStates /\ k.pc = "open" /\ k.rid \in 1 .. roundId
        /\ k.rid <= k.seen /\ k.seen <= roundId
    BY <1>3, <2>1 DEF CallerStates, CallerPcs
  <2>3. caller' = [caller EXCEPT ![c] = k]
    BY <1>7 DEF CheckOpen, SetCaller
  <2> QED
    BY <1>2, <1>4, <2>2, <2>3, CallerMoves
<1>8. CASE CheckRound(c) /\ roundId = caller[c].rid
  <2> PICK k : k = [pc |-> "matched", rid |-> caller[c].rid, seen |-> caller[c].seen]
    OBVIOUS
  <2>1. caller[c].rid \in 1 .. roundId /\ caller[c].rid <= caller[c].seen
        /\ caller[c].seen <= roundId
    BY <1>1, <1>8 DEF CheckRound, CallersInOrder
  <2>2. caller[c].seen = caller[c].rid
    BY <1>3, <1>8, <2>1
  <2>3. k \in CallerStates /\ k.pc = "matched" /\ k.rid \in 1 .. roundId /\ k.seen = k.rid
    BY <1>3, <2>1, <2>2 DEF CallerStates, CallerPcs
  <2>4. caller' = [caller EXCEPT ![c] = k]
    BY <1>8 DEF CheckRound, SetCaller
  <2> QED
    BY <1>2, <1>4, <2>3, <2>4, CallerMoves
<1> QED
  BY <1>5, <1>6, <1>7, <1>8 DEF CheckOpen, CheckRound, CountBet, SetCaller

\* No step of the machine, nor a step that leaves it alone, breaks MachineInv.
LEMMA MachineNext ==
    ASSUME MachineInv, [Next]_vars
    PROVE  MachineInv'
<1>1. CASE UNCHANGED vars
  <2>1. UNCHANGED <<roundVars, loop, mainVars, poolVars, outVars, betVars>>
    BY <1>1 DEF vars
  <2>2. TypeOK /\ LoopInRound /\ PoolDrains /\ CallersInOrder /\ EventsInv
    BY DEF MachineInv
  <2>3. TypeOK' /\ LoopInRound' /\ PoolDrains' /\ CallersInOrder'
    BY <2>1, <2>2 DEF TypeOK, LoopInRound, PoolDrains, PoolTasks, CallersInOrder, roundVars,
                      mainVars, poolVars, outVars, betVars
  <2>4. ResultsKept
    BY <2>1 DEF ResultsKept, ResultShown, roundVars
  <2>5. EventsInv'
    BY <2>1, <2>2, <2>4, EventsFrame DEF poolVars, outVars
  <2> QED
    BY <2>3, <2>5 DEF MachineInv
<1>2. CASE Next
  BY <1>2, MainStep, LoopStep, TakeStep, ExitStep, HandlerStep, CallerStep
     DEF Next, PoolNext, CallerNext
<1> QED
  BY <1>1, <1>2

-----------------------------------------------------------------------------
(* What the machine guarantees.                                            *)

\* MachineInv holds in every reachable state.
THEOREM MachineInvariant == Spec => []MachineInv
<1>1. Init => MachineInv
  BY MachineInit
<1>2. MachineInv /\ [Next]_vars => MachineInv'
  BY MachineNext
<1> QED
  BY <1>1, <1>2, PTL DEF Spec

\* When GracefulShutdown returns nil the queue is empty and no worker has a
\* task: the workers were all gone before doneChan was closed.
THEOREM ReturnDrained == Spec => []DrainedOnReturn
<1>1. MachineInv => DrainedOnReturn
  <2> SUFFICES ASSUME MachineInv, main = "returned"
               PROVE  jobs = <<>> /\ PoolTasks = {}
    BY DEF DrainedOnReturn
  <2>1. workers = 0 /\ jobs = <<>>
    BY GMBounds DEF MachineInv, PoolDrains
  <2>2. IsFiniteSet(PoolTasks)
    BY FS_Subset DEF MachineInv, TypeOK, PoolTasks
  <2>3. Cardinality(PoolTasks) = 0
    BY <2>1, <2>2, FS_CardinalityType DEF MachineInv, PoolDrains
  <2> QED
    BY <2>1, <2>2, <2>3, FS_EmptySet
<1> QED
  BY <1>1, MachineInvariant, PTL

\* A bet that passed both checks of IncrementBetCount was seen while its own
\* round was taking bets: rounds never go back between the two.
THEOREM BetsCountedInBetting == Spec => []CountedInBetting
<1>1. MachineInv => CountedInBetting
  BY DEF MachineInv, CallersInOrder, CountedInBetting
<1> QED
  BY <1>1, MachineInvariant, PTL

\* UpdateResult reaches a row once, and Create only an absent one, whatever order
\* the workers take: the RESULT event of a round is in one place at a time.
THEOREM EndedStaysFinal == Spec => EndedIsFinal
<1>1. ASSUME MachineInv, [Next]_vars
      PROVE  [\A r \in Rounds : rows[r].status = "Ended" => rows'[r] = rows[r]]_vars
  <2>1. CASE rows' = rows
    BY <2>1
  <2>2. ASSUME NEW t \in tasks, UpdateDB(t)
        PROVE  \A r \in Rounds : rows[r].status = "Ended" => rows'[r] = rows[r]
    BY <1>1, <2>2, RowsEffect
  <2>3. rows' = rows \/ \E t \in tasks : UpdateDB(t)
    BY <1>1 DEF Next, MainNext, LoopNext, PoolNext, CallerNext, HandleStep, NewGMSUseCase,
        SetGSService, Stop, GracefulShutdownReturns, Cancel, BeginRound, StartBetting, BettingEnd,
        Draw, ShowResult, EndRound, LeaveRound, ExitLoop, CloseDone, TakeJob, WorkerExit,
        Broadcast, PushResult, Panic, AskRound, CheckOpen, CheckRound, CountBet, SetCaller,
        vars, outVars
  <2> QED
    BY <2>1, <2>2, <2>3
<1> QED
  BY <1>1, MachineInvariant, PTL DEF Spec, EndedIsFinal

-----------------------------------------------------------------------------
(* The machine implements RoundClock.                                      *)

\* What RoundPhase is in each state of the round.
LEMMA PhaseOf ==
    /\ state = "NONE" => RoundPhase = "none"
    /\ state = "ROUND_STARTED" => RoundPhase = "started"
    /\ state = "BETTING" /\ ~expired => RoundPhase = "betting"
    /\ state = "BETTING" /\ expired => RoundPhase = "closed"
    /\ state = "DRAWING" => RoundPhase = "drawing"
    /\ state = "RESULT" => RoundPhase = "result"
BY DEF RoundPhase

\* ... and after a step.
LEMMA PhaseAfter ==
    /\ state' = "NONE" => RoundPhase' = "none"
    /\ state' = "ROUND_STARTED" => RoundPhase' = "started"
    /\ state' = "BETTING" /\ ~expired' => RoundPhase' = "betting"
    /\ state' = "BETTING" /\ expired' => RoundPhase' = "closed"
    /\ state' = "DRAWING" => RoundPhase' = "drawing"
    /\ state' = "RESULT" => RoundPhase' = "result"
BY DEF RoundPhase

\* Each step of the machine is a step of RoundClock or leaves what it speaks of
\* alone.
LEMMA ClockSteps ==
    ASSUME MachineInv, [Next]_vars
    PROVE  [Clock!ClockNext]_Clock!clockVars
<1> USE DEF Clock!ClockNext, Clock!ClockStep, Clock!clockVars
<1>1. LoopInRound
  BY DEF MachineInv
<1>2. CASE BeginRound
  <2>1. RoundPhase \in {"none", "result"} /\ RoundPhase' = "started"
    BY <1>1, <1>2, PhaseOf, PhaseAfter DEF BeginRound, LoopInRound
  <2>2. Clock!NewRound
    BY <1>2, <2>1 DEF BeginRound, Clock!NewRound, outVars
  <2> QED
    BY <2>2
<1>3. CASE StartBetting
  <2>1. RoundPhase = "started" /\ RoundPhase' = "betting"
    BY <1>1, <1>3, PhaseOf, PhaseAfter DEF StartBetting, LoopInRound
  <2>2. Clock!StartBetting
    BY <1>3, <2>1 DEF StartBetting, Clock!StartBetting, outVars
  <2> QED
    BY <2>2
<1>4. CASE BettingEnd
  <2>1. RoundPhase = "betting" /\ RoundPhase' = "closed"
    BY <1>4, PhaseOf, PhaseAfter DEF BettingEnd
  <2>2. Clock!BettingEnd
    BY <1>4, <2>1 DEF BettingEnd, Clock!BettingEnd, outVars
  <2> QED
    BY <2>2
<1>5. CASE Draw
  <2>1. RoundPhase = "closed" /\ RoundPhase' = "drawing"
    BY <1>1, <1>5, PhaseOf, PhaseAfter DEF Draw, LoopInRound
  <2>2. Clock!Draw
    BY <1>5, <2>1 DEF Draw, drawResult, Clock!Draw, outVars
  <2> QED
    BY <2>2
<1>6. CASE ShowResult
  <2>1. RoundPhase = "drawing" /\ RoundPhase' = "result"
    BY <1>1, <1>6, PhaseOf, PhaseAfter DEF ShowResult, LoopInRound
  <2>2. Clock!ShowResult
    BY <1>6, <2>1 DEF ShowResult, Clock!ShowResult, outVars
  <2> QED
    BY <2>2
<1>7. ASSUME NEW t \in tasks, PushResult(t)
      PROVE  [Clock!ClockNext]_Clock!clockVars
  <2>1. t.ev \in Unpushed /\ MaxRounds \in Nat
    BY <1>7, GMBounds DEF MachineInv, EventsInv, TasksInRound, ResultsOnce, TaskPending,
                          IsResult, PushResult
  <2>2. t.ev.round \in Rounds /\ ResultShown(t.ev.round)
        /\ t.ev.data = drawn[t.ev.round] /\ told[t.ev.round] = <<>>
    BY <2>1 DEF Unpushed
  <2>3. UNCHANGED <<roundId, RoundPhase, drawn>>
    BY <1>7 DEF PushResult, roundVars, RoundPhase
  <2>4. Clock!Shown(t.ev.round)
    BY <2>2, PhaseOf DEF ResultShown, Clock!Shown
  <2>5. CASE told' = told
    BY <2>3, <2>5
  <2>6. CASE told' = [told EXCEPT ![t.ev.round] = Append(@, t.ev.data)]
    <3>1. told' = [told EXCEPT ![t.ev.round] = <<drawn[t.ev.round]>>]
      BY <2>2, <2>6
    <3>2. Clock!TellGS(t.ev.round)
      BY <2>2, <2>3, <2>4, <3>1 DEF Clock!TellGS
    <3> QED
      BY <2>2, <3>2 DEF Rounds, Clock!Rounds
  <2> QED
    BY <1>7, <2>5, <2>6 DEF PushResult
<1>8. CASE UNCHANGED <<roundVars, told>>
  BY <1>8 DEF roundVars, RoundPhase
<1>9. \/ BeginRound \/ StartBetting \/ BettingEnd \/ Draw \/ ShowResult
      \/ (\E t \in tasks : PushResult(t)) \/ UNCHANGED <<roundVars, told>>
  BY DEF Next, MainNext, LoopNext, PoolNext, CallerNext, HandleStep, NewGMSUseCase,
      SetGSService, Stop, GracefulShutdownReturns, Cancel, EndRound, LeaveRound, ExitLoop,
      CloseDone, TakeJob, WorkerExit, Broadcast, UpdateDB, Panic, AskRound, CheckOpen,
      CheckRound, CountBet, SetCaller, vars, outVars
<1> QED
  BY <1>2, <1>3, <1>4, <1>5, <1>6, <1>7, <1>8, <1>9

\* The GMS implements RoundClock: rounds follow one another through their phases,
\* nothing is drawn before the deadline of the bets, and GS is told the result of a
\* round at most once, after it was shown and as it was drawn.
THEOREM MachineImplementsClock == Spec => RefinesRoundClock
<1>1. Init => Clock!ClockInit
  BY PhaseOf DEF Init, Clock!ClockInit, Rounds, Clock!Rounds
<1>2. MachineInv /\ [Next]_vars => [Clock!ClockNext]_Clock!clockVars
  BY ClockSteps
<1> QED
  BY <1>1, <1>2, MachineInvariant, PTL DEF Spec, RefinesRoundClock, Clock!ClockSpec

=============================================================================
