---------------------------- MODULE ServiceClient ----------------------------
(***************************************************************************)
(* The client side of the multi-process deployment: BaseClient's address   *)
(* cache for one service (single-flight lookups, a subscription whose      *)
(* pushes are applied after a random delay), its connection cache, and the *)
(* worker pool through which Broadcast and SendToUser reach every instance *)
(* of the gateway.                                                         *)
(*                                                                         *)
(* The registry (Nacos) is external: it knows the healthy instances, and   *)
(* calls back with the new list after every change once it is subscribed   *)
(* to. Callbacks that wait out their delay may overtake one another.       *)
(* Address lists are sets.                                                 *)
(*                                                                         *)
(* Definitions whose name starts with Bug are faulty variants of the       *)
(* definition that follows them; no specification uses them.               *)
(***************************************************************************)
EXTENDS Naturals, Sequences, FiniteSets

CONSTANTS Addrs,        \* "ip:port" of the instances of the service
          Callers,      \* Broadcast or SendToUser calls (each is one call)
          MaxChanges,   \* bound: changes of the set of healthy instances
          QueueCap,     \* capacity of broadcastQueue (1024)
          NumWorkers,   \* workers of the pool (20)
          Faults

FaultKinds == {"registry",   \* GetServices fails
               "subscribe",  \* Subscribe fails
               "rpc",        \* a call to an instance fails
               "panic"}      \* a task panics in a worker

ASSUME SCBounds == /\ QueueCap \in Nat \ {0} /\ NumWorkers \in Nat \ {0}
                   /\ MaxChanges \in Nat
ASSUME SCFaults == Faults \subseteq FaultKinds

VARIABLES
    registry, version,   \* healthy instances; how often they have changed
    listening,           \* the registry knows the client's callback
    pushes,              \* callbacks in their delay
    cache,               \* serviceAddrs[name]; {} also when there is no entry
    subscribed,          \* subscribed[name]
    flight,              \* the lookup requestGroup.Do is executing
    call,                \* the callers
    jobs, workers,       \* broadcastQueue; live workers
    running,             \* tasks being executed
    conns,               \* addresses in the connection cache
    dialed,              \* dialed[a]: connections opened to a
    reached,             \* reached[c]: instances that got the message of c
    dropped,             \* history: tasks that failed or panicked
    stamp, overtaken     \* history: the version the cache was written from, and
                         \* whether an older list has replaced a newer one

regVars   == <<registry, version, listening, pushes>>
cacheVars == <<cache, stamp, overtaken>>
poolVars  == <<jobs, workers, running, conns, dialed, reached, dropped>>
vars == <<regVars, cacheVars, subscribed, flight, call, poolVars>>

Lists == SUBSET Addrs

Pushes == [n : 0 .. MaxChanges, list : Lists]

\* at: where GetServiceAddrs and the fan-out are; list: addresses still to submit;
\* sent: addresses submitted.
Calls == [at : {"idle", "missed", "waiting", "submit", "returned", "failed"}, list : Lists, sent : Lists]

Flights == [at : {"none", "check", "subscribe", "fetch", "store"},
            n : 0 .. MaxChanges, list : Lists]

NoFlight == [at |-> "none", n |-> 0, list |-> {}]

\* A task sends the message of call c to address a; pool: in a worker.
Tasks == [c : Callers, a : Addrs, step : {"look", "dial", "rpc"}, pool : BOOLEAN]

Init ==
    /\ registry \in Lists /\ version = 0 /\ listening = FALSE /\ pushes = {}
    /\ cache = {} /\ stamp = 0 /\ overtaken = FALSE
    /\ subscribed = FALSE /\ flight = NoFlight
    /\ call = [c \in Callers |-> [at |-> "idle", list |-> {}, sent |-> {}]]
    /\ jobs = <<>> /\ workers = NumWorkers /\ running = {}
    /\ conns = {} /\ dialed = [a \in Addrs |-> 0]
    /\ reached = [c \in Callers |-> {}] /\ dropped = {}

----------------------------------------------------------------------------
\* The registry.

\* Instances come, go, or change their health.
Change ==
    /\ version < MaxChanges
    /\ version' = version + 1
    /\ registry' \in Lists \ {registry}
    /\ pushes' = IF listening THEN pushes \cup {[n |-> version + 1, list |-> registry']}
                              ELSE pushes
    /\ UNCHANGED <<listening, cacheVars, subscribed, flight, call, poolVars>>

\* The cache entry is written from version n of the registry.
SetCache(n, list) ==
    /\ cache' = list
    /\ stamp' = n
    /\ overtaken' = (overtaken \/ n < stamp)

\* The delay of a callback is over.
ApplyPush(p) ==
    /\ pushes' = pushes \ {p}
    /\ SetCache(p.n, p.list)
    /\ UNCHANGED <<registry, version, listening, subscribed, flight, call, poolVars>>

----------------------------------------------------------------------------
\* GetServiceAddrs.

Waiting == {c \in Callers : call[c].at = "waiting"}

\* The cache has addresses, or has none.
GetServiceAddrs(c) ==
    /\ call[c].at = "idle"
    /\ call' = [call EXCEPT ![c].at = IF cache = {} THEN "missed" ELSE "submit",
                            ![c].list = cache]
    /\ UNCHANGED <<regVars, cacheVars, subscribed, flight, poolVars>>

\* requestGroup.Do: the caller starts a lookup, or joins the one that is being
\* executed.
Do(c) ==
    /\ call[c].at = "missed"
    /\ call' = [call EXCEPT ![c].at = "waiting"]
    /\ flight' = IF flight.at = "none" THEN [flight EXCEPT !.at = "check"] ELSE flight
    /\ UNCHANGED <<regVars, cacheVars, subscribed, poolVars>>

\* The lookup returns the list to everyone who waits for it.
Deliver(list) ==
    /\ flight' = NoFlight
    /\ call' = [c \in Callers |-> IF c \in Waiting
                                  THEN [call[c] EXCEPT !.at = "submit", !.list = list]
                                  ELSE call[c]]

\* The lookup looks into the cache again.
DoubleCheck ==
    /\ flight.at = "check"
    /\ \/ cache # {} /\ Deliver(cache)
       \/ cache = {} /\ flight' = [flight EXCEPT !.at = "subscribe"] /\ UNCHANGED call
    /\ UNCHANGED <<regVars, cacheVars, subscribed, poolVars>>

BugEnsureSubscribed ==
    /\ flight.at = "subscribe"
    /\ subscribed' = TRUE
    /\ listening' \in {subscribed \/ "subscribe" \notin Faults, TRUE}
    /\ flight' = [flight EXCEPT !.at = "fetch"]
    /\ UNCHANGED <<registry, version, pushes, cacheVars, call, poolVars>>

\* ensureSubscribed comes before the fetch; a failed Subscribe is not remembered.
EnsureSubscribed ==
    /\ flight.at = "subscribe"
    /\ \/ /\ subscribed \/ "subscribe" \in Faults
          /\ UNCHANGED <<subscribed, listening>>
       \/ ~subscribed /\ subscribed' = TRUE /\ listening' = TRUE
    /\ flight' = [flight EXCEPT !.at = "fetch"]
    /\ UNCHANGED <<registry, version, pushes, cacheVars, call, poolVars>>

\* Registry.GetServices; an error is returned to everyone who waits.
Fetch ==
    /\ flight.at = "fetch"
    /\ \/ flight' = [at |-> "store", n |-> version, list |-> registry] /\ UNCHANGED call
       \/ /\ "registry" \in Faults
          /\ flight' = NoFlight
          /\ call' = [c \in Callers |-> IF c \in Waiting THEN [call[c] EXCEPT !.at = "failed"]
                                                         ELSE call[c]]
    /\ UNCHANGED <<regVars, cacheVars, subscribed, poolVars>>

\* The fetched list is written to the cache, whatever a push wrote meanwhile.
Store ==
    /\ flight.at = "store"
    /\ SetCache(flight.n, flight.list)
    /\ Deliver(flight.list)
    /\ UNCHANGED <<regVars, subscribed, poolVars>>

----------------------------------------------------------------------------
\* The fan-out of Broadcast and SendToUser, and the tasks.

NewTask(c, a, isPool) == [c |-> c, a |-> a, step |-> "look", pool |-> isPool]

BugSubmitTask(c, a) ==
    IF Len(jobs) < QueueCap
    THEN jobs' = Append(jobs, <<c, a>>) /\ UNCHANGED running
    ELSE UNCHANGED <<jobs, running>>

\* SubmitTask: into the queue, or a goroutine when the queue is full.
SubmitTask(c, a) ==
    IF Len(jobs) < QueueCap
    THEN jobs' = Append(jobs, <<c, a>>) /\ UNCHANGED running
    ELSE running' = running \cup {NewTask(c, a, FALSE)} /\ UNCHANGED jobs

\* One round of the loop over the addresses; then the call returns.
FanOut(c) ==
    /\ call[c].at = "submit"
    /\ \/ \E a \in call[c].list :
             /\ SubmitTask(c, a)
             /\ call' = [call EXCEPT ![c].list = @ \ {a}, ![c].sent = @ \cup {a}]
       \/ /\ call[c].list = {}
          /\ call' = [call EXCEPT ![c].at = "returned"]
          /\ UNCHANGED <<jobs, running>>
    /\ UNCHANGED <<regVars, cacheVars, subscribed, flight, workers, conns, dialed, reached, dropped>>

\* A worker takes a task.
TakeTask ==
    /\ jobs # <<>> /\ Cardinality({t \in running : t.pool}) < workers
    /\ jobs' = Tail(jobs)
    /\ running' = running \cup {NewTask(Head(jobs)[1], Head(jobs)[2], TRUE)}
    /\ UNCHANGED <<regVars, cacheVars, subscribed, flight, call, workers, conns, dialed, reached, dropped>>

GoOn(t, next) == running' = (running \ {t}) \cup {[t EXCEPT !.step = next]}

\* getConnDirect under the read lock.
LookUp(t) ==
    /\ t.step = "look"
    /\ GoOn(t, IF t.a \in conns THEN "rpc" ELSE "dial")
    /\ UNCHANGED <<regVars, cacheVars, subscribed, flight, call, jobs, workers, conns, dialed, reached, dropped>>

BugDial(t) ==
    /\ t.step = "dial"
    /\ GoOn(t, "rpc")
    /\ conns' = conns \cup {t.a}
    /\ dialed' = [dialed EXCEPT ![t.a] = @ + 1]
    /\ UNCHANGED <<regVars, cacheVars, subscribed, flight, call, jobs, workers, reached, dropped>>

\* ... and under the write lock, with a second look.
Dial(t) ==
    /\ t.step = "dial"
    /\ GoOn(t, "rpc")
    /\ conns' = conns \cup {t.a}
    /\ dialed' = IF t.a \in conns THEN dialed ELSE [dialed EXCEPT ![t.a] = @ + 1]
    /\ UNCHANGED <<regVars, cacheVars, subscribed, flight, call, jobs, workers, reached, dropped>>

\* The call to the instance; its error is logged.
Rpc(t) ==
    /\ t.step = "rpc"
    /\ running' = running \ {t}
    /\ \/ reached' = [reached EXCEPT ![t.c] = @ \cup {t.a}] /\ UNCHANGED dropped
       \/ "rpc" \in Faults /\ dropped' = dropped \cup {<<t.c, t.a>>} /\ UNCHANGED reached
    /\ UNCHANGED <<regVars, cacheVars, subscribed, flight, call, jobs, workers, conns, dialed>>

BugPanic(t) ==
    /\ "panic" \in Faults /\ t.pool
    /\ running' = running \ {t} /\ workers' = workers - 1
    /\ dropped' = dropped \cup {<<t.c, t.a>>}
    /\ UNCHANGED <<regVars, cacheVars, subscribed, flight, call, jobs, conns, dialed, reached>>

\* A task panics in a worker, which is replaced by a new one. (In a goroutine of
\* its own the panic ends the process, and so the behaviour.)
Panic(t) ==
    /\ "panic" \in Faults /\ t.pool
    /\ running' = running \ {t} /\ UNCHANGED workers
    /\ dropped' = dropped \cup {<<t.c, t.a>>}
    /\ UNCHANGED <<regVars, cacheVars, subscribed, flight, call, jobs, conns, dialed, reached>>

----------------------------------------------------------------------------
Lookup == DoubleCheck \/ EnsureSubscribed \/ Fetch \/ Store

TaskStep(t) == LookUp(t) \/ Dial(t) \/ Rpc(t)

Next == \/ Change
        \/ \E p \in pushes : ApplyPush(p)
        \/ \E c \in Callers : GetServiceAddrs(c) \/ Do(c) \/ FanOut(c)
        \/ Lookup \/ TakeTask
        \/ \E t \in running : TaskStep(t) \/ Panic(t)

\* Calls of the registry and of instances return, delays end, goroutines that can
\* run do run. Nobody has to call Broadcast, and instances need not change.
Fairness == /\ WF_vars(Lookup) /\ WF_vars(\E p \in pushes : ApplyPush(p))
            /\ \A c \in Callers : WF_vars(Do(c) \/ FanOut(c))
            /\ WF_vars(TakeTask) /\ WF_vars(\E t \in running : TaskStep(t))

Spec == Init /\ [][Next]_vars

FairSpec == Spec /\ Fairness

----------------------------------------------------------------------------
\* Properties.

\* However many tasks look for the same address at once, one connection is opened
\* to it (the second look under the write lock).
DialedOnce == \A a \in Addrs : dialed[a] = IF a \in conns THEN 1 ELSE 0

\* Where the message of call c to address a is.
Places(c, a) ==
    Cardinality({i \in 1 .. Len(jobs) : jobs[i] = <<c, a>>})
    + Cardinality({t \in running : t.c = c /\ t.a = a})
    + (IF a \in reached[c] THEN 1 ELSE 0)
    + (IF <<c, a>> \in dropped THEN 1 ELSE 0)

\* A message is sent once to every address of the list the call works with, and to
\* no other: a full queue neither loses a task nor runs it twice.
SentOnce ==
    \A c \in Callers, a \in Addrs : Places(c, a) = IF a \in call[c].sent THEN 1 ELSE 0

\* The subscription keeps the cached addresses up to date: with no callback and no
\* lookup under way, a cached list is the registry's, unless an older list has
\* replaced a newer one. It rests on subscribing before fetching.
FreshUnlessOvertaken ==
    subscribed /\ pushes = {} /\ flight.at = "none" /\ cache # {} /\ ~overtaken
        => cache = registry

Settled(c) == \A a \in call[c].sent : a \in reached[c] \/ <<c, a>> \in dropped

\* Whoever needs a lookup gets its error, or gets its list and in the end has the
\* message delivered to, or failed for, every address of it, although lookups fail
\* and workers panic.
CallsComplete ==
    \A c \in Callers :
        call[c].at \in {"missed", "waiting", "submit"} ~>
            call[c].at = "failed" \/ (call[c].at = "returned" /\ Settled(c))
=============================================================================
