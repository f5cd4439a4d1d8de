------------------------- MODULE ServiceClientProofs -------------------------
(***************************************************************************)
(* Proofs about ServiceClient, for any instances, callers, changes of the  *)
(* registry, queue and pool, and any faults: one connection per address,   *)
(* every message in exactly one place, and a cache the subscription keeps  *)
(* up to date.                                                             *)
(***************************************************************************)
EXTENDS ServiceClient, FiniteSetTheorems, TLAPS

TypeOK ==
    /\ registry \in Lists /\ version \in 0 .. MaxChanges /\ listening \in BOOLEAN
    /\ pushes \subseteq Pushes
    /\ cache \in Lists /\ stamp \in 0 .. MaxChanges /\ overtaken \in BOOLEAN
    /\ subscribed \in BOOLEAN /\ flight \in Flights
    /\ call \in [Callers -> Calls]
    /\ jobs \in Seq(Callers \X Addrs) /\ workers \in Nat /\ running \subseteq Tasks
    /\ conns \subseteq Addrs /\ dialed \in [Addrs -> Nat]
    /\ reached \in [Callers -> Lists] /\ dropped \subseteq Callers \X Addrs

-----------------------------------------------------------------------------
(* The cache and the registry.                                             *)

\* The last change of the registry is in the cache or on its way to it, unless an
\* older list has replaced a newer one.
Fresh == overtaken \/ stamp = version \/ \E p \in pushes : p.n = version

\* A list is the registry's as long as the registry has not changed since.
ListsCurrent ==
    /\ stamp <= version /\ (stamp = version => cache \in {{}, registry})
    /\ \A p \in pushes : p.n <= version /\ (p.n = version => p.list = registry)
    /\ flight.at = "store" =>
         flight.n <= version /\ (flight.n = version => flight.list = registry)

\* Callbacks come once the client has subscribed, which it does while the cache is
\* empty; from then on every change of the registry is pushed.
PushesFollow ==
    /\ subscribed = listening
    /\ ~subscribed => pushes = {}
    /\ ~subscribed /\ flight.at \in {"subscribe", "fetch"} => cache = {}
    /\ pushes # {} => Fresh
    /\ subscribed /\ cache # {} => Fresh
    /\ subscribed /\ flight.at = "store" => flight.n = version \/ Fresh

CacheInv == ListsCurrent /\ PushesFollow

-----------------------------------------------------------------------------
(* The messages.                                                           *)

\* The places the message of call c to address a can be in.
InQueue(c, a) == \E i \in DOMAIN jobs : jobs[i] = <<c, a>>
InTask(c, a) == \E t \in running : t.c = c /\ t.a = a
Arrived(c, a) == a \in reached[c]
Lost(c, a) == <<c, a>> \in dropped

\* It is in one of them if it has been sent, and in no second one.
OnePlace(c, a) ==
    /\ a \in call[c].sent <=> InQueue(c, a) \/ InTask(c, a) \/ Arrived(c, a) \/ Lost(c, a)
    /\ InQueue(c, a) => ~InTask(c, a) /\ ~Arrived(c, a) /\ ~Lost(c, a)
    /\ InTask(c, a) => ~Arrived(c, a) /\ ~Lost(c, a)
    /\ Arrived(c, a) => ~Lost(c, a)

\* A call sends nothing before it has its list, and crosses off what it has sent.
CallsInOrder ==
    \A c \in Callers :
        /\ call[c].at \in {"idle", "missed", "waiting"} => call[c].sent = {}
        /\ call[c].list \cap call[c].sent = {}

JobsDistinct == \A i, j \in DOMAIN jobs : jobs[i] = jobs[j] => i = j

TasksDistinct == \A t, u \in running : t.c = u.c /\ t.a = u.a => t = u

MessageInv ==
    /\ CallsInOrder /\ JobsDistinct /\ TasksDistinct
    /\ \A c \in Callers, a \in Addrs : OnePlace(c, a)

\* The inductive invariant of the client.
ClientInv == TypeOK /\ DialedOnce /\ CacheInv /\ MessageInv

-----------------------------------------------------------------------------
(* Types.                                                                  *)

\* What the new records of the model are.
LEMMA RecordTypes ==
    /\ \A n \in 0 .. MaxChanges, list \in Lists : [n |-> n, list |-> list] \in Pushes
    /\ NoFlight \in Flights /\ NoFlight.at = "none"
    /\ \A f \in Flights, at \in {"check", "subscribe", "fetch"} :
         /\ [f EXCEPT !.at = at] \in Flights
         /\ [f EXCEPT !.at = at].at = at
    /\ \A k \in Calls, at \in {"idle", "missed", "waiting", "submit", "returned", "failed"} :
         /\ [k EXCEPT !.at = at] \in Calls
         /\ \A list \in Lists : [k EXCEPT !.at = at, !.list = list] \in Calls
    /\ \A t \in Tasks, s \in {"look", "dial", "rpc"} :
         /\ [t EXCEPT !.step = s] \in Tasks
         /\ [t EXCEPT !.step = s].c = t.c /\ [t EXCEPT !.step = s].a = t.a
    /\ \A c \in Callers, a \in Addrs, b \in BOOLEAN :
         NewTask(c, a, b) \in Tasks /\ NewTask(c, a, b).c = c /\ NewTask(c, a, b).a = a
<1>1. \A n \in 0 .. MaxChanges, list \in Lists : [n |-> n, list |-> list] \in Pushes
  BY DEF Pushes
<1>2. NoFlight \in Flights /\ NoFlight.at = "none"
  BY SCBounds DEF NoFlight, Flights, Lists
<1>3. \A f \in Flights, at \in {"check", "subscribe", "fetch"} :
        [f EXCEPT !.at = at] \in Flights /\ [f EXCEPT !.at = at].at = at
  BY DEF Flights
<1>4. \A k \in Calls, at \in {"idle", "missed", "waiting", "submit", "returned", "failed"} :
         /\ [k EXCEPT !.at = at] \in Calls
         /\ \A list \in Lists : [k EXCEPT !.at = at, !.list = list] \in Calls
  BY DEF Calls
<1>5. \A t \in Tasks, s \in {"look", "dial", "rpc"} :
         /\ [t EXCEPT !.step = s] \in Tasks
         /\ [t EXCEPT !.step = s].c = t.c /\ [t EXCEPT !.step = s].a = t.a
  BY DEF Tasks
<1>6. \A c \in Callers, a \in Addrs, b \in BOOLEAN :
         NewTask(c, a, b) \in Tasks /\ NewTask(c, a, b).c = c /\ NewTask(c, a, b).a = a
  BY DEF NewTask, Tasks
<1> QED
  BY <1>1, <1>2, <1>3, <1>4, <1>5, <1>6

\* The address list a call still has to work through is crossed off one by one.
LEMMA CrossOff ==
    ASSUME NEW k \in Calls, NEW a \in Addrs
    PROVE  /\ [k EXCEPT !.list = k.list \ {a}, !.sent = k.sent \cup {a}] \in Calls
           /\ [k EXCEPT !.list = k.list \ {a}, !.sent = k.sent \cup {a}].list = k.list \ {a}
           /\ [k EXCEPT !.list = k.list \ {a}, !.sent = k.sent \cup {a}].sent = k.sent \cup {a}
           /\ [k EXCEPT !.list = k.list \ {a}, !.sent = k.sent \cup {a}].at = k.at
BY DEF Calls, Lists

\* The client before its first call has every variable in its domain.
LEMMA InitType == Init => TypeOK
<1> SUFFICES ASSUME Init
             PROVE  TypeOK
  OBVIOUS
<1>1. flight \in Flights
  BY RecordTypes DEF Init
<1>2. call \in [Callers -> Calls]
  BY DEF Init, Calls, Lists
<1>3. jobs \in Seq(Callers \X Addrs) /\ 0 \in 0 .. MaxChanges /\ workers \in Nat
  BY SCBounds DEF Init
<1> QED
  BY <1>1, <1>2, <1>3 DEF Init, TypeOK, Lists

\* Every action keeps the variables in their domains.
LEMMA StepType ==
    ASSUME TypeOK, [Next]_vars
    PROVE  TypeOK'
<1> USE DEF regVars, cacheVars, poolVars
<1>1. CASE Change
  <2>1. version + 1 \in 0 .. MaxChanges /\ registry' \in Lists
    BY <1>1, SCBounds DEF Change, TypeOK
  <2>2. pushes' \subseteq Pushes
    <3>1. [n |-> version + 1, list |-> registry'] \in Pushes
      BY <2>1 DEF Pushes
    <3> QED
      BY <1>1, <3>1 DEF Change, TypeOK
  <2> QED
    BY <1>1, <2>1, <2>2 DEF Change, TypeOK
<1>2. ASSUME NEW p \in pushes, ApplyPush(p)
      PROVE  TypeOK'
  <2>1. p.n \in 0 .. MaxChanges /\ p.list \in Lists
    BY DEF TypeOK, Pushes
  <2> QED
    BY <1>2, <2>1 DEF ApplyPush, SetCache, TypeOK
<1>3. ASSUME NEW c \in Callers, GetServiceAddrs(c) \/ Do(c)
      PROVE  TypeOK'
  <2>1. call[c] \in Calls /\ call \in [Callers -> Calls] /\ cache \in Lists /\ flight \in Flights
    BY DEF TypeOK
  <2>2. CASE GetServiceAddrs(c)
    <3>1. PICK l \in {"missed", "submit"} :
            call' = [call EXCEPT ![c] = [call[c] EXCEPT !.at = l, !.list = cache]]
      BY <2>2 DEF GetServiceAddrs
    <3>2. call' \in [Callers -> Calls]
      BY <2>1, <3>1, RecordTypes
    <3> QED
      BY <2>2, <3>2 DEF GetServiceAddrs, TypeOK
  <2>3. CASE Do(c)
    <3>1. call' = [call EXCEPT ![c] = [call[c] EXCEPT !.at = "waiting"]]
      BY <2>3 DEF Do
    <3>2. call' \in [Callers -> Calls]
      BY <2>1, <3>1, RecordTypes
    <3>3. flight' \in Flights
      BY <2>1, <2>3, RecordTypes DEF Do
    <3> QED
      BY <2>3, <3>2, <3>3 DEF Do, TypeOK
  <2> QED
    BY <1>3, <2>2, <2>3
<1>4. ASSUME NEW list \in Lists, Deliver(list)
      PROVE  flight' \in Flights /\ call' \in [Callers -> Calls]
  BY <1>4, RecordTypes DEF Deliver, TypeOK
<1>5. CASE DoubleCheck
  <2>1. flight' \in Flights /\ call' \in [Callers -> Calls]
    <3>1. cache \in Lists /\ flight \in Flights /\ call \in [Callers -> Calls]
      BY DEF TypeOK
    <3>2. CASE Deliver(cache)
      BY <1>4, <3>1, <3>2
    <3>3. CASE flight' = [flight EXCEPT !.at = "subscribe"] /\ UNCHANGED call
      <4>1. [flight EXCEPT !.at = "subscribe"] \in Flights
        BY <3>1, RecordTypes
      <4> QED
        BY <3>1, <3>3, <4>1
    <3> QED
      BY <1>5, <3>2, <3>3 DEF DoubleCheck
  <2> QED
    BY <1>5, <2>1 DEF DoubleCheck, TypeOK
<1>6. CASE EnsureSubscribed
  <2>1. flight' \in Flights
    BY <1>6, RecordTypes DEF EnsureSubscribed, TypeOK
  <2> QED
    BY <1>6, <2>1 DEF EnsureSubscribed, TypeOK
<1>7. CASE Fetch
  <2>1. flight' \in Flights
    <3>1. [at |-> "store", n |-> version, list |-> registry] \in Flights
      BY DEF TypeOK, Flights
    <3>2. NoFlight \in Flights
      BY RecordTypes
    <3> QED
      BY <1>7, <3>1, <3>2 DEF Fetch
  <2>2. call' \in [Callers -> Calls]
    <3>1. call \in [Callers -> Calls]
      BY DEF TypeOK
    <3>2. \A c \in Callers : [call[c] EXCEPT !.at = "failed"] \in Calls
      BY <3>1, RecordTypes
    <3> QED
      BY <1>7, <3>1, <3>2 DEF Fetch
  <2> QED
    BY <1>7, <2>1, <2>2 DEF Fetch, TypeOK
<1>8. CASE Store
  <2>1. flight.n \in 0 .. MaxChanges /\ flight.list \in Lists
    BY DEF TypeOK, Flights
  <2>2. flight' \in Flights /\ call' \in [Callers -> Calls]
    BY <1>4, <1>8, <2>1 DEF Store
  <2> QED
    BY <1>8, <2>1, <2>2 DEF Store, SetCache, TypeOK
<1>9. ASSUME NEW c \in Callers, FanOut(c)
      PROVE  TypeOK'
  <2>1. call[c] \in Calls /\ call \in [Callers -> Calls] /\ call[c].list \subseteq Addrs
    BY DEF TypeOK, Calls, Lists
  <2>2. ASSUME NEW a \in call[c].list, SubmitTask(c, a),
               call' = [call EXCEPT ![c].list = @ \ {a}, ![c].sent = @ \cup {a}]
        PROVE  jobs' \in Seq(Callers \X Addrs) /\ running' \subseteq Tasks
               /\ call' \in [Callers -> Calls]
    <3>1. a \in Addrs
      BY <2>1
    <3>2. call' = [call EXCEPT ![c] = [call[c] EXCEPT !.list = call[c].list \ {a},
                                                      !.sent = call[c].sent \cup {a}]]
      BY <2>1, <2>2
    <3>3. call' \in [Callers -> Calls]
      BY <2>1, <3>1, <3>2, CrossOff
    <3>4. <<c, a>> \in Callers \X Addrs /\ NewTask(c, a, FALSE) \in Tasks
      BY <3>1, RecordTypes
    <3>5. jobs' \in Seq(Callers \X Addrs) /\ running' \subseteq Tasks
      <4>1. jobs \in Seq(Callers \X Addrs) /\ running \subseteq Tasks
        BY DEF TypeOK
      <4>2. Append(jobs, <<c, a>>) \in Seq(Callers \X Addrs)
        BY <3>4, <4>1
      <4> QED
        BY <2>2, <3>4, <4>1, <4>2 DEF SubmitTask
    <3> QED
      BY <3>3, <3>5
  <2>3. ASSUME call' = [call EXCEPT ![c].at = "returned"]
        PROVE  call' \in [Callers -> Calls]
    <3>1. call' = [call EXCEPT ![c] = [call[c] EXCEPT !.at = "returned"]]
      BY <2>3
    <3> QED
      BY <2>1, <3>1, RecordTypes
  <2>4. jobs' \in Seq(Callers \X Addrs) /\ running' \subseteq Tasks /\ call' \in [Callers -> Calls]
    BY <1>9, <2>2, <2>3 DEF FanOut, TypeOK
  <2> QED
    BY <1>9, <2>4 DEF FanOut, TypeOK
<1>10. CASE TakeTask
  <2>1. jobs \in Seq(Callers \X Addrs) /\ jobs # <<>>
    BY <1>10 DEF TakeTask, TypeOK
  <2>2. Head(jobs) \in Callers \X Addrs /\ Tail(jobs) \in Seq(Callers \X Addrs)
    BY <2>1
  <2>3. NewTask(Head(jobs)[1], Head(jobs)[2], TRUE) \in Tasks
    BY <2>2, RecordTypes
  <2> QED
    BY <1>10, <2>2, <2>3 DEF TakeTask, TypeOK
<1>11. ASSUME NEW t \in running, TaskStep(t) \/ Panic(t)
       PROVE  TypeOK'
  <2>1. t \in Tasks /\ t.c \in Callers /\ t.a \in Addrs
    BY DEF TypeOK, Tasks
  <2>2. running' \subseteq Tasks
    <3>1. [t EXCEPT !.step = "dial"] \in Tasks /\ [t EXCEPT !.step = "rpc"] \in Tasks
      BY <2>1, RecordTypes
    <3>2. GoOn(t, "dial") \/ GoOn(t, "rpc") \/ running' = running \ {t}
      BY <1>11 DEF TaskStep, LookUp, Dial, Rpc, Panic
    <3> QED
      BY <3>1, <3>2 DEF GoOn, TypeOK
  <2>3. conns' \subseteq Addrs /\ dialed' \in [Addrs -> Nat]
    BY <1>11, <2>1 DEF TaskStep, LookUp, Dial, Rpc, Panic, TypeOK
  <2>4. reached' \in [Callers -> Lists] /\ dropped' \subseteq Callers \X Addrs
    BY <1>11, <2>1 DEF TaskStep, LookUp, Dial, Rpc, Panic, TypeOK, Lists
  <2> QED
    BY <1>11, <2>2, <2>3, <2>4 DEF TaskStep, LookUp, Dial, Rpc, Panic, TypeOK
<1>12. CASE UNCHANGED vars
  BY <1>12 DEF vars, TypeOK
<1> QED
  BY <1>1, <1>2, <1>3, <1>5, <1>6, <1>7, <1>8, <1>9, <1>10, <1>11, <1>12 DEF Next, Lookup

-----------------------------------------------------------------------------
(* Connections.                                                            *)

\* Only Dial opens a connection, and only where none is cached.
LEMMA StepDial ==
    ASSUME TypeOK, DialedOnce, [Next]_vars
    PROVE  DialedOnce'
<1>1. ASSUME NEW t \in running, Dial(t)
      PROVE  DialedOnce'
  <2>1. t.a \in Addrs /\ dialed \in [Addrs -> Nat]
    BY DEF TypeOK, Tasks
  <2>2. CASE t.a \in conns
    BY <1>1, <2>2 DEF Dial, DialedOnce
  <2>3. CASE t.a \notin conns
    <3>1. conns' = conns \cup {t.a} /\ dialed' = [dialed EXCEPT ![t.a] = dialed[t.a] + 1]
      BY <1>1, <2>3 DEF Dial
    <3>2. dialed[t.a] = 0
      BY <2>1, <2>3 DEF DialedOnce
    <3> QED
      BY <2>1, <3>1, <3>2 DEF DialedOnce
  <2> QED
    BY <2>2, <2>3
<1>2. CASE UNCHANGED <<conns, dialed>>
  BY <1>2 DEF DialedOnce
<1>3. (\E t \in running : Dial(t)) \/ UNCHANGED <<conns, dialed>>
  BY DEF Next, Change, ApplyPush, GetServiceAddrs, Do, FanOut, Lookup, DoubleCheck,
         EnsureSubscribed, Fetch, Store, TakeTask, TaskStep, LookUp, Rpc, Panic, vars, poolVars
<1> QED
  BY <1>1, <1>2, <1>3

-----------------------------------------------------------------------------
(* The cache.                                                              *)

\* Numbers, as the arithmetic below needs them.
LEMMA VersionsAreNumbers ==
    ASSUME TypeOK
    PROVE  /\ version \in Nat /\ stamp \in Nat /\ flight.n \in Nat
           /\ \A p \in pushes : p.n \in Nat
           /\ overtaken \in BOOLEAN /\ subscribed \in BOOLEAN
BY SCBounds DEF TypeOK, Flights, Pushes

\* Writing the list of version n to the cache leaves it fresh, if it was fresh and
\* all callbacks but one of version n are still there, or if n is the last version.
LEMMA WriteKeepsFresh ==
    ASSUME TypeOK, NEW n \in Nat, NEW list, SetCache(n, list),
           stamp <= version, n <= version, version' = version,
           \A p \in pushes : p \in pushes' \/ p.n = n,
           n = version \/ Fresh
    PROVE  Fresh'
<1>1. version \in Nat /\ stamp \in Nat /\ overtaken \in BOOLEAN
  BY VersionsAreNumbers
<1>2. stamp' = n /\ overtaken' = (overtaken \/ n < stamp)
  BY DEF SetCache
<1>3. CASE n = version
  BY <1>2, <1>3 DEF Fresh
<1>4. CASE n # version /\ overtaken
  BY <1>2, <1>4 DEF Fresh
<1>5. CASE n # version /\ stamp = version
  <2>1. n < stamp
    BY <1>1, <1>5
  <2>2. overtaken' = TRUE
    BY <1>2, <2>1
  <2> QED
    BY <2>2 DEF Fresh
<1>6. CASE n # version /\ \E p \in pushes : p.n = version
  BY <1>6 DEF Fresh
<1> QED
  BY <1>3, <1>4, <1>5, <1>6 DEF Fresh

\* The steps of the registry, the callbacks and the lookup keep track of the last
\* change of the registry.
LEMMA StepCache ==
    ASSUME TypeOK, CacheInv, [Next]_vars
    PROVE  CacheInv'
<1> USE DEF regVars, cacheVars
<1>1. ListsCurrent /\ PushesFollow
  BY DEF CacheInv
<1>2. /\ version \in Nat /\ stamp \in Nat /\ flight.n \in Nat
      /\ \A p \in pushes : p.n \in Nat
      /\ overtaken \in BOOLEAN /\ subscribed \in BOOLEAN
  BY VersionsAreNumbers
<1>3. NoFlight.at = "none"
  BY RecordTypes
<1>4. CASE Change
  <2>1. version' = version + 1 /\ UNCHANGED <<listening, cacheVars, subscribed, flight>>
    BY <1>4 DEF Change
  <2>2. subscribed => pushes' = pushes \cup {[n |-> version + 1, list |-> registry']}
    BY <1>1, <1>4 DEF Change, PushesFollow
  <2>3. ~subscribed => pushes' = {}
    BY <1>1, <1>4 DEF Change, PushesFollow
  <2>4. subscribed => Fresh'
    <3> PICK p : p = [n |-> version + 1, list |-> registry']
      OBVIOUS
    <3>1. p.n = version' /\ (subscribed => p \in pushes')
      BY <2>1, <2>2
    <3> QED
      BY <3>1 DEF Fresh
  <2>5. \A p \in pushes' : p.n <= version' /\ (p.n = version' => p.list = registry')
    BY <1>1, <1>2, <2>1, <2>2, <2>3 DEF ListsCurrent
  <2>6. ListsCurrent'
    BY <1>1, <1>2, <2>1, <2>5 DEF ListsCurrent
  <2>7. PushesFollow'
    BY <1>1, <1>2, <2>1, <2>3, <2>4 DEF PushesFollow
  <2> QED
    BY <2>6, <2>7 DEF CacheInv
<1>5. ASSUME NEW p \in pushes, ApplyPush(p)
      PROVE  CacheInv'
  <2>1. /\ UNCHANGED <<registry, version, listening, subscribed, flight>>
        /\ pushes' = pushes \ {p} /\ SetCache(p.n, p.list)
    BY <1>5 DEF ApplyPush
  <2>2. subscribed /\ Fresh
    BY <1>1, <1>2 DEF PushesFollow
  <2>3. stamp <= version /\ p.n <= version /\ p.n \in Nat
    BY <1>1, <1>2 DEF ListsCurrent
  <2>4. \A u \in pushes : u \in pushes' \/ u.n = p.n
    BY <2>1
  <2>5. Fresh'
    BY <2>1, <2>2, <2>3, <2>4, WriteKeepsFresh
  <2>6. ListsCurrent'
    BY <1>1, <2>1 DEF ListsCurrent, SetCache
  <2>7. PushesFollow'
    BY <1>1, <2>1, <2>2, <2>5 DEF PushesFollow
  <2> QED
    BY <2>6, <2>7 DEF CacheInv
<1>6. CASE Store
  <2>1. /\ UNCHANGED <<regVars, subscribed>> /\ flight' = NoFlight
        /\ SetCache(flight.n, flight.list) /\ flight.at = "store"
    BY <1>6 DEF Store, Deliver
  <2>2. stamp <= version /\ flight.n <= version
    BY <1>1, <2>1 DEF ListsCurrent
  <2>3. subscribed => Fresh'
    <3>1. subscribed => flight.n = version \/ Fresh
      BY <1>1, <2>1 DEF PushesFollow
    <3>2. \A p \in pushes : p \in pushes'
      BY <2>1
    <3> PICK n : n = flight.n
      OBVIOUS
    <3>3. n \in Nat /\ SetCache(n, flight.list) /\ n <= version /\ version' = version
      BY <1>2, <2>1, <2>2
    <3> QED
      BY <2>2, <3>1, <3>2, <3>3, WriteKeepsFresh
  <2>4. ListsCurrent'
    BY <1>1, <1>3, <2>1, <2>2 DEF ListsCurrent, SetCache
  <2>5. PushesFollow'
    BY <1>1, <1>2, <1>3, <2>1, <2>3 DEF PushesFollow
  <2> QED
    BY <2>4, <2>5 DEF CacheInv
<1>7. CASE EnsureSubscribed
  <2>1. /\ UNCHANGED <<registry, version, pushes, cacheVars>>
        /\ flight'.at = "fetch" /\ flight.at = "subscribe"
    BY <1>7, RecordTypes DEF EnsureSubscribed, TypeOK
  <2>2. Fresh' <=> Fresh
    BY <2>1 DEF Fresh
  <2>3. ListsCurrent'
    BY <1>1, <2>1 DEF ListsCurrent
  <2>4. CASE UNCHANGED <<subscribed, listening>>
    <3>1. PushesFollow'
      BY <1>1, <2>1, <2>2, <2>4 DEF PushesFollow
    <3> QED
      BY <2>3, <3>1 DEF CacheInv
  <2>5. CASE ~subscribed /\ subscribed' = TRUE /\ listening' = TRUE
    <3>1. cache = {} /\ pushes = {}
      BY <1>1, <2>1, <2>5 DEF PushesFollow
    <3>2. PushesFollow'
      BY <2>1, <2>5, <3>1 DEF PushesFollow
    <3> QED
      BY <2>3, <3>2 DEF CacheInv
  <2> QED
    BY <1>7, <2>4, <2>5 DEF EnsureSubscribed
<1>8. CASE Fetch
  <2>1. UNCHANGED <<regVars, cacheVars, subscribed>>
    BY <1>8 DEF Fetch
  <2>2. Fresh' <=> Fresh
    BY <2>1 DEF Fresh
  <2>3. \/ flight'.at = "store" /\ flight'.n = version /\ flight'.list = registry
        \/ flight'.at = "none"
    BY <1>3, <1>8 DEF Fetch
  <2>4. ListsCurrent'
    BY <1>1, <1>2, <2>1, <2>3 DEF ListsCurrent
  <2>5. PushesFollow'
    BY <1>1, <2>1, <2>2, <2>3 DEF PushesFollow
  <2> QED
    BY <2>4, <2>5 DEF CacheInv
<1>9. CASE DoubleCheck
  <2>1. UNCHANGED <<regVars, cacheVars, subscribed>>
    BY <1>9 DEF DoubleCheck
  <2>2. Fresh' <=> Fresh
    BY <2>1 DEF Fresh
  <2>3. flight'.at = "none" \/ (flight'.at = "subscribe" /\ cache = {})
    <3>1. [flight EXCEPT !.at = "subscribe"].at = "subscribe"
      BY RecordTypes DEF TypeOK
    <3> QED
      BY <1>3, <1>9, <3>1 DEF DoubleCheck, Deliver
  <2>4. ListsCurrent'
    BY <1>1, <2>1, <2>3 DEF ListsCurrent
  <2>5. PushesFollow'
    BY <1>1, <2>1, <2>2, <2>3 DEF PushesFollow
  <2> QED
    BY <2>4, <2>5 DEF CacheInv
<1>10. ASSUME NEW c \in Callers, Do(c)
       PROVE  CacheInv'
  <2>1. UNCHANGED <<regVars, cacheVars, subscribed>>
    BY <1>10 DEF Do
  <2>2. Fresh' <=> Fresh
    BY <2>1 DEF Fresh
  <2>3. flight' = flight \/ flight'.at = "check"
    BY <1>10, RecordTypes DEF Do, TypeOK
  <2>4. ListsCurrent'
    BY <1>1, <2>1, <2>3 DEF ListsCurrent
  <2>5. PushesFollow'
    BY <1>1, <2>1, <2>2, <2>3 DEF PushesFollow
  <2> QED
    BY <2>4, <2>5 DEF CacheInv
<1>11. CASE UNCHANGED <<regVars, cacheVars, subscribed, flight>>
  <2>1. Fresh' <=> Fresh
    BY <1>11 DEF Fresh
  <2> QED
    BY <1>1, <1>11, <2>1 DEF ListsCurrent, PushesFollow, CacheInv
<1>12. \/ Change \/ (\E p \in pushes : ApplyPush(p)) \/ Lookup \/ (\E c \in Callers : Do(c))
       \/ UNCHANGED <<regVars, cacheVars, subscribed, flight>>
  BY DEF Next, GetServiceAddrs, FanOut, TakeTask, TaskStep, LookUp, Dial, Rpc, Panic, vars
<1> QED
  BY <1>4, <1>5, <1>6, <1>7, <1>8, <1>9, <1>10, <1>11, <1>12 DEF Lookup

-----------------------------------------------------------------------------
(* The messages.                                                           *)

\* Steps of a call before its fan-out, and after it, send nothing.
LEMMA CallsFrame ==
    ASSUME TypeOK, MessageInv, UNCHANGED <<jobs, running, reached, dropped>>,
           \A c \in Callers : call'[c].sent = call[c].sent,
           CallsInOrder'
    PROVE  MessageInv'
<1>1. JobsDistinct' /\ TasksDistinct'
  BY DEF MessageInv, JobsDistinct, TasksDistinct
<1>2. ASSUME NEW c \in Callers, NEW a \in Addrs
      PROVE  OnePlace(c, a)'
  <2>1. OnePlace(c, a)
    BY DEF MessageInv
  <2> QED
    BY <2>1 DEF OnePlace, InQueue, InTask, Arrived, Lost
<1> QED
  BY <1>1, <1>2 DEF MessageInv

\* The lookup of addresses: the calls that wait get a list, nothing is sent.
LEMMA LookupMessages ==
    ASSUME TypeOK, MessageInv,
           \/ \E c \in Callers : GetServiceAddrs(c) \/ Do(c)
           \/ Lookup
    PROVE  MessageInv'
<1>1. UNCHANGED <<jobs, running, reached, dropped>>
  BY DEF GetServiceAddrs, Do, Lookup, DoubleCheck, EnsureSubscribed, Fetch, Store, poolVars
<1>2. call \in [Callers -> Calls] /\ CallsInOrder
  BY DEF TypeOK, MessageInv
<1>3. ASSUME NEW c \in Callers, GetServiceAddrs(c) \/ Do(c)
      PROVE  CallsInOrder' /\ \A d \in Callers : call'[d].sent = call[d].sent
  <2>1. PICK k : /\ call' = [call EXCEPT ![c] = k] /\ k.sent = call[c].sent
                 /\ call[c].at \in {"idle", "missed"}
    <3>1. call[c] \in Calls
      BY <1>2
    <3>2. CASE GetServiceAddrs(c)
      <4>1. PICK l \in {"missed", "submit"} :
              call' = [call EXCEPT ![c] = [call[c] EXCEPT !.at = l, !.list = cache]]
        BY <3>2 DEF GetServiceAddrs
      <4>2. [call[c] EXCEPT !.at = l, !.list = cache].sent = call[c].sent
        BY <3>1 DEF Calls
      <4> QED
        BY <3>2, <4>1, <4>2 DEF GetServiceAddrs
    <3>3. CASE Do(c)
      <4>1. call' = [call EXCEPT ![c] = [call[c] EXCEPT !.at = "waiting"]]
        BY <3>3 DEF Do
      <4>2. [call[c] EXCEPT !.at = "waiting"].sent = call[c].sent
        BY <3>1 DEF Calls
      <4> QED
        BY <3>3, <4>1, <4>2 DEF Do
    <3> QED
      BY <1>3, <3>2, <3>3
  <2>2. k.sent = {} /\ \A d \in Callers : call'[d] = IF d = c THEN k ELSE call[d]
    BY <1>2, <2>1 DEF CallsInOrder
  <2> QED
    BY <1>2, <2>1, <2>2 DEF CallsInOrder
<1>4. ASSUME NEW list, Deliver(list)
      PROVE  CallsInOrder' /\ \A d \in Callers : call'[d].sent = call[d].sent
  <2>1. \A d \in Callers : \/ call'[d] = call[d]
                           \/ call[d].at = "waiting" /\ call'[d].sent = call[d].sent
    BY <1>2, <1>4 DEF Deliver, Waiting, Calls
  <2> QED
    BY <1>2, <2>1 DEF CallsInOrder
<1>5. CASE Lookup
  <2>1. CASE UNCHANGED call
    <3>1. CallsInOrder'
      BY <1>2, <2>1 DEF CallsInOrder
    <3> QED
      BY <1>1, <2>1, <3>1, CallsFrame
  <2>2. CASE Fetch
    <3>1. \A d \in Callers : \/ call'[d] = call[d]
                             \/ call[d].at = "waiting" /\ call'[d].sent = call[d].sent
      BY <1>2, <2>2 DEF Fetch, Waiting, Calls
    <3>2. CallsInOrder' /\ \A d \in Callers : call'[d].sent = call[d].sent
      BY <1>2, <3>1 DEF CallsInOrder
    <3> QED
      BY <1>1, <3>2, CallsFrame
  <2>3. CASE \E list : Deliver(list)
    BY <1>1, <1>4, <2>3, CallsFrame
  <2>4. (UNCHANGED call) \/ Fetch \/ \E list : Deliver(list)
    BY <1>5 DEF Lookup, DoubleCheck, EnsureSubscribed, Store
  <2> QED
    BY <2>1, <2>2, <2>3, <2>4
<1> QED
  BY <1>1, <1>3, <1>5, CallsFrame

\* SubmitTask puts the message of an address that is still on the list into one
\* slot of the queue or one new task.
LEMMA SendMessages ==
    ASSUME TypeOK, MessageInv, NEW c \in Callers, FanOut(c)
    PROVE  MessageInv'
<1>1. call \in [Callers -> Calls] /\ call[c] \in Calls /\ CallsInOrder /\ call[c].at = "submit"
      /\ jobs \in Seq(Callers \X Addrs)
  BY DEF TypeOK, MessageInv, FanOut
<1>2. UNCHANGED <<reached, dropped>>
  BY DEF FanOut
<1>3. CASE call' = [call EXCEPT ![c].at = "returned"] /\ UNCHANGED <<jobs, running>>
  <2>1. \A d \in Callers : call'[d].sent = call[d].sent /\ call'[d].list = call[d].list
                           /\ (call'[d].at = call[d].at \/ call'[d].at = "returned")
    BY <1>1, <1>3 DEF Calls
  <2>2. CallsInOrder'
    BY <1>1, <2>1 DEF CallsInOrder
  <2> QED
    BY <1>2, <1>3, <2>1, <2>2, CallsFrame
<1>4. ASSUME NEW a \in call[c].list, SubmitTask(c, a),
             call' = [call EXCEPT ![c].list = @ \ {a}, ![c].sent = @ \cup {a}]
      PROVE  MessageInv'
  <2>1. a \in Addrs
    BY <1>1 DEF Calls, Lists
  <2>2. PICK k : k = [call[c] EXCEPT !.list = call[c].list \ {a}, !.sent = call[c].sent \cup {a}]
    OBVIOUS
  <2>3. k.list = call[c].list \ {a} /\ k.sent = call[c].sent \cup {a} /\ k.at = call[c].at
    BY <1>1, <2>1, <2>2, CrossOff
  <2>4. \A d \in Callers : call'[d] = IF d = c THEN k ELSE call[d]
    BY <1>1, <1>4, <2>2
  <2>5. CallsInOrder'
    BY <1>1, <2>3, <2>4 DEF CallsInOrder
  <2>6. ~InQueue(c, a) /\ ~InTask(c, a) /\ ~Arrived(c, a) /\ ~Lost(c, a)
    BY <1>1, <2>1 DEF MessageInv, OnePlace, CallsInOrder
  <2>7. \A d \in Callers, b \in Addrs :
          b \in call'[d].sent <=> b \in call[d].sent \/ (d = c /\ b = a)
    BY <2>3, <2>4
  <2>8. \A d \in Callers, b \in Addrs :
          (Arrived(d, b)' <=> Arrived(d, b)) /\ (Lost(d, b)' <=> Lost(d, b))
    BY <1>2 DEF Arrived, Lost
  <2>9. CASE jobs' = Append(jobs, <<c, a>>) /\ UNCHANGED running
    <3>1. DOMAIN jobs' = DOMAIN jobs \cup {Len(jobs) + 1} /\ jobs'[Len(jobs) + 1] = <<c, a>>
      BY <1>1, <2>9
    <3>2. \A i \in DOMAIN jobs : jobs'[i] = jobs[i] /\ jobs[i] # <<c, a>>
      BY <1>1, <2>6, <2>9 DEF InQueue
    <3>3. JobsDistinct' /\ TasksDistinct'
      BY <2>9, <3>1, <3>2 DEF MessageInv, JobsDistinct, TasksDistinct
    <3>4. \A d \in Callers, b \in Addrs : InQueue(d, b)' <=> InQueue(d, b) \/ (d = c /\ b = a)
      <4> SUFFICES ASSUME NEW d \in Callers, NEW b \in Addrs
                   PROVE  InQueue(d, b)' <=> InQueue(d, b) \/ (d = c /\ b = a)
        OBVIOUS
      <4>1. InQueue(d, b) => InQueue(d, b)'
        BY <3>1, <3>2 DEF InQueue
      <4>2. d = c /\ b = a => InQueue(d, b)'
        BY <3>1 DEF InQueue
      <4>3. InQueue(d, b)' => InQueue(d, b) \/ <<d, b>> = <<c, a>>
        BY <3>1, <3>2 DEF InQueue
      <4> QED
        BY <4>1, <4>2, <4>3
    <3>5. \A d \in Callers, b \in Addrs : InTask(d, b)' <=> InTask(d, b)
      BY <2>9 DEF InTask
    <3>6. \A d \in Callers, b \in Addrs : OnePlace(d, b)'
      BY <2>6, <2>7, <2>8, <3>4, <3>5 DEF MessageInv, OnePlace
    <3> QED
      BY <2>5, <3>3, <3>6 DEF MessageInv
  <2>10. CASE running' = running \cup {NewTask(c, a, FALSE)} /\ UNCHANGED jobs
    <3>1. PICK n : n = NewTask(c, a, FALSE)
      OBVIOUS
    <3>2. running' = running \cup {n} /\ n.c = c /\ n.a = a
      BY <2>1, <2>10, <3>1, RecordTypes
    <3>3. \A t \in running : ~(t.c = c /\ t.a = a)
      BY <2>6 DEF InTask
    <3>4. JobsDistinct' /\ TasksDistinct'
      BY <2>10, <3>2, <3>3 DEF MessageInv, JobsDistinct, TasksDistinct
    <3>5. \A d \in Callers, b \in Addrs : InTask(d, b)' <=> InTask(d, b) \/ (d = c /\ b = a)
      BY <3>2 DEF InTask
    <3>6. \A d \in Callers, b \in Addrs : InQueue(d, b)' <=> InQueue(d, b)
      BY <2>10 DEF InQueue
    <3>7. \A d \in Callers, b \in Addrs : OnePlace(d, b)'
      BY <2>6, <2>7, <2>8, <3>5, <3>6 DEF MessageInv, OnePlace
    <3> QED
      BY <2>5, <3>4, <3>7 DEF MessageInv
  <2> QED
    BY <1>4, <2>9, <2>10 DEF SubmitTask
<1> QED
  BY <1>3, <1>4 DEF FanOut

\* A worker moves the message at the head of the queue into a task.
LEMMA TakeMessages ==
    ASSUME TypeOK, MessageInv, TakeTask
    PROVE  MessageInv'
<1>1. jobs \in Seq(Callers \X Addrs) /\ jobs # <<>> /\ jobs' = Tail(jobs)
  BY DEF TypeOK, TakeTask
<1>2. UNCHANGED <<call, reached, dropped>>
  BY DEF TakeTask
<1>3. PICK c \in Callers, a \in Addrs : Head(jobs) = <<c, a>>
  BY <1>1
<1>4. 1 \in DOMAIN jobs /\ jobs[1] = <<c, a>>
  BY <1>1, <1>3
<1>5. PICK n : n = NewTask(c, a, TRUE)
  OBVIOUS
<1>6. running' = running \cup {n} /\ n.c = c /\ n.a = a
  <2>1. Head(jobs)[1] = c /\ Head(jobs)[2] = a
    BY <1>3
  <2> QED
    <3>1. n.c = c /\ n.a = a
      BY <1>5, RecordTypes
    <3>2. running' = running \cup {n}
      BY <1>5, <2>1 DEF TakeTask
    <3> QED
      BY <3>1, <3>2
<1>7. /\ \A i \in DOMAIN jobs' : i \in Nat /\ i + 1 \in DOMAIN jobs /\ jobs'[i] = jobs[i + 1]
                                 /\ i + 1 # 1
      /\ \A j \in DOMAIN jobs : j \in Nat /\ (j # 1 => j - 1 \in DOMAIN jobs' /\ jobs'[j - 1] = jobs[j])
  BY <1>1
<1>8. JobsDistinct
  BY DEF MessageInv
<1>9. JobsDistinct'
  <2> SUFFICES ASSUME NEW i \in DOMAIN jobs', NEW j \in DOMAIN jobs', jobs'[i] = jobs'[j]
               PROVE  i = j
    BY DEF JobsDistinct
  <2>1. i + 1 = j + 1
    BY <1>7, <1>8 DEF JobsDistinct
  <2> QED
    BY <1>7, <2>1
<1>10. InQueue(c, a) /\ ~InTask(c, a)
  <2>1. InQueue(c, a)
    BY <1>4 DEF InQueue
  <2> QED
    BY <2>1 DEF MessageInv, OnePlace
<1>11. TasksDistinct'
  <2>1. \A t \in running : ~(t.c = c /\ t.a = a)
    BY <1>10 DEF InTask
  <2> QED
    BY <1>6, <2>1 DEF MessageInv, TasksDistinct
<1>12. \A d \in Callers, b \in Addrs : InQueue(d, b)' <=> InQueue(d, b) /\ ~(d = c /\ b = a)
  <2> SUFFICES ASSUME NEW d \in Callers, NEW b \in Addrs
               PROVE  InQueue(d, b)' <=> InQueue(d, b) /\ ~(d = c /\ b = a)
    OBVIOUS
  <2>1. ASSUME NEW i \in DOMAIN jobs', jobs'[i] = <<d, b>>
        PROVE  InQueue(d, b) /\ ~(d = c /\ b = a)
    <3>1. jobs[i + 1] = <<d, b>> /\ i + 1 \in DOMAIN jobs /\ i + 1 # 1
      BY <1>7, <2>1
    <3> QED
      BY <1>4, <1>8, <3>1 DEF InQueue, JobsDistinct
  <2>2. ASSUME NEW j \in DOMAIN jobs, jobs[j] = <<d, b>>, ~(d = c /\ b = a)
        PROVE  InQueue(d, b)'
    <3>1. j # 1
      BY <1>4, <2>2
    <3> QED
      BY <1>7, <2>2, <3>1 DEF InQueue
  <2> QED
    BY <2>1, <2>2 DEF InQueue
<1>13. \A d \in Callers, b \in Addrs : InTask(d, b)' <=> InTask(d, b) \/ (d = c /\ b = a)
  BY <1>6 DEF InTask
<1>14. \A d \in Callers, b \in Addrs :
          (Arrived(d, b)' <=> Arrived(d, b)) /\ (Lost(d, b)' <=> Lost(d, b))
  BY <1>2 DEF Arrived, Lost
<1>15. \A d \in Callers, b \in Addrs : OnePlace(d, b)'
  BY <1>2, <1>10, <1>12, <1>13, <1>14 DEF MessageInv, OnePlace
<1>16. CallsInOrder'
  BY <1>2 DEF MessageInv, CallsInOrder
<1> QED
  BY <1>9, <1>11, <1>15, <1>16 DEF MessageInv

\* A task goes on with its message, or hands it over, or loses it.
LEMMA TaskMessages ==
    ASSUME TypeOK, MessageInv, NEW t \in running, TaskStep(t) \/ Panic(t)
    PROVE  MessageInv'
<1>1. t \in Tasks /\ t.c \in Callers /\ t.a \in Addrs
  BY DEF TypeOK, Tasks
<1>2. UNCHANGED <<jobs, call>>
  BY DEF TaskStep, LookUp, Dial, Rpc, Panic
<1>3. CallsInOrder' /\ JobsDistinct'
  BY <1>2 DEF MessageInv, CallsInOrder, JobsDistinct
<1>4. \A d \in Callers, b \in Addrs : InQueue(d, b)' <=> InQueue(d, b)
  BY <1>2 DEF InQueue
<1>5. InTask(t.c, t.a)
  BY DEF InTask
<1>6. \A u \in running : u.c = t.c /\ u.a = t.a => u = t
  BY DEF MessageInv, TasksDistinct
<1>7. CASE LookUp(t) \/ Dial(t)
  <2>1. UNCHANGED <<reached, dropped>>
    BY <1>7 DEF LookUp, Dial
  <2>2. PICK u : running' = (running \ {t}) \cup {u} /\ u.c = t.c /\ u.a = t.a
    <3>1. GoOn(t, "dial") \/ GoOn(t, "rpc")
      BY <1>7 DEF LookUp, Dial
    <3>2. CASE GoOn(t, "dial")
      <4>1. [t EXCEPT !.step = "dial"].c = t.c /\ [t EXCEPT !.step = "dial"].a = t.a
        BY <1>1, RecordTypes
      <4> QED
        BY <3>2, <4>1 DEF GoOn
    <3>3. CASE GoOn(t, "rpc")
      <4>1. [t EXCEPT !.step = "rpc"].c = t.c /\ [t EXCEPT !.step = "rpc"].a = t.a
        BY <1>1, RecordTypes
      <4> QED
        BY <3>3, <4>1 DEF GoOn
    <3> QED
      BY <3>1, <3>2, <3>3
  <2>3. TasksDistinct'
    BY <1>6, <2>2 DEF MessageInv, TasksDistinct
  <2>4. \A d \in Callers, b \in Addrs : InTask(d, b)' <=> InTask(d, b)
    BY <2>2 DEF InTask
  <2>5. \A d \in Callers, b \in Addrs : OnePlace(d, b)'
    BY <1>2, <1>4, <2>1, <2>4 DEF MessageInv, OnePlace, Arrived, Lost
  <2> QED
    BY <1>3, <2>3, <2>5 DEF MessageInv
<1>8. CASE Rpc(t) \/ Panic(t)
  <2>1. running' = running \ {t}
    BY <1>8 DEF Rpc, Panic
  <2>2. TasksDistinct'
    BY <2>1 DEF MessageInv, TasksDistinct
  <2>3. \A d \in Callers, b \in Addrs : InTask(d, b)' <=> InTask(d, b) /\ ~(d = t.c /\ b = t.a)
    BY <1>6, <2>1 DEF InTask
  <2>4. ~InQueue(t.c, t.a) /\ ~Arrived(t.c, t.a) /\ ~Lost(t.c, t.a)
    BY <1>1, <1>5 DEF MessageInv, OnePlace
  <2>5. CASE reached' = [reached EXCEPT ![t.c] = @ \cup {t.a}] /\ UNCHANGED dropped
    <3>1. \A d \in Callers, b \in Addrs :
            /\ Arrived(d, b)' <=> Arrived(d, b) \/ (d = t.c /\ b = t.a)
            /\ Lost(d, b)' <=> Lost(d, b)
      BY <1>1, <2>5 DEF Arrived, Lost, TypeOK
    <3>2. \A d \in Callers, b \in Addrs : OnePlace(d, b)'
      BY <1>2, <1>4, <1>5, <2>3, <2>4, <3>1 DEF MessageInv, OnePlace
    <3> QED
      BY <1>3, <2>2, <3>2 DEF MessageInv
  <2>6. CASE dropped' = dropped \cup {<<t.c, t.a>>} /\ UNCHANGED reached
    <3>1. \A d \in Callers, b \in Addrs :
            /\ Lost(d, b)' <=> Lost(d, b) \/ (d = t.c /\ b = t.a)
            /\ Arrived(d, b)' <=> Arrived(d, b)
      BY <2>6 DEF Arrived, Lost
    <3>2. \A d \in Callers, b \in Addrs : OnePlace(d, b)'
      BY <1>2, <1>4, <1>5, <2>3, <2>4, <3>1 DEF MessageInv, OnePlace
    <3> QED
      BY <1>3, <2>2, <3>2 DEF MessageInv
  <2> QED
    BY <1>8, <2>5, <2>6 DEF Rpc, Panic
<1> QED
  BY <1>7, <1>8 DEF TaskStep

-----------------------------------------------------------------------------
(* What the client guarantees.                                             *)

\* ClientInv holds in every reachable state.
THEOREM ClientInvariant == Spec => []ClientInv
<1>1. Init => ClientInv
  <2> SUFFICES ASSUME Init
               PROVE  ClientInv
    OBVIOUS
  <2>1. DialedOnce
    BY DEF Init, DialedOnce
  <2>2. CacheInv
    <3>1. flight.at = "none" /\ stamp = 0 /\ version = 0 /\ cache = {} /\ pushes = {}
          /\ subscribed = FALSE /\ listening = FALSE
      BY RecordTypes DEF Init
    <3>2. ListsCurrent
      BY <3>1 DEF ListsCurrent
    <3>3. PushesFollow
      BY <3>1, Zenon DEF PushesFollow
    <3> QED
      BY <3>2, <3>3 DEF CacheInv
  <2>3. MessageInv
    BY DEF Init, MessageInv, CallsInOrder, JobsDistinct, TasksDistinct, OnePlace, InQueue,
           InTask, Arrived, Lost
  <2> QED
    BY <2>1, <2>2, <2>3, InitType DEF ClientInv
<1>2. ASSUME ClientInv, [Next]_vars
      PROVE  ClientInv'
  <2>1. TypeOK /\ DialedOnce /\ CacheInv /\ MessageInv
    BY <1>2 DEF ClientInv
  <2>2. TypeOK' /\ DialedOnce' /\ CacheInv'
    BY <1>2, <2>1, StepType, StepDial, StepCache
  <2>3. MessageInv'
    <3>1. CASE UNCHANGED <<call, jobs, running, reached, dropped>>
      <4>1. CallsInOrder'
        BY <2>1, <3>1 DEF MessageInv, CallsInOrder
      <4> QED
        BY <2>1, <3>1, <4>1, CallsFrame
    <3>2. Change \/ (\E p \in pushes : ApplyPush(p)) \/ UNCHANGED vars
            => UNCHANGED <<call, jobs, running, reached, dropped>>
      BY DEF Change, ApplyPush, vars, poolVars
    <3> QED
      BY <1>2, <2>1, <3>1, <3>2, LookupMessages, SendMessages, TakeMessages, TaskMessages
         DEF Next
  <2> QED
    BY <2>2, <2>3 DEF ClientInv
<1> QED
  BY <1>1, <1>2, PTL DEF Spec

\* getConnDirect opens one connection to an address, however many tasks find none
\* under the read lock.
THEOREM OneConnectionEach == Spec => []DialedOnce
BY ClientInvariant, PTL DEF ClientInv

\* The subscription keeps the cache up to date, unless an older list has replaced a
\* newer one: the client subscribes before it fetches, so no change is missed.
THEOREM CacheStaysFresh == Spec => []FreshUnlessOvertaken
<1>1. ClientInv => FreshUnlessOvertaken
  BY DEF ClientInv, CacheInv, ListsCurrent, PushesFollow, Fresh, FreshUnlessOvertaken
<1> QED
  BY <1>1, ClientInvariant, PTL

\* SubmitTask, the workers and the goroutines beside them neither lose a message
\* nor send it twice: it is counted in one place, once it has been sent.
THEOREM MessagesSentOnce == Spec => []SentOnce
<1>1. ClientInv => SentOnce
  <2> SUFFICES ASSUME ClientInv, NEW c \in Callers, NEW a \in Addrs
               PROVE  Places(c, a) = IF a \in call[c].sent THEN 1 ELSE 0
    BY DEF SentOnce
  <2> DEFINE Q == {i \in 1 .. Len(jobs) : jobs[i] = <<c, a>>}
             R == {t \in running : t.c = c /\ t.a = a}
  <2>1. OnePlace(c, a) /\ JobsDistinct /\ TasksDistinct
    BY DEF ClientInv, MessageInv
  <2>2. DOMAIN jobs = 1 .. Len(jobs)
    BY DEF ClientInv, TypeOK
  <2>3. Cardinality(Q) = IF InQueue(c, a) THEN 1 ELSE 0
    <3>1. CASE InQueue(c, a)
      <4>1. PICK i \in DOMAIN jobs : jobs[i] = <<c, a>>
        BY <3>1 DEF InQueue
      <4>2. Q = {i}
        BY <2>1, <2>2, <4>1 DEF JobsDistinct
      <4> QED
        BY <3>1, <4>2, FS_Singleton
    <3>2. CASE ~InQueue(c, a)
      <4>1. Q = {}
        BY <2>2, <3>2 DEF InQueue
      <4> QED
        BY <3>2, <4>1, FS_EmptySet
    <3> QED
      BY <3>1, <3>2
  <2>4. Cardinality(R) = IF InTask(c, a) THEN 1 ELSE 0
    <3>1. CASE InTask(c, a)
      <4>1. PICK t \in running : t.c = c /\ t.a = a
        BY <3>1 DEF InTask
      <4>2. R = {t}
        BY <2>1, <4>1 DEF TasksDistinct
      <4> QED
        BY <3>1, <4>2, FS_Singleton
    <3>2. CASE ~InTask(c, a)
      <4>1. R = {}
        BY <3>2 DEF InTask
      <4> QED
        BY <3>2, <4>1, FS_EmptySet
    <3> QED
      BY <3>1, <3>2
  <2>5. Places(c, a) = Cardinality(Q) + Cardinality(R)
                       + (IF Arrived(c, a) THEN 1 ELSE 0) + (IF Lost(c, a) THEN 1 ELSE 0)
    BY DEF Places, Arrived, Lost
  <2> HIDE DEF Q, R
  <2> QED
    BY <2>1, <2>3, <2>4, <2>5 DEF OnePlace
<1> QED
  BY <1>1, ClientInvariant, PTL

=============================================================================
