----------------------------- MODULE OpsCenter -----------------------------
(***************************************************************************)
(* The ops centre and the processes it watches.  An operator lists the     *)
(* services, records the performance of an instance (a long call of its    *)
(* AdminServer, while the instance may be told to stop), browses and       *)
(* deletes the recordings kept on disk, and opens their files in viewers   *)
(* (PprofSessions).                                                        *)
(*                                                                         *)
(* A recording request, its collection and the folder it is saved in have  *)
(* one name here; the files of a folder are <<folder, kind>>.  The         *)
(* operator may act on what the browser showed some time ago: an instance  *)
(* that is gone, a folder that was deleted.                                *)
(***************************************************************************)
EXTENDS AdminServer, PprofSessions

CONSTANT FileKinds   \* "cpu", "trace", "heap", ...: the files of a folder

ASSUME FilesOfFolders == Files = Collections \X FileKinds

VARIABLES
    project,   \* the game project could be initialised
    known,     \* the addresses that were listed, now or some time ago
    record     \* record[c]: the HTTP request for collection c and its folder

opsVars == <<project, known, record>>
vars == <<procVars, adminVars, sessionVars, opsVars>>

\* Without a Nacos client the project is left out, for good.
initProjects == project = TRUE \/ ("init" \in Faults /\ project = FALSE)

Init ==
    /\ ProcInit /\ AdminInit /\ SessionsInit
    /\ initProjects
    /\ known = {}
    /\ record = [c \in Collections |-> "idle"]

-----------------------------------------------------------------------------
(* The services.                                                           *)

\* A request for a project that was left out is answered 400.
getProjectContext == project

\* The services that have an address.
GetAllServicesList == {service[p] : p \in registry}

\* handleListServices: the addresses of every service; a service for which Nacos
\* fails is listed without any.
ListServices ==
    /\ getProjectContext
    /\ \E S \in SUBSET GetAllServicesList :
         /\ S = GetAllServicesList \/ "nacos" \in Faults
         /\ known' = known \cup {p \in registry : service[p] \in S}
    /\ UNCHANGED <<procVars, adminVars, sessionVars, project, record>>

\* handleRecordPerformance: the instance chosen in the browser is called, or a
\* registered one; the call fails if there is none or it does not serve.
RecordPerformance(c) ==
    /\ record[c] = "idle"
    /\ \/ \E p \in known \cup registry :
            /\ getProjectContext /\ server[p] = "serving"
            /\ Accept(c, p)
            /\ record' = [record EXCEPT ![c] = "waiting"]
       \/ /\ \/ ~getProjectContext \/ registry = {} \/ "rpc" \in Faults
             \/ \E p \in known \cup registry : server[p] # "serving"
          /\ record' = [record EXCEPT ![c] = "failed"]
          /\ UNCHANGED call
    /\ UNCHANGED <<procVars, rates, cpu, tracer, sessionVars, project, known>>

\* CollectPerformance reads chunks until the stream ends.
Receive(c) ==
    /\ record[c] = "waiting" /\ call[c].pc = "done"
    /\ record' = [record EXCEPT ![c] = "received"]
    /\ UNCHANGED <<procVars, adminVars, sessionVars, project, known>>

\* The stream fails, or the duration and ten seconds are over: the request is
\* answered with an error and the context of the call is done.
GiveUp(c) ==
    /\ record[c] = "waiting"
    /\ record' = [record EXCEPT ![c] = "failed"]
    /\ call' = [call EXCEPT ![c] = IF Active(c) THEN [@ EXCEPT !.ctx = FALSE]
                                                ELSE [NoHandler EXCEPT !.pc = "failed"]]
    /\ UNCHANGED <<procVars, rates, cpu, tracer, sessionVars, project, known>>

\* The files are written into a new folder.
SaveFiles(c) ==
    /\ record[c] = "received"
    /\ \/ record' = [record EXCEPT ![c] = "saved"]
       \/ "storage" \in Faults /\ record' = [record EXCEPT ![c] = "failed"]
    /\ UNCHANGED <<procVars, adminVars, sessionVars, project, known>>

-----------------------------------------------------------------------------
(* The recordings.                                                         *)

\* handleListPerformanceHistory: the folders on disk.
History == {c \in Collections : record[c] = "saved"}

\* handleDeletePerformanceHistory.  It then looks for sessions whose key starts
\* with the folder's name and a slash; the keys are absolute paths, so there are
\* none, and the viewers of the folder stay.
DeletePerformanceHistory(c) ==
    /\ c \in History
    /\ record' = [record EXCEPT ![c] = "deleted"]
    /\ UNCHANGED <<procVars, adminVars, sessionVars, project, known>>

\* The same for the empty name, which the checks let pass: it stands for the
\* directory that holds the folders, and every key starts with a slash.
DeleteStorage ==
    /\ record' = [c \in Collections |-> IF c \in History THEN "deleted" ELSE record[c]]
    /\ KillAll
    /\ UNCHANGED <<procVars, adminVars, project, known>>

\* handlePprofProxy for a file that is, or was, in the history.
PprofProxy(f) ==
    /\ record[f[1]] \in {"saved", "deleted"}
    /\ Reuse(f) \/ StartTool(f, "tool" \in Faults)
    /\ UNCHANGED <<procVars, adminVars, opsVars>>

-----------------------------------------------------------------------------
Life(p) == LifeStep(p) /\ UNCHANGED <<sessionVars, opsVars>>

Shutdown(p) == ShutdownStep(p) /\ UNCHANGED <<sessionVars, opsVars>>

Handler(c) == Handle(c) /\ UNCHANGED <<procVars, sessionVars, opsVars>>

Viewer(t) == (ToolEnds(t) \/ Reap(t)) /\ UNCHANGED <<procVars, adminVars, opsVars>>

Monitor == Cleanup /\ UNCHANGED <<procVars, adminVars, opsVars>>

TimePasses == Idle /\ UNCHANGED <<procVars, adminVars, opsVars>>

Next == \/ \E p \in Procs : Life(p) \/ Shutdown(p)
        \/ \E c \in Collections : \/ RecordPerformance(c) \/ Receive(c) \/ GiveUp(c)
                                  \/ SaveFiles(c) \/ DeletePerformanceHistory(c)
                                  \/ Handler(c)
        \/ \E f \in Files : PprofProxy(f)
        \/ \E t \in Tools : Viewer(t)
        \/ ListServices \/ DeleteStorage \/ Monitor \/ TimePasses

\* Time passes and the cleanup monitor ticks.
Fairness == WF_sessionVars(Cleanup) /\ WF_sessionVars(Idle)

Spec == Init /\ [][Next]_vars
FairSpec == Spec /\ Fairness

-----------------------------------------------------------------------------
(* Properties.                                                             *)

\* CollectPerformanceData is never left with profiling on: a process that serves
\* no collection has its rates at 0, no CPU profile and no trace, although calls
\* overlap, fail half-way and are cancelled.
ProfilingOff ==
    \A p \in Procs : ~Busy(p) => p \notin rates /\ cpu[p] = NoCall /\ tracer[p] = NoCall

\* A call that collects owns both the CPU profile and the trace of its process,
\* however many other calls start, fail and clean up meanwhile.  Only the block and
\* mutex profiles can be switched off under it, by the return of another call.
CollectorOwnsProfiles ==
    \A c \in Collections : call[c].pc = "collect" =>
        /\ cpu[call[c].at] = c /\ tracer[call[c].at] = c
        /\ call[c].at \in rates \/ \E d \in Collections : call[d].pc \in {"done", "failed"}

\* Once a main has deregistered its address, Nacos does not list it any more while
\* the process drains and after it, unless Nacos failed to hear of it or the user
\* service's goroutine registered once more, which main does not wait for.
UnlistedOnceDeregistered ==
    \A p \in Procs :
        /\ p \notin lingering
        /\ phase[p] = "exited" \/ (Quitting(p) /\ ~IsNext(p, "deregister"))
        => p \notin registry

\* A main that was told to stop has a next step to take by itself until it is gone,
\* whatever the calls it still serves do: a collection of up to ten minutes cannot hold
\* it up.  (Each of these steps leaves it less to do.)
ShutdownGoesOn == \A p \in Procs : Quitting(p) => ENABLED Shutdown(p)

\* No viewer is left behind: one that runs and has not been killed is in the table,
\* and the table is never longer than its limit.
ViewersTracked ==
    /\ Len(sessions) <= MaxPprofSessions
    /\ \A t \in Tools : viewer[t].state = "running" => Contains(sessions, t)

\* The inductive invariants behind these, proved in OpsCenterProofs.

\* Every variable stays in its domain, and only instances are listed.
TypeOK ==
    /\ service \in [Procs -> Services] /\ phase \in [Procs -> ProcPhases]
    /\ todo \in [Procs -> Seq(Steps)] /\ reg \in [Procs -> {"none", "trying", "over"}]
    /\ registry \subseteq Procs /\ known \subseteq Procs
    /\ rates \subseteq Procs
    /\ cpu \in [Procs -> Collections \cup {NoCall}] /\ tracer \in [Procs -> Collections \cup {NoCall}]
    /\ call \in [Collections -> [pc : CallPcs, at : Procs \cup {NoCall},
                                 ctx : BOOLEAN, full : BOOLEAN]]
    /\ record \in [Collections -> {"idle", "waiting", "received", "saved", "deleted", "failed"}]

\* A profile that is on is that of a call which will turn it off.
ProfilesOwned ==
    /\ \A c \in Collections :
          /\ record[c] = "idle" => call[c].pc = "idle"
          /\ Active(c) => call[c].at \in Procs
          /\ call[c].pc \in {"trace", "collect"} => cpu[call[c].at] = c
          /\ call[c].pc \in {"collect", "stop"} => tracer[call[c].at] = c
    /\ \A p \in Procs, c \in Collections :
          /\ cpu[p] = c => call[c].at = p /\ call[c].pc \in {"trace", "collect"}
          /\ tracer[p] = c => call[c].at = p /\ call[c].pc \in {"collect", "stop"}
    /\ \A p \in rates : Busy(p)

\* From EnableProfiles on the rates of a call's process are on, or some call has
\* returned.
RatesHeld ==
    \A c \in Collections : call[c].pc \in {"cpu", "trace", "collect"} =>
        call[c].at \in rates \/ \E d \in Collections : call[d].pc \in {"done", "failed"}

\* main registers before it deregisters, which it does right after the signal; an
\* address that Nacos lists belongs to a main that has yet to deregister it, unless
\* the main died.
Listed ==
    \A p \in Procs :
        /\ \A i, j \in DOMAIN todo[p] :
              /\ todo[p][i] = "register" /\ todo[p][j] = "deregister" => i < j
              /\ todo[p][j] = "deregister" /\ j = i + 1 => todo[p][i] = "wait"
        /\ Contains(todo[p], "register") => Contains(todo[p], "deregister")
        /\ reg[p] = "trying" => RegistersAside(p) /\ phase[p] = "main"
        /\ p \in registry /\ p \notin lingering =>
              phase[p] \in {"killed", "terminated", "panicked"}
              \/ (phase[p] = "main" /\ Contains(todo[p], "deregister"))

\* The table holds viewers, and every running one.
TableInv ==
    /\ sessions \in Seq(Tools)
    /\ viewer \in [Tools -> [file : Files \cup {NoFile},
                            state : {"unused", "running", "killed", "exited", "signaled", "over"}]]
    /\ ViewersTracked

\* A file has a viewer only as long as the operator keeps coming back to it: once
\* nobody asks for the file any more, its viewer ends, is evicted or is found idle,
\* although other files are looked at for ever.
ViewersEnd ==
    \A f \in Files :
        \/ []<><<PprofProxy(f)>>_vars
        \/ <>[](\A t \in Tools : viewer[t].file = f => viewer[t].state # "running")
=============================================================================
