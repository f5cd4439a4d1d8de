---------------------------- MODULE AdminServer ----------------------------
(***************************************************************************)
(* AdminService.CollectPerformanceData, which every microservice offers on *)
(* its gRPC server.  It works on state of the whole process (the block and *)
(* mutex profile rates, the one CPU profile, the one execution trace), and *)
(* nothing keeps two calls from running at once; its context ends when the *)
(* client gives up or when the server is stopped by force.                 *)
(***************************************************************************)
EXTENDS ServiceProcess

CONSTANTS Collections,   \* the calls of a behaviour
          NoCall

ASSUME AdminNames == NoCall \notin Collections

VARIABLES
    rates,        \* the processes whose block and mutex profiles are on
    cpu, tracer,  \* cpu[p], tracer[p]: the call that started p's CPU profile, trace
    call          \* call[c]: the handler of call c

adminVars == <<rates, cpu, tracer, call>>

CallPcs == {"idle", "enable", "cpu", "trace", "collect", "stop", "send", "done", "failed"}

NoHandler == [pc |-> "idle", at |-> NoCall, ctx |-> TRUE, full |-> TRUE]

AdminInit ==
    /\ rates = {}
    /\ cpu = [p \in Procs |-> NoCall] /\ tracer = [p \in Procs |-> NoCall]
    /\ call = [c \in Collections |-> NoHandler]

Active(c) == call[c].pc \notin {"idle", "done", "failed"}
Busy(p) == \E c \in Collections : Active(c) /\ call[c].at = p

\* The handler returns; its defer turns the rates off.
Return(c, how) ==
    /\ call' = [call EXCEPT ![c] = [NoHandler EXCEPT !.pc = how]]
    /\ rates' = rates \ {call[c].at}

\* A serving process takes the call.
Accept(c, p) == call' = [call EXCEPT ![c] = [NoHandler EXCEPT !.pc = "enable", !.at = p]]

\* Block and mutex profiling on.
EnableProfiles(c) ==
    /\ call[c].pc = "enable"
    /\ rates' = rates \cup {call[c].at}
    /\ call' = [call EXCEPT ![c].pc = "cpu"]
    /\ UNCHANGED <<cpu, tracer>>

BugStartCPUProfile(c) ==
    LET p == call[c].at IN
    /\ call[c].pc = "cpu"
    /\ \/ /\ cpu[p] = NoCall
          /\ cpu' = [cpu EXCEPT ![p] = c]
          /\ call' = [call EXCEPT ![c].pc = "trace"]
          /\ UNCHANGED rates
       \/ /\ cpu[p] # NoCall
          /\ cpu' = [cpu EXCEPT ![p] = NoCall]
          /\ Return(c, "failed")
    /\ UNCHANGED tracer

\* Fails if the process is being profiled already.
StartCPUProfile(c) ==
    LET p == call[c].at IN
    /\ call[c].pc = "cpu"
    /\ \/ /\ cpu[p] = NoCall
          /\ cpu' = [cpu EXCEPT ![p] = c]
          /\ call' = [call EXCEPT ![c].pc = "trace"]
          /\ UNCHANGED rates
       \/ /\ cpu[p] # NoCall
          /\ Return(c, "failed")
          /\ UNCHANGED cpu
    /\ UNCHANGED tracer

BugStartTrace(c) ==
    LET p == call[c].at IN
    /\ call[c].pc = "trace"
    /\ \/ /\ tracer[p] = NoCall
          /\ tracer' = [tracer EXCEPT ![p] = c]
          /\ call' = [call EXCEPT ![c].pc = "collect"]
          /\ UNCHANGED <<rates, cpu>>
       \/ /\ tracer[p] # NoCall
          /\ Return(c, "failed")
          /\ UNCHANGED <<cpu, tracer>>

\* Fails if the process is being traced, which another call does between its
\* two stops; the CPU profile is then stopped again.
StartTrace(c) ==
    LET p == call[c].at IN
    /\ call[c].pc = "trace"
    /\ \/ /\ tracer[p] = NoCall
          /\ tracer' = [tracer EXCEPT ![p] = c]
          /\ call' = [call EXCEPT ![c].pc = "collect"]
          /\ UNCHANGED <<rates, cpu>>
       \/ /\ tracer[p] # NoCall
          /\ cpu' = [cpu EXCEPT ![p] = NoCall]
          /\ Return(c, "failed")
          /\ UNCHANGED tracer

\* The time is over or the context is done; both paths stop the CPU profile,
\* whoever started it, and then the trace.
StopCPUProfile(c) ==
    /\ call[c].pc = "collect"
    /\ \E timeUp \in {TRUE, call[c].ctx} :
         call' = [call EXCEPT ![c].pc = "stop", ![c].full = timeUp]
    /\ cpu' = [cpu EXCEPT ![call[c].at] = NoCall]
    /\ UNCHANGED <<rates, tracer>>

StopTrace(c) ==
    /\ call[c].pc = "stop"
    /\ tracer' = [tracer EXCEPT ![call[c].at] = NoCall]
    /\ \/ /\ call[c].full
          /\ call' = [call EXCEPT ![c].pc = "send"]
          /\ UNCHANGED rates
       \/ ~call[c].full /\ Return(c, "failed")
    /\ UNCHANGED cpu

\* The snapshots are taken and everything is sent in chunks, until a send
\* fails.
SendData(c) ==
    /\ call[c].pc = "send"
    /\ \/ call[c].ctx /\ Return(c, "done")
       \/ (~call[c].ctx \/ "rpc" \in Faults) /\ Return(c, "failed")
    /\ UNCHANGED <<cpu, tracer>>

Handle(c) == \/ EnableProfiles(c) \/ StartCPUProfile(c) \/ StartTrace(c)
             \/ StopCPUProfile(c) \/ StopTrace(c) \/ SendData(c)

\* grpcServer.Stop cancels the contexts of the calls at p.
CancelCalls(p) ==
    call' = [c \in Collections |-> IF Active(c) /\ call[c].at = p
                                   THEN [call[c] EXCEPT !.ctx = FALSE] ELSE call[c]]

\* The end of the process ends its calls.
CutCalls(p) ==
    /\ call' = [c \in Collections |-> IF Active(c) /\ call[c].at = p
                                      THEN [NoHandler EXCEPT !.pc = "failed"] ELSE call[c]]
    /\ rates' = rates \ {p}
    /\ cpu' = [cpu EXCEPT ![p] = NoCall] /\ tracer' = [tracer EXCEPT ![p] = NoCall]

IfEnded(p) == IF phase'[p] # "main" THEN CutCalls(p) ELSE UNCHANGED adminVars

\* The steps of process p, and what they do to the calls it serves.
LifeStep(p) ==
    \/ (Launch(p) \/ RegisterAside(p) \/ RegisterService(p) \/ Expire(p)) /\ UNCHANGED adminVars
    \/ (Open(p) \/ Serve(p) \/ Signal(p) \/ Crash(p)) /\ IfEnded(p)

ShutdownStep(p) ==
    \/ (StopPart(p) \/ GracefulStop(p) \/ Drained(p, Busy(p))) /\ UNCHANGED adminVars
    \/ ForceStop(p, Busy(p)) /\ CancelCalls(p) /\ UNCHANGED <<rates, cpu, tracer>>
    \/ (DeregisterService(p) \/ Exit(p)) /\ IfEnded(p)
=============================================================================
