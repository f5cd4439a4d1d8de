-------------------------- MODULE OpsCenterProofs --------------------------
(***************************************************************************)
(* Proofs about OpsCenter: profiling is never left on and a call that      *)
(* collects owns its profiles (from TypeOK, ProfilesOwned, RatesHeld), a   *)
(* deregistered address is not listed (from Listed), and no viewer is      *)
(* left behind (from TableInv).                                            *)
(*                                                                         *)
(* The arguments touch different variables, so each has an inductive       *)
(* invariant of its own.  The last one needs to know what Drop's recursion *)
(* leaves of a table; that is shown for every table by looking at the      *)
(* least prefix for which it would be wrong.                               *)
(***************************************************************************)
EXTENDS OpsCenter, Integers, SequenceTheorems, WellFoundedInduction, TLAPS

-----------------------------------------------------------------------------
(* The processes and the calls they serve.                                 *)

\* The steps of process p, its calls left aside.
ProcSteps(p) == \/ Open(p) \/ Launch(p) \/ Serve(p) \/ RegisterAside(p) \/ RegisterService(p)
                \/ Signal(p) \/ DeregisterService(p) \/ StopPart(p) \/ GracefulStop(p)
                \/ Drained(p, Busy(p)) \/ ForceStop(p, Busy(p)) \/ Exit(p) \/ Crash(p) \/ Expire(p)

\* What a step of a process does to the calls it serves.
LEMMA ProcStepOf ==
  ASSUME NEW p \in Procs, Life(p) \/ Shutdown(p)
  PROVE  /\ ProcSteps(p)
         /\ \/ UNCHANGED adminVars \/ CutCalls(p)
            \/ CancelCalls(p) /\ UNCHANGED <<rates, cpu, tracer>>
         /\ UNCHANGED <<sessionVars, opsVars>>
<1>1. CASE Life(p)
  BY <1>1 DEF Life, LifeStep, IfEnded, ProcSteps
<1>2. CASE Shutdown(p)
  BY <1>2 DEF Shutdown, ShutdownStep, IfEnded, ProcSteps
<1> QED BY <1>1, <1>2

\* The lists of steps are sequences of strings.
LEMMA MainType ==
  ASSUME NEW s \in Services
  PROVE  Main(s) \in Seq(Steps)
<1>a. GatewayMain \in Seq(Steps)
  BY DEF GatewayMain, Steps
<1>b. GmsMain \in Seq(Steps)
  BY DEF GmsMain, Steps
<1>c. GsMain \in Seq(Steps)
  BY DEF GsMain, Steps
<1>d. UserMain \in Seq(Steps)
  BY DEF UserMain, Steps
<1>e. MonolithMain \in Seq(Steps)
  BY DEF MonolithMain, Steps
<1>2. s \in {"gateway", "gms", "gs", "user", "monolith"}
  BY ProcessConstants
<1> QED BY <1>a, <1>b, <1>c, <1>d, <1>e, <1>2 DEF Main

\* The types of the variables of the processes.
ProcType ==
    /\ service \in [Procs -> Services] /\ phase \in [Procs -> ProcPhases]
    /\ todo \in [Procs -> Seq(Steps)] /\ reg \in [Procs -> {"none", "trying", "over"}]
    /\ registry \subseteq Procs

\* A step of a process keeps its own variables typed.
LEMMA ProcTyped ==
  ASSUME ProcType, NEW p \in Procs, ProcSteps(p)
  PROVE  ProcType'
<1> USE DEF ProcType
<1>a. ASSUME todo[p] # <<>>, Advance(p)
      PROVE  todo' \in [Procs -> Seq(Steps)]
  <2>1. Tail(todo[p]) \in Seq(Steps)
    BY <1>a, HeadTailProperties
  <2> QED BY <1>a, <2>1 DEF Advance
<1>b. ASSUME NEW how \in ProcPhases, End(p, how)
      PROVE  /\ todo' \in [Procs -> Seq(Steps)]
             /\ phase' \in [Procs -> ProcPhases]
             /\ reg' \in [Procs -> {"none", "trying", "over"}]
  <2>1. <<>> \in Seq(Steps)
    BY EmptySeq
  <2> QED BY <1>b, <2>1 DEF End
<1>z. {"exited", "killed", "terminated", "panicked"} \subseteq ProcPhases
  BY DEF ProcPhases
<1>1. CASE Open(p)
  BY <1>1, <1>a, <1>b, <1>z DEF Open, IsNext
<1>2. CASE Launch(p)
  BY <1>2, <1>a DEF Launch, IsNext
<1>3. CASE Serve(p)
  BY <1>3, <1>a, <1>b, <1>z DEF Serve, IsNext
<1>4. CASE RegisterAside(p)
  BY <1>4, <1>a DEF RegisterAside, IsNext
<1>5. CASE RegisterService(p)
  <2>1. registry' \subseteq Procs /\ reg' \in [Procs -> {"none", "trying", "over"}]
    BY <1>5 DEF RegisterService, Registered
  <2>2. todo' \in [Procs -> Seq(Steps)]
    BY <1>5, <1>a DEF RegisterService, IsNext
  <2> QED BY <1>5, <2>1, <2>2 DEF RegisterService
<1>6. CASE Signal(p)
  BY <1>6, <1>a, <1>b, <1>z DEF Signal, Waiting, IsNext
<1>7. CASE DeregisterService(p)
  BY <1>7, <1>a, <1>b, <1>z DEF DeregisterService, IsNext
<1>8. CASE StopPart(p)
  BY <1>8, <1>a DEF StopPart, IsNext
<1>9. CASE GracefulStop(p)
  BY <1>9 DEF GracefulStop
<1>10. CASE Drained(p, Busy(p)) \/ ForceStop(p, Busy(p))
  BY <1>10, <1>a DEF Drained, ForceStop, IsNext
<1>11. CASE Exit(p)
  BY <1>11, <1>b, <1>z DEF Exit
<1>12. CASE Crash(p)
  BY <1>12, <1>b, <1>z DEF Crash
<1>13. CASE Expire(p)
  BY <1>13 DEF Expire
<1> QED BY <1>1, <1>2, <1>3, <1>4, <1>5, <1>6, <1>7, <1>8, <1>9, <1>10, <1>11, <1>12, <1>13
        DEF ProcSteps

\* The handlers of the calls.
CallRecords == [Collections -> [pc : CallPcs, at : Procs \cup {NoCall},
                                ctx : BOOLEAN, full : BOOLEAN]]

\* The types of the variables of the calls.
CallType ==
    /\ rates \subseteq Procs
    /\ cpu \in [Procs -> Collections \cup {NoCall}] /\ tracer \in [Procs -> Collections \cup {NoCall}]
    /\ call \in CallRecords

\* A step of a handler keeps the calls typed and each profile with the call that
\* will turn it off: a handler starts only what is off and stops only what it owns.
LEMMA HandlerOwns ==
  ASSUME CallType, ProfilesOwned, NEW c \in Collections, Handle(c), UNCHANGED record
  PROVE  CallType' /\ ProfilesOwned'
<1> DEFINE h == call[c]
           p == h.at
<1>0. /\ h \in [pc : CallPcs, at : Procs \cup {NoCall}, ctx : BOOLEAN, full : BOOLEAN]
      /\ Active(c) /\ p \in Procs
  BY DEF CallType, CallRecords, ProfilesOwned, Handle, EnableProfiles, StartCPUProfile, StartTrace,
         StopCPUProfile, StopTrace, SendData, Active
<1>a. ASSUME NEW how \in {"done", "failed"}, Return(c, how)
      PROVE  /\ \A d \in Collections : d # c => call'[d] = call[d]
             /\ call'[c].pc = how /\ call'[c].at = NoCall
             /\ rates' = rates \ {p}
             /\ call' \in CallRecords
  BY <1>0, <1>a DEF CallType, CallRecords, Return, NoHandler, CallPcs
<1>b. ASSUME NEW to \in CallPcs, NEW f \in BOOLEAN,
             call' = [call EXCEPT ![c].pc = to] \/ call' = [call EXCEPT ![c].pc = to, ![c].full = f]
      PROVE  /\ \A d \in Collections : d # c => call'[d] = call[d]
             /\ call'[c].pc = to /\ call'[c].at = p
             /\ call' \in CallRecords
  BY <1>0, <1>b DEF CallType, CallRecords
<1>1. CASE EnableProfiles(c)
  <2>1. /\ h.pc = "enable"
        /\ \A d \in Collections : d # c => call'[d] = call[d]
        /\ call'[c].pc = "cpu" /\ call'[c].at = p
        /\ call' \in CallRecords
        /\ rates' = rates \cup {p} /\ cpu' = cpu /\ tracer' = tracer
    BY <1>1, <1>b DEF EnableProfiles, CallPcs
  <2>2. CallType'
    BY <1>0, <2>1 DEF CallType, CallRecords
  <2>3. ProfilesOwned'
    BY <1>0, <2>1 DEF ProfilesOwned, Active, Busy
  <2> QED BY <2>2, <2>3
<1>2. CASE StartCPUProfile(c)
  <2>1. CASE cpu[p] = NoCall /\ cpu' = [cpu EXCEPT ![p] = c] /\ call' = [call EXCEPT ![c].pc = "trace"]
             /\ UNCHANGED rates
    <3>1. /\ h.pc = "cpu"
          /\ \A d \in Collections : d # c => call'[d] = call[d]
          /\ call'[c].pc = "trace" /\ call'[c].at = p
          /\ call' \in CallRecords
          /\ rates' = rates /\ tracer' = tracer
          /\ cpu'[p] = c /\ \A q \in Procs : q # p => cpu'[q] = cpu[q]
      BY <1>0, <1>2, <1>b, <2>1 DEF StartCPUProfile, CallType, CallPcs
    <3>2. CallType'
      BY <1>0, <2>1, <3>1 DEF CallType, CallRecords
    <3>3. ProfilesOwned'
      BY <1>0, <2>1, <3>1, AdminNames DEF ProfilesOwned, Active, Busy
    <3> QED BY <3>2, <3>3
  <2>2. CASE cpu[p] # NoCall /\ Return(c, "failed") /\ UNCHANGED cpu
    <3>1. /\ h.pc = "cpu"
          /\ \A d \in Collections : d # c => call'[d] = call[d]
          /\ call'[c].pc = "failed" /\ call'[c].at = NoCall
          /\ call' \in CallRecords
          /\ rates' = rates \ {p} /\ cpu' = cpu /\ tracer' = tracer
      BY <1>2, <1>a, <2>2 DEF StartCPUProfile
    <3>2. CallType'
      BY <1>0, <3>1 DEF CallType, CallRecords
    <3>3. ProfilesOwned'
      BY <1>0, <3>1 DEF ProfilesOwned, Active, Busy
    <3> QED BY <3>2, <3>3
  <2> QED BY <1>2, <2>1, <2>2 DEF StartCPUProfile
<1>3. CASE StartTrace(c)
  <2>1. CASE tracer[p] = NoCall /\ tracer' = [tracer EXCEPT ![p] = c]
             /\ call' = [call EXCEPT ![c].pc = "collect"] /\ UNCHANGED <<rates, cpu>>
    <3>1. /\ h.pc = "trace"
          /\ \A d \in Collections : d # c => call'[d] = call[d]
          /\ call'[c].pc = "collect" /\ call'[c].at = p
          /\ call' \in CallRecords
          /\ rates' = rates /\ cpu' = cpu
          /\ tracer'[p] = c /\ \A q \in Procs : q # p => tracer'[q] = tracer[q]
      BY <1>0, <1>3, <1>b, <2>1 DEF StartTrace, CallType, CallPcs
    <3>2. CallType'
      BY <1>0, <2>1, <3>1 DEF CallType, CallRecords
    <3>3. ProfilesOwned'
      BY <1>0, <2>1, <3>1, AdminNames DEF ProfilesOwned, Active, Busy
    <3> QED BY <3>2, <3>3
  <2>2. CASE cpu' = [cpu EXCEPT ![p] = NoCall] /\ Return(c, "failed") /\ UNCHANGED tracer
    <3>1. /\ h.pc = "trace"
          /\ \A d \in Collections : d # c => call'[d] = call[d]
          /\ call'[c].pc = "failed" /\ call'[c].at = NoCall
          /\ call' \in CallRecords
          /\ rates' = rates \ {p} /\ tracer' = tracer
          /\ cpu'[p] = NoCall /\ \A q \in Procs : q # p => cpu'[q] = cpu[q]
      BY <1>0, <1>3, <1>a, <2>2 DEF StartTrace, CallType
    <3>2. CallType'
      BY <1>0, <2>2, <3>1 DEF CallType, CallRecords
    <3>3. ProfilesOwned'
      BY <1>0, <3>1, AdminNames DEF ProfilesOwned, Active, Busy
    <3> QED BY <3>2, <3>3
  <2> QED BY <1>3, <2>1, <2>2 DEF StartTrace
<1>4. CASE StopCPUProfile(c)
  <2>1. PICK f \in BOOLEAN : call' = [call EXCEPT ![c].pc = "stop", ![c].full = f]
    BY <1>0, <1>4 DEF StopCPUProfile
  <2>a. "stop" \in CallPcs
    BY DEF CallPcs
  <2>b. /\ \A d \in Collections : d # c => call'[d] = call[d]
        /\ call'[c].pc = "stop" /\ call'[c].at = p
        /\ call' \in CallRecords
    BY <1>b, <2>1, <2>a
  <2>c. h.pc = "collect" /\ rates' = rates /\ tracer' = tracer /\ cpu' = [cpu EXCEPT ![p] = NoCall]
    BY <1>4 DEF StopCPUProfile
  <2>d. cpu'[p] = NoCall /\ \A q \in Procs : q # p => cpu'[q] = cpu[q]
    BY <1>0, <2>c DEF CallType
  <2>3. CallType'
    BY <1>0, <2>b, <2>c DEF CallType, CallRecords
  <2>4. ProfilesOwned'
    BY <1>0, <2>b, <2>c, <2>d, AdminNames DEF ProfilesOwned, Active, Busy
  <2> QED BY <2>3, <2>4
<1>5. CASE StopTrace(c)
  <2>1. /\ h.pc = "stop" /\ cpu' = cpu /\ tracer' = [tracer EXCEPT ![p] = NoCall]
        /\ tracer'[p] = NoCall /\ \A q \in Procs : q # p => tracer'[q] = tracer[q]
    BY <1>0, <1>5 DEF StopTrace, CallType
  <2>2. CASE call' = [call EXCEPT ![c].pc = "send"] /\ UNCHANGED rates
    <3>1. /\ \A d \in Collections : d # c => call'[d] = call[d]
          /\ call'[c].pc = "send" /\ call'[c].at = p
          /\ call' \in CallRecords /\ rates' = rates
      BY <1>b, <2>2 DEF CallPcs
    <3>2. CallType'
      BY <1>0, <2>1, <3>1 DEF CallType, CallRecords
    <3>3. ProfilesOwned'
      BY <1>0, <2>1, <3>1, AdminNames DEF ProfilesOwned, Active, Busy
    <3> QED BY <3>2, <3>3
  <2>3. CASE Return(c, "failed")
    <3>1. /\ \A d \in Collections : d # c => call'[d] = call[d]
          /\ call'[c].pc = "failed" /\ call'[c].at = NoCall
          /\ call' \in CallRecords /\ rates' = rates \ {p}
      BY <1>a, <2>3
    <3>2. CallType'
      BY <1>0, <2>1, <3>1 DEF CallType, CallRecords
    <3>3. ProfilesOwned'
      BY <1>0, <2>1, <3>1, AdminNames DEF ProfilesOwned, Active, Busy
    <3> QED BY <3>2, <3>3
  <2> QED BY <1>5, <2>2, <2>3 DEF StopTrace
<1>6. CASE SendData(c)
  <2>1. PICK how \in {"done", "failed"} : Return(c, how)
    BY <1>6 DEF SendData
  <2>2. /\ h.pc = "send" /\ cpu' = cpu /\ tracer' = tracer
        /\ \A d \in Collections : d # c => call'[d] = call[d]
        /\ call'[c].pc = how /\ call'[c].at = NoCall
        /\ call' \in CallRecords /\ rates' = rates \ {p}
    BY <1>6, <1>a, <2>1 DEF SendData
  <2>3. CallType'
    BY <1>0, <2>2 DEF CallType, CallRecords
  <2>4. ProfilesOwned'
    BY <1>0, <2>2 DEF ProfilesOwned, Active, Busy
  <2> QED BY <2>3, <2>4
<1> QED BY <1>1, <1>2, <1>3, <1>4, <1>5, <1>6 DEF Handle

\* A step of a process: its calls go on, are cancelled, or end with it and with
\* its profiles.
LEMMA ProcOwns ==
  ASSUME CallType, ProfilesOwned, NEW p \in Procs, UNCHANGED record,
         \/ UNCHANGED adminVars \/ CutCalls(p)
         \/ CancelCalls(p) /\ UNCHANGED <<rates, cpu, tracer>>
  PROVE  CallType' /\ ProfilesOwned'
<1>1. CASE UNCHANGED adminVars
  BY <1>1 DEF adminVars, CallType, ProfilesOwned, Active, Busy
<1>2. CASE CutCalls(p)
  <2>1. /\ call' \in CallRecords
        /\ \A d \in Collections :
              IF Active(d) /\ call[d].at = p THEN call'[d].pc = "failed" /\ call'[d].at = NoCall
                                             ELSE call'[d] = call[d]
    BY <1>2 DEF CutCalls, NoHandler, CallType, CallRecords, CallPcs
  <2>2. /\ rates' = rates \ {p}
        /\ cpu'[p] = NoCall /\ \A q \in Procs : q # p => cpu'[q] = cpu[q]
        /\ tracer'[p] = NoCall /\ \A q \in Procs : q # p => tracer'[q] = tracer[q]
    BY <1>2 DEF CutCalls, CallType
  <2>3. CallType'
    BY <1>2, <2>1 DEF CutCalls, CallType, CallRecords
  <2>4. ProfilesOwned'
    BY <2>1, <2>2, AdminNames DEF ProfilesOwned, Active, Busy
  <2> QED BY <2>3, <2>4
<1>3. CASE CancelCalls(p) /\ UNCHANGED <<rates, cpu, tracer>>
  <2>1. /\ call' \in CallRecords
        /\ \A d \in Collections : call'[d].pc = call[d].pc /\ call'[d].at = call[d].at
    <3>1. \A d \in Collections :
             call[d] \in [pc : CallPcs, at : Procs \cup {NoCall}, ctx : BOOLEAN, full : BOOLEAN]
      BY DEF CallType, CallRecords
    <3>2. \A d \in Collections :
             call'[d] = IF Active(d) /\ call[d].at = p THEN [call[d] EXCEPT !.ctx = FALSE] ELSE call[d]
      BY <1>3 DEF CancelCalls
    <3>3. ASSUME NEW d \in Collections
          PROVE  /\ call'[d].pc = call[d].pc /\ call'[d].at = call[d].at
                 /\ call'[d] \in [pc : CallPcs, at : Procs \cup {NoCall},
                                  ctx : BOOLEAN, full : BOOLEAN]
      BY <3>1, <3>2
    <3> QED BY <1>3, <3>3 DEF CancelCalls, CallRecords
  <2>2. CallType'
    BY <1>3, <2>1 DEF CallType, CallRecords
  <2>3. ProfilesOwned'
    BY <1>3, <2>1 DEF ProfilesOwned, Active, Busy
  <2> QED BY <2>2, <2>3
<1> QED BY <1>1, <1>2, <1>3

\* A step of the ops centre for collection c.
LEMMA OpsOwns ==
  ASSUME TypeOK, ProfilesOwned, NEW c \in Collections,
         \/ RecordPerformance(c) \/ Receive(c) \/ GiveUp(c)
         \/ SaveFiles(c) \/ DeletePerformanceHistory(c)
  PROVE  TypeOK' /\ ProfilesOwned'
<1>0. CallType /\ ProcType
  BY DEF TypeOK, CallType, ProcType, CallRecords
<1>1. SUFFICES CallType' /\ ProfilesOwned'
  <2>1. /\ ProcType' /\ known' \subseteq Procs
        /\ record' \in [Collections -> {"idle", "waiting", "received", "saved", "deleted", "failed"}]
    BY DEF RecordPerformance, Receive, GiveUp, SaveFiles, DeletePerformanceHistory,
           TypeOK, ProcType, procVars
  <2>2. CallType' /\ ProcType' => TypeOK'
    BY <2>1 DEF TypeOK, CallType, ProcType, CallRecords
  <2> QED BY <1>1, <2>1, <2>2
<1>2. \A d \in Collections : d # c => record'[d] = record[d]
  BY DEF RecordPerformance, Receive, GiveUp, SaveFiles, DeletePerformanceHistory, TypeOK
<1>3. record'[c] # "idle"
  BY DEF RecordPerformance, Receive, GiveUp, SaveFiles, DeletePerformanceHistory, TypeOK
<1>4. CASE UNCHANGED adminVars
  BY <1>0, <1>2, <1>3, <1>4 DEF adminVars, CallType, ProfilesOwned, Active, Busy
<1>5. CASE RecordPerformance(c)
  <2>1. CASE UNCHANGED call
    BY <1>4, <1>5, <2>1 DEF RecordPerformance, adminVars
  <2>2. ASSUME NEW p \in known \cup registry, Accept(c, p) PROVE CallType' /\ ProfilesOwned'
    <3>1. p \in Procs /\ call[c].pc = "idle"
      BY <1>5 DEF TypeOK, ProfilesOwned, RecordPerformance
    <3>2. /\ \A d \in Collections : d # c => call'[d] = call[d]
          /\ call'[c].pc = "enable" /\ call'[c].at = p /\ call' \in CallRecords
      BY <1>0, <2>2, <3>1 DEF Accept, NoHandler, CallType, CallRecords, CallPcs
    <3>3. rates' = rates /\ cpu' = cpu /\ tracer' = tracer
      BY <1>5 DEF RecordPerformance
    <3>4. CallType'
      BY <1>0, <3>2, <3>3 DEF CallType, CallRecords
    <3>5. ProfilesOwned'
      BY <1>2, <1>3, <3>1, <3>2, <3>3 DEF ProfilesOwned, Active, Busy
    <3> QED BY <3>4, <3>5
  <2> QED BY <1>5, <2>1, <2>2 DEF RecordPerformance
<1>6. CASE GiveUp(c)
  <2>1. /\ \A d \in Collections : d # c => call'[d] = call[d]
        /\ call' \in CallRecords
        /\ IF Active(c) THEN call'[c].pc = call[c].pc /\ call'[c].at = call[c].at
                        ELSE call'[c].pc = "failed"
    BY <1>0, <1>6 DEF GiveUp, NoHandler, CallType, CallRecords, CallPcs
  <2>2. rates' = rates /\ cpu' = cpu /\ tracer' = tracer
    BY <1>6 DEF GiveUp
  <2>3. CallType'
    BY <1>0, <2>1, <2>2 DEF CallType, CallRecords
  <2>4. ProfilesOwned'
    BY <1>2, <1>3, <2>1, <2>2 DEF ProfilesOwned, Active, Busy
  <2> QED BY <2>3, <2>4
<1> QED BY <1>4, <1>5, <1>6 DEF Receive, SaveFiles, DeletePerformanceHistory

\* TypeOK and ProfilesOwned are inductive: whatever the processes, the handlers and the
\* ops centre do.
LEMMA OwnedInduction == Spec => [](TypeOK /\ ProfilesOwned)
<1>1. Init => TypeOK /\ ProfilesOwned
  <2> SUFFICES ASSUME Init PROVE TypeOK /\ ProfilesOwned
    OBVIOUS
  <2>1. ProcType
    BY MainType DEF Init, ProcInit, ProcType, ProcPhases
  <2>2. CallType /\ ProfilesOwned
    BY AdminNames DEF Init, AdminInit, CallType, CallRecords, NoHandler, CallPcs, ProfilesOwned, Active, Busy
  <2>3. /\ known \subseteq Procs
        /\ record \in [Collections -> {"idle", "waiting", "received", "saved", "deleted", "failed"}]
    BY DEF Init
  <2> QED BY <2>1, <2>2, <2>3 DEF TypeOK, ProcType, CallType, CallRecords
<1>2. TypeOK /\ ProfilesOwned /\ [Next]_vars => TypeOK' /\ ProfilesOwned'
  <2> SUFFICES ASSUME TypeOK, ProfilesOwned, [Next]_vars PROVE TypeOK' /\ ProfilesOwned'
    OBVIOUS
  <2>0. CallType /\ ProcType
    BY DEF TypeOK, CallType, ProcType, CallRecords
  <2>a. ASSUME CallType', ProcType', UNCHANGED record, known' \subseteq Procs
        PROVE TypeOK'
    BY <2>a DEF TypeOK, ProcType, CallType, CallRecords
  <2>b. ASSUME UNCHANGED <<procVars, adminVars, record>>, known' \subseteq Procs
        PROVE TypeOK' /\ ProfilesOwned'
    BY <2>b DEF TypeOK, ProfilesOwned, procVars, adminVars, Active, Busy
  <2>1. ASSUME NEW p \in Procs, Life(p) \/ Shutdown(p) PROVE TypeOK' /\ ProfilesOwned'
    <3>1. ProcType'
      BY <2>0, <2>1, ProcStepOf, ProcTyped
    <3>2. UNCHANGED <<record, known>>
      BY <2>1, ProcStepOf DEF opsVars
    <3>3. CallType' /\ ProfilesOwned'
      BY <2>0, <2>1, <3>2, ProcStepOf, ProcOwns
    <3> QED BY <2>a, <3>1, <3>2, <3>3 DEF TypeOK
  <2>2. ASSUME NEW c \in Collections,
               \/ RecordPerformance(c) \/ Receive(c) \/ GiveUp(c)
               \/ SaveFiles(c) \/ DeletePerformanceHistory(c)
        PROVE TypeOK' /\ ProfilesOwned'
    BY <2>2, OpsOwns
  <2>3. ASSUME NEW c \in Collections, Handler(c) PROVE TypeOK' /\ ProfilesOwned'
    <3>1. UNCHANGED <<procVars, record, known>> /\ Handle(c)
      BY <2>3 DEF Handler, opsVars
    <3>2. CallType' /\ ProfilesOwned'
      BY <2>0, <3>1, HandlerOwns
    <3>3. ProcType'
      BY <2>0, <3>1 DEF ProcType, procVars
    <3> QED BY <2>a, <3>1, <3>2, <3>3 DEF TypeOK
  <2>4. CASE ListServices
    BY <2>b, <2>4 DEF ListServices, TypeOK
  <2>5. CASE DeleteStorage
    <3>1. /\ UNCHANGED <<procVars, adminVars, known>>
          /\ record' = [c \in Collections |-> IF c \in History THEN "deleted" ELSE record[c]]
      BY <2>5 DEF DeleteStorage
    <3>2. \A c \in Collections : record'[c] \in {"deleted", record[c]}
      BY <3>1
    <3> QED BY <2>b, <3>1, <3>2 DEF TypeOK, ProfilesOwned, adminVars, procVars, Active, Busy
  <2>6. ASSUME \/ \E f \in Files : PprofProxy(f)
               \/ \E t \in Tools : Viewer(t)
               \/ Monitor \/ TimePasses \/ UNCHANGED vars
        PROVE TypeOK' /\ ProfilesOwned'
    <3>1. UNCHANGED <<procVars, adminVars, opsVars>>
      BY <2>6 DEF PprofProxy, Viewer, Monitor, TimePasses, vars
    <3> QED BY <2>b, <3>1 DEF opsVars, TypeOK
  <2> QED BY <2>1, <2>2, <2>3, <2>4, <2>5, <2>6 DEF Next
<1> QED BY <1>1, <1>2, PTL DEF Spec

\* However the calls of CollectPerformanceData overlap, fail and are cancelled, and
\* however processes end, one that serves none has all profiling off.
THEOREM ProfilingAlwaysOff == Spec => []ProfilingOff
<1>1. TypeOK /\ ProfilesOwned => ProfilingOff
  <2> SUFFICES ASSUME TypeOK, ProfilesOwned, NEW p \in Procs, ~Busy(p)
               PROVE  p \notin rates /\ cpu[p] = NoCall /\ tracer[p] = NoCall
    BY DEF ProfilingOff
  <2>1. cpu[p] \in Collections \cup {NoCall} /\ tracer[p] \in Collections \cup {NoCall}
    BY DEF TypeOK
  <2>2. ASSUME NEW c \in Collections, cpu[p] = c \/ tracer[p] = c PROVE FALSE
    <3>1. call[c].at = p /\ call[c].pc \in {"trace", "collect", "stop"}
      BY <2>2 DEF ProfilesOwned
    <3> QED BY <3>1 DEF Active, Busy
  <2>3. p \notin rates
    BY DEF ProfilesOwned
  <2> QED BY <2>1, <2>2, <2>3
<1> QED BY <1>1, OwnedInduction, PTL

\* A step of the handler of call c keeps RatesHeld: it turns the rates on, leaves them
\* alone, or turns them off when the call returns.
LEMMA HandlerRates ==
  ASSUME CallType, ProfilesOwned, RatesHeld, NEW c \in Collections, Handle(c)
  PROVE  RatesHeld'
<1>0. /\ call[c] \in [pc : CallPcs, at : Procs \cup {NoCall}, ctx : BOOLEAN, full : BOOLEAN]
      /\ Active(c)
  BY DEF CallType, CallRecords, Handle, EnableProfiles, StartCPUProfile, StartTrace,
         StopCPUProfile, StopTrace, SendData, Active
<1>a. ASSUME NEW how \in {"done", "failed"}, Return(c, how) PROVE RatesHeld'
  <2>1. call'[c].pc = how
    BY <1>0, <1>a DEF CallType, CallRecords, Return, NoHandler
  <2> QED BY <2>1 DEF RatesHeld
<1>b. ASSUME NEW to \in CallPcs, NEW f,
             call' = [call EXCEPT ![c].pc = to] \/ call' = [call EXCEPT ![c].pc = to, ![c].full = f],
             rates \subseteq rates',
             to \in {"cpu", "trace", "collect"} =>
                 call[c].at \in rates' \/ call[c].pc \in {"cpu", "trace", "collect"}
      PROVE  RatesHeld'
  <2>1. /\ \A d \in Collections : d # c => call'[d] = call[d]
        /\ call'[c].pc = to /\ call'[c].at = call[c].at
    BY <1>0, <1>b DEF CallType, CallRecords
  <2>2. ASSUME NEW d \in Collections, call[d].pc \in {"done", "failed"}
        PROVE  call'[d].pc \in {"done", "failed"}
    BY <1>0, <2>1, <2>2 DEF Active
  <2>3. ASSUME NEW e \in Collections, call'[e].pc \in {"cpu", "trace", "collect"}
        PROVE  call'[e].at \in rates' \/ \E d \in Collections : call'[d].pc \in {"done", "failed"}
    <3>1. CASE e = c
      BY <1>b, <2>1, <2>2, <2>3, <3>1 DEF RatesHeld
    <3>2. CASE e # c
      BY <1>b, <2>1, <2>2, <2>3, <3>2 DEF RatesHeld
    <3> QED BY <3>1, <3>2
  <2> QED BY <2>3 DEF RatesHeld
<1>1. CASE EnableProfiles(c)
  BY <1>1, <1>b DEF EnableProfiles, CallPcs
<1>2. CASE StartCPUProfile(c)
  BY <1>2, <1>a, <1>b DEF StartCPUProfile, CallPcs
<1>3. CASE StartTrace(c)
  BY <1>3, <1>a, <1>b DEF StartTrace, CallPcs
<1>4. CASE StopCPUProfile(c)
  <2>1. PICK f : call' = [call EXCEPT ![c].pc = "stop", ![c].full = f]
    BY <1>4 DEF StopCPUProfile
  <2> QED BY <1>4, <1>b, <2>1 DEF StopCPUProfile, CallPcs
<1>5. CASE StopTrace(c)
  BY <1>5, <1>a, <1>b DEF StopTrace, CallPcs
<1>6. CASE SendData(c)
  BY <1>6, <1>a DEF SendData
<1> QED BY <1>1, <1>2, <1>3, <1>4, <1>5, <1>6 DEF Handle

\* RatesHeld is inductive.
LEMMA RatesInduction == Spec => []RatesHeld
<1>1. Init => RatesHeld
  BY DEF Init, AdminInit, NoHandler, RatesHeld
<1>2. TypeOK /\ ProfilesOwned /\ RatesHeld /\ [Next]_vars => RatesHeld'
  <2> SUFFICES ASSUME TypeOK, ProfilesOwned, RatesHeld, [Next]_vars PROVE RatesHeld'
    OBVIOUS
  <2>0. CallType
    BY DEF TypeOK, CallType, CallRecords
  <2>a. ASSUME UNCHANGED <<rates, call>> PROVE RatesHeld'
    BY <2>a DEF RatesHeld
  <2>1. ASSUME NEW p \in Procs, Life(p) \/ Shutdown(p) PROVE RatesHeld'
    <3>1. CASE UNCHANGED adminVars
      BY <2>a, <3>1 DEF adminVars
    <3>2. CASE CutCalls(p)
      <4>1. /\ rates' = rates \ {p}
            /\ \A d \in Collections :
                  IF Active(d) /\ call[d].at = p THEN call'[d].pc = "failed" ELSE call'[d] = call[d]
        BY <3>2 DEF CutCalls, NoHandler
      <4> QED BY <4>1 DEF RatesHeld, Active
    <3>3. CASE CancelCalls(p) /\ UNCHANGED <<rates, cpu, tracer>>
      <4>1. ASSUME NEW d \in Collections PROVE call'[d].pc = call[d].pc /\ call'[d].at = call[d].at
        <5>1. /\ call[d] \in [pc : CallPcs, at : Procs \cup {NoCall}, ctx : BOOLEAN, full : BOOLEAN]
              /\ call'[d] = IF Active(d) /\ call[d].at = p THEN [call[d] EXCEPT !.ctx = FALSE] ELSE call[d]
          BY <2>0, <3>3 DEF CancelCalls, CallType, CallRecords
        <5> QED BY <5>1
      <4> QED BY <3>3, <4>1 DEF RatesHeld
    <3> QED BY <2>1, <3>1, <3>2, <3>3, ProcStepOf
  <2>2. ASSUME NEW c \in Collections, RecordPerformance(c) PROVE RatesHeld'
    <3>1. CASE UNCHANGED call
      BY <2>a, <2>2, <3>1 DEF RecordPerformance
    <3>2. ASSUME NEW p, Accept(c, p) PROVE RatesHeld'
      <4>1. call[c].pc = "idle" /\ rates' = rates
        BY <2>2 DEF ProfilesOwned, RecordPerformance
      <4>2. /\ \A d \in Collections : d # c => call'[d] = call[d]
            /\ call'[c].pc = "enable"
        BY <2>0, <3>2 DEF Accept, NoHandler, CallType, CallRecords
      <4>3. \A d \in Collections : call[d].pc \in {"done", "failed"} => call'[d] = call[d]
        BY <4>1, <4>2
      <4>4. \A d \in Collections : call'[d].pc \in {"cpu", "trace", "collect"} => call'[d] = call[d]
        BY <4>2
      <4> QED BY <4>1, <4>3, <4>4 DEF RatesHeld
    <3> QED BY <2>2, <3>1, <3>2 DEF RecordPerformance
  <2>3. ASSUME NEW c \in Collections, GiveUp(c) PROVE RatesHeld'
    <3>1. /\ \A d \in Collections : d # c => call'[d] = call[d]
          /\ IF Active(c) THEN call'[c].pc = call[c].pc /\ call'[c].at = call[c].at
                          ELSE call'[c].pc = "failed"
          /\ rates' = rates
      BY <2>0, <2>3 DEF GiveUp, NoHandler, CallType, CallRecords
    <3> QED BY <3>1 DEF RatesHeld
  <2>4. ASSUME NEW c \in Collections, Handler(c) PROVE RatesHeld'
    BY <2>0, <2>4, HandlerRates DEF Handler
  <2>5. CASE UNCHANGED adminVars
    BY <2>5, <2>a DEF adminVars
  <2> QED BY <2>1, <2>2, <2>3, <2>4, <2>5 DEF Next, Receive, SaveFiles, DeletePerformanceHistory,
             DeleteStorage, PprofProxy, Viewer, ListServices, Monitor, TimePasses, vars
<1> QED BY <1>1, <1>2, OwnedInduction, PTL DEF Spec

\* A call that collects has both the CPU profile and the trace of its process, which
\* no other call can take from it, and the rates until another call returns.
THEOREM CollectorAlwaysOwnsProfiles == Spec => []CollectorOwnsProfiles
<1>1. ProfilesOwned /\ RatesHeld => CollectorOwnsProfiles
  BY DEF ProfilesOwned, RatesHeld, CollectorOwnsProfiles
<1> QED BY <1>1, OwnedInduction, RatesInduction, PTL

-----------------------------------------------------------------------------
(* The addresses Nacos lists.                                              *)

\* What Listed says of a list of steps.
Ordered(s) ==
    /\ \A i, j \in DOMAIN s :
          /\ s[i] = "register" /\ s[j] = "deregister" => i < j
          /\ s[j] = "deregister" /\ j = i + 1 => s[i] = "wait"
    /\ Contains(s, "register") => Contains(s, "deregister")

\* A list that registers only at r, waits at d - 1 and deregisters only at d > r
\* is ordered.
LEMMA OrderedList ==
  ASSUME NEW s \in Seq(Steps), NEW r \in Nat, NEW d \in 1 .. Len(s), r < d, s[d - 1] = "wait",
         \A i \in 1 .. Len(s) : (s[i] = "deregister" <=> i = d) /\ (s[i] = "register" => i = r)
  PROVE  Ordered(s)
<1>1. DOMAIN s = 1 .. Len(s)
  BY LenProperties
<1>2. Contains(s, "deregister")
  BY DEF Contains
<1> QED BY <1>1, <1>2 DEF Ordered

\* The main of the gateway registers, waits and deregisters in this order.
LEMMA OrderedGateway == Ordered(GatewayMain)
<1>1. GatewayMain \in Seq(Steps) /\ Len(GatewayMain) = 11
  BY DEF GatewayMain, Steps
<1>2. /\ GatewayMain[1] = "nacos" /\ GatewayMain[2] = "redis" /\ GatewayMain[3] = "ws"
      /\ GatewayMain[4] = "grpc" /\ GatewayMain[5] = "register" /\ GatewayMain[6] = "http"
      /\ GatewayMain[7] = "wait" /\ GatewayMain[8] = "deregister" /\ GatewayMain[9] = "stop http"
      /\ GatewayMain[10] = "stop grpc" /\ GatewayMain[11] = "stop ws"
  BY DEF GatewayMain
<1>3. ASSUME NEW i \in 1 .. 11
      PROVE  (GatewayMain[i] = "deregister" <=> i = 8) /\ (GatewayMain[i] = "register" => i = 5)
  <2>1. \/ i = 1 \/ i = 2 \/ i = 3 \/ i = 4 \/ i = 5 \/ i = 6 \/ i = 7 \/ i = 8 \/ i = 9 \/ i = 10
        \/ i = 11
    OBVIOUS
  <2> QED BY <1>2, <2>1
<1>4. 5 \in Nat /\ 8 \in 1 .. Len(GatewayMain) /\ 5 < 8
  BY <1>1
<1>5. GatewayMain[8 - 1] = "wait"
  <2>1. 8 - 1 = 7
    OBVIOUS
  <2> QED BY <1>2, <2>1
<1> HIDE DEF GatewayMain
<1>6. \A i \in 1 .. Len(GatewayMain) : (GatewayMain[i] = "deregister" <=> i = 8) /\ (GatewayMain[i] = "register" => i = 5)
  BY <1>1, <1>3
<1> QED BY <1>1, <1>4, <1>5, <1>6, OrderedList

\* So does that of GMS ...
LEMMA OrderedGms == Ordered(GmsMain)
<1>1. GmsMain \in Seq(Steps) /\ Len(GmsMain) = 10
  BY DEF GmsMain, Steps
<1>2. /\ GmsMain[1] = "db" /\ GmsMain[2] = "redis" /\ GmsMain[3] = "nacos"
      /\ GmsMain[4] = "machine" /\ GmsMain[5] = "grpc" /\ GmsMain[6] = "register"
      /\ GmsMain[7] = "wait" /\ GmsMain[8] = "deregister" /\ GmsMain[9] = "stop grpc"
      /\ GmsMain[10] = "stop machine"
  BY DEF GmsMain
<1>3. ASSUME NEW i \in 1 .. 10
      PROVE  (GmsMain[i] = "deregister" <=> i = 8) /\ (GmsMain[i] = "register" => i = 6)
  <2>1. i = 1 \/ i = 2 \/ i = 3 \/ i = 4 \/ i = 5 \/ i = 6 \/ i = 7 \/ i = 8 \/ i = 9 \/ i = 10
    OBVIOUS
  <2> QED BY <1>2, <2>1
<1>4. 6 \in Nat /\ 8 \in 1 .. Len(GmsMain) /\ 6 < 8
  BY <1>1
<1>5. GmsMain[8 - 1] = "wait"
  <2>1. 8 - 1 = 7
    OBVIOUS
  <2> QED BY <1>2, <2>1
<1> HIDE DEF GmsMain
<1>6. \A i \in 1 .. Len(GmsMain) : (GmsMain[i] = "deregister" <=> i = 8) /\ (GmsMain[i] = "register" => i = 6)
  BY <1>1, <1>3
<1> QED BY <1>1, <1>4, <1>5, <1>6, OrderedList

\* ... and that of GS.
LEMMA OrderedGs == Ordered(GsMain)
<1>1. GsMain \in Seq(Steps) /\ Len(GsMain) = 7
  BY DEF GsMain, Steps
<1>2. /\ GsMain[1] = "db" /\ GsMain[2] = "nacos" /\ GsMain[3] = "grpc" /\ GsMain[4] = "register"
      /\ GsMain[5] = "wait" /\ GsMain[6] = "deregister" /\ GsMain[7] = "stop grpc"
  BY DEF GsMain
<1>3. ASSUME NEW i \in 1 .. 7
      PROVE  (GsMain[i] = "deregister" <=> i = 6) /\ (GsMain[i] = "register" => i = 4)
  <2>1. i = 1 \/ i = 2 \/ i = 3 \/ i = 4 \/ i = 5 \/ i = 6 \/ i = 7
    OBVIOUS
  <2> QED BY <1>2, <2>1
<1>4. 4 \in Nat /\ 6 \in 1 .. Len(GsMain) /\ 4 < 6
  BY <1>1
<1>5. GsMain[6 - 1] = "wait"
  <2>1. 6 - 1 = 5
    OBVIOUS
  <2> QED BY <1>2, <2>1
<1> HIDE DEF GsMain
<1>6. \A i \in 1 .. Len(GsMain) : (GsMain[i] = "deregister" <=> i = 6) /\ (GsMain[i] = "register" => i = 4)
  BY <1>1, <1>3
<1> QED BY <1>1, <1>4, <1>5, <1>6, OrderedList

\* The user service has no such step to register with: it only deregisters.
LEMMA OrderedUser == Ordered(UserMain)
<1>1. UserMain \in Seq(Steps) /\ Len(UserMain) = 6
  BY DEF UserMain, Steps
<1>2. /\ UserMain[1] = "db" /\ UserMain[2] = "grpc" /\ UserMain[3] = "nacos"
      /\ UserMain[4] = "http" /\ UserMain[5] = "wait" /\ UserMain[6] = "deregister"
  BY DEF UserMain
<1>3. ASSUME NEW i \in 1 .. 6
      PROVE  (UserMain[i] = "deregister" <=> i = 6) /\ (UserMain[i] = "register" => i = 0)
  <2>1. i = 1 \/ i = 2 \/ i = 3 \/ i = 4 \/ i = 5 \/ i = 6
    OBVIOUS
  <2> QED BY <1>2, <2>1
<1>4. 0 \in Nat /\ 6 \in 1 .. Len(UserMain) /\ 0 < 6
  BY <1>1
<1>5. UserMain[6 - 1] = "wait"
  <2>1. 6 - 1 = 5
    OBVIOUS
  <2> QED BY <1>2, <2>1
<1> HIDE DEF UserMain
<1>6. \A i \in 1 .. Len(UserMain) : (UserMain[i] = "deregister" <=> i = 6) /\ (UserMain[i] = "register" => i = 0)
  BY <1>1, <1>3
<1> QED BY <1>1, <1>4, <1>5, <1>6, OrderedList

\* The monolith does neither.
LEMMA OrderedMonolith == Ordered(MonolithMain)
<1>1. Len(MonolithMain) = 8 /\ DOMAIN MonolithMain = 1 .. 8
  BY DEF MonolithMain
<1>2. /\ MonolithMain[1] = "db" /\ MonolithMain[2] = "ws" /\ MonolithMain[3] = "machine"
      /\ MonolithMain[4] = "http" /\ MonolithMain[5] = "wait" /\ MonolithMain[6] = "stop http"
      /\ MonolithMain[7] = "stop machine" /\ MonolithMain[8] = "stop ws"
  BY DEF MonolithMain
<1>3. ASSUME NEW i \in 1 .. 8
      PROVE  MonolithMain[i] # "deregister" /\ MonolithMain[i] # "register"
  <2>1. i = 1 \/ i = 2 \/ i = 3 \/ i = 4 \/ i = 5 \/ i = 6 \/ i = 7 \/ i = 8
    OBVIOUS
  <2> QED BY <1>2, <2>1
<1> QED BY <1>1, <1>3 DEF Ordered, Contains

\* Every main is ordered.
LEMMA MainOrdered ==
  ASSUME NEW s \in Services
  PROVE  Ordered(Main(s))
<1>1. s \in {"gateway", "gms", "gs", "user", "monolith"}
  BY ProcessConstants
<1> QED BY <1>1, OrderedGateway, OrderedGms, OrderedGs, OrderedUser, OrderedMonolith DEF Main

\* So is what is left of one, and a step other than the first is still in it.
LEMMA OrderedTail ==
  ASSUME NEW s \in Seq(Steps), s # <<>>, Ordered(s)
  PROVE  /\ Ordered(Tail(s))
         /\ \A x : Contains(s, x) /\ Head(s) # x => Contains(Tail(s), x)
         /\ \A x : Head(s) = x => Contains(s, x)
<1> DEFINE t == Tail(s)
<1>1. /\ DOMAIN s = 1 .. Len(s) /\ Len(s) \in Nat \ {0} /\ Head(s) = s[1]
      /\ t \in Seq(Steps) /\ Len(t) = Len(s) - 1 /\ DOMAIN t = 1 .. Len(t)
      /\ \A i \in 1 .. Len(t) : t[i] = s[i + 1]
  BY LenProperties, EmptySeq, HeadTailProperties
<1> HIDE DEF t
<1>2. ASSUME NEW x, Contains(s, x), s[1] # x PROVE Contains(t, x)
  <2>1. PICK i \in 1 .. Len(s) : s[i] = x
    BY <1>2 DEF Contains
  <2>2. i - 1 \in 1 .. Len(t) /\ t[i - 1] = s[i]
    <3>1. i # 1
      BY <1>2, <2>1
    <3>2. i - 1 \in 1 .. Len(t) /\ (i - 1) + 1 = i
      BY <1>1, <3>1
    <3> QED BY <1>1, <3>2
  <2> QED BY <2>1, <2>2 DEF Contains
<1>3. ASSUME NEW i \in DOMAIN t, NEW j \in DOMAIN t
      PROVE  /\ t[i] = "register" /\ t[j] = "deregister" => i < j
             /\ t[j] = "deregister" /\ j = i + 1 => t[i] = "wait"
  <2>1. i + 1 \in DOMAIN s /\ j + 1 \in DOMAIN s /\ t[i] = s[i + 1] /\ t[j] = s[j + 1]
    BY <1>1
  <2>2. /\ s[i + 1] = "register" /\ s[j + 1] = "deregister" => i + 1 < j + 1
        /\ s[j + 1] = "deregister" /\ j + 1 = (i + 1) + 1 => s[i + 1] = "wait"
    BY <2>1 DEF Ordered
  <2>3. i \in Nat /\ j \in Nat
    BY <1>1
  <2> QED BY <2>1, <2>2, <2>3
<1>4. ASSUME Contains(t, "register") PROVE Contains(t, "deregister")
  <2>1. PICK i \in 1 .. Len(t) : t[i] = "register"
    BY <1>4 DEF Contains
  <2>2. i + 1 \in 1 .. Len(s) /\ s[i + 1] = "register"
    BY <1>1, <2>1
  <2>3. Contains(s, "deregister")
    BY <2>2 DEF Ordered, Contains
  <2>4. s[1] # "deregister"
    <3>1. 1 \in DOMAIN s /\ i + 1 \in DOMAIN s /\ ~(i + 1 < 1)
      BY <1>1, <2>2
    <3> QED BY <2>2, <3>1 DEF Ordered
  <2> QED BY <1>2, <2>3, <2>4
<1>5. Ordered(t)
  BY <1>3, <1>4 DEF Ordered
<1>6. ASSUME NEW x, s[1] = x PROVE Contains(s, x)
  BY <1>1, <1>6 DEF Contains
<1> QED BY <1>1, <1>2, <1>5, <1>6 DEF t

\* So is the list of a process that has ended.
LEMMA OrderedEmpty == Ordered(<<>>)
<1>1. Len(<<>>) = 0 /\ DOMAIN <<>> = {}
  OBVIOUS
<1> QED BY <1>1 DEF Ordered, Contains

\* A step of process p: its list becomes shorter or empty, and it is listed only by
\* RegisterService.
LEMMA ProcListed ==
  ASSUME ProcType, Listed, NEW p \in Procs, ProcSteps(p)
  PROVE  Listed'
<1>0. \A q \in Procs : todo[q] \in Seq(Steps) /\ Ordered(todo[q])
  BY DEF ProcType, Listed, Ordered
<1>1. SUFFICES /\ todo'[p] = todo[p] \/ todo'[p] = <<>> \/ (todo[p] # <<>> /\ todo'[p] = Tail(todo[p]))
               /\ \A q \in Procs : q # p => todo'[q] = todo[q] /\ phase'[q] = phase[q] /\ reg'[q] = reg[q]
                                            /\ (q \in registry' => q \in registry)
                                            /\ (q \in lingering => q \in lingering')
               /\ service' = service
               /\ reg'[p] = "trying" => RegistersAside(p) /\ phase'[p] = "main"
               /\ p \in registry' /\ p \notin lingering' =>
                     phase'[p] \in {"killed", "terminated", "panicked"}
                     \/ (phase'[p] = "main" /\ Contains(todo'[p], "deregister"))
  <2>1. \A q \in Procs : Ordered(todo'[q])
    BY <1>0, <1>1, OrderedTail, OrderedEmpty
  <2>2. ASSUME NEW q \in Procs
        PROVE /\ reg'[q] = "trying" => RegistersAside(q)' /\ phase'[q] = "main"
              /\ q \in registry' /\ q \notin lingering' =>
                    phase'[q] \in {"killed", "terminated", "panicked"}
                    \/ (phase'[q] = "main" /\ Contains(todo'[q], "deregister"))
    BY <1>1 DEF Listed, RegistersAside
  <2> QED BY <2>1, <2>2 DEF Listed, Ordered
<1>a. ASSUME NEW x, IsNext(p, x), Advance(p)
      PROVE  /\ todo[p] # <<>> /\ todo'[p] = Tail(todo[p]) /\ phase[p] = "main"
             /\ \A q \in Procs : q # p => todo'[q] = todo[q]
             /\ x # "deregister" /\ Contains(todo[p], "deregister") => Contains(todo'[p], "deregister")
             /\ x = "register" => Contains(todo'[p], "deregister")
  <2>1. /\ todo[p] # <<>> /\ todo'[p] = Tail(todo[p]) /\ phase[p] = "main" /\ Head(todo[p]) = x
        /\ \A q \in Procs : q # p => todo'[q] = todo[q]
    BY <1>a DEF IsNext, Advance, ProcType
  <2>2. /\ x # "deregister" /\ Contains(todo[p], "deregister") => Contains(Tail(todo[p]), "deregister")
        /\ Contains(todo[p], x)
    BY <1>0, <2>1, OrderedTail
  <2>3. x = "register" => Contains(todo[p], "deregister")
    BY <1>0, <2>2 DEF Ordered
  <2> QED BY <2>1, <2>2, <2>3
<1>b. ASSUME NEW how, End(p, how)
      PROVE  /\ todo'[p] = <<>> /\ phase'[p] = how /\ reg'[p] = "none"
             /\ \A q \in Procs : q # p => todo'[q] = todo[q] /\ phase'[q] = phase[q] /\ reg'[q] = reg[q]
  BY <1>b DEF End, ProcType
<1>c. /\ reg[p] = "trying" => RegistersAside(p) /\ phase[p] = "main"
      /\ p \in registry /\ p \notin lingering =>
            phase[p] \in {"killed", "terminated", "panicked"}
            \/ (phase[p] = "main" /\ Contains(todo[p], "deregister"))
  BY DEF Listed
<1>2. CASE Open(p)
  BY <1>2, <1>a, <1>b, <1>c DEF Open
<1>3. CASE Launch(p)
  BY <1>3, <1>a, <1>c DEF Launch
<1>4. CASE Serve(p)
  BY <1>4, <1>a, <1>b, <1>c DEF Serve
<1>5. CASE RegisterAside(p)
  <2>1. \A q \in Procs : q # p => reg'[q] = reg[q]
    BY <1>5 DEF RegisterAside, ProcType
  <2> QED BY <1>5, <1>a, <1>c, <2>1 DEF RegisterAside
<1>6. CASE RegisterService(p)
  <2>1. /\ \A q \in Procs : q # p => reg'[q] = reg[q] /\ (q \in registry' => q \in registry)
        /\ reg'[p] = "over" \/ reg'[p] = reg[p]
        /\ service' = service /\ phase' = phase
    BY <1>6 DEF RegisterService, Registered, ProcType
  <2>2. lingering' = IF TooLate(p) THEN lingering \cup ({p} \cap registry') ELSE lingering
    BY <1>6 DEF RegisterService, MayLinger
  <2>3. \A q \in Procs : q \in lingering => q \in lingering'
    BY <2>2
  <2>4. CASE IsNext(p, "register")
    <3>1. phase[p] = "main" /\ Contains(todo[p], "deregister")
      <4>1. todo[p] # <<>> /\ Head(todo[p]) = "register" /\ phase[p] = "main"
        BY <2>4 DEF IsNext
      <4>2. Contains(todo[p], "register")
        BY <1>0, <4>1, OrderedTail
      <4> QED BY <1>0, <4>1, <4>2 DEF Ordered
    <3>2. Advance(p) \/ todo' = todo
      BY <1>6 DEF RegisterService
    <3> QED BY <1>a, <1>c, <2>1, <2>3, <2>4, <3>1, <3>2
  <2>5. CASE ~IsNext(p, "register")
    <3>1. todo' = todo /\ RegistersAside(p) /\ phase[p] = "main"
      BY <1>6, <1>c, <2>5 DEF RegisterService
    <3>2. p \in registry' /\ p \notin lingering' => Contains(todo[p], "deregister")
      BY <2>2, <3>1 DEF TooLate
    <3> QED BY <2>1, <2>3, <3>1, <3>2
  <2> QED BY <2>4, <2>5
<1>7. CASE Signal(p)
  BY <1>7, <1>a, <1>b, <1>c DEF Signal, Waiting
<1>8. CASE DeregisterService(p)
  <2>1. CASE End(p, "panicked") /\ UNCHANGED <<registry, lingering, service>>
    BY <1>b, <2>1
  <2>2. CASE registry' = registry \ {p} /\ Advance(p) /\ UNCHANGED <<phase, reg, lingering, service>>
    BY <1>8, <1>a, <1>c, <2>2 DEF DeregisterService
  <2>3. CASE lingering' = lingering \cup ({p} \cap registry) /\ Advance(p)
             /\ UNCHANGED <<phase, reg, registry, service>>
    BY <1>8, <1>a, <1>c, <2>3 DEF DeregisterService
  <2> QED BY <1>8, <2>1, <2>2, <2>3 DEF DeregisterService
<1>9. CASE StopPart(p)
  BY <1>9, <1>a, <1>c DEF StopPart
<1>10. CASE GracefulStop(p)
  BY <1>10, <1>c DEF GracefulStop
<1>11. CASE Drained(p, Busy(p)) \/ ForceStop(p, Busy(p))
  <2>1. Advance(p) /\ UNCHANGED <<service, phase, reg, registry, lingering>>
    BY <1>11 DEF Drained, ForceStop
  <2>2. PICK x : x # "deregister" /\ IsNext(p, x)
    BY <1>11 DEF Drained, ForceStop
  <2> QED BY <1>a, <1>c, <2>1, <2>2
<1>12. CASE Exit(p)
  <2>1. ~Contains(todo[p], "deregister") /\ phase[p] = "main"
    <3>1. Len(<<>>) = 0
      OBVIOUS
    <3> QED BY <1>12, <3>1 DEF Exit, Contains
  <2> QED BY <1>12, <1>b, <1>c, <2>1 DEF Exit
<1>13. CASE Crash(p)
  BY <1>13, <1>b DEF Crash
<1>14. CASE Expire(p)
  BY <1>14, <1>c DEF Expire
<1> QED BY <1>2, <1>3, <1>4, <1>5, <1>6, <1>7, <1>8, <1>9, <1>10, <1>11, <1>12, <1>13, <1>14
        DEF ProcSteps

\* Listed is inductive.
LEMMA ListedInduction == Spec => []Listed
<1>1. Init => Listed
  <2> SUFFICES ASSUME Init, NEW p \in Procs
               PROVE  /\ Ordered(todo[p]) /\ reg[p] # "trying" /\ p \notin registry
    BY DEF Listed, Ordered
  <2>1. service[p] \in Services /\ todo[p] = Main(service[p]) /\ reg[p] = "none" /\ registry = {}
    BY DEF Init, ProcInit
  <2> QED BY <2>1, MainOrdered
<1>2. TypeOK /\ Listed /\ [Next]_vars => Listed'
  <2> SUFFICES ASSUME TypeOK, Listed, [Next]_vars PROVE Listed'
    OBVIOUS
  <2>1. ASSUME NEW p \in Procs, Life(p) \/ Shutdown(p) PROVE Listed'
    <3>1. ProcType
      BY DEF TypeOK, ProcType
    <3> QED BY <2>1, <3>1, ProcStepOf, ProcListed
  <2>2. CASE UNCHANGED procVars
    BY <2>2 DEF procVars, Listed, RegistersAside
  <2> QED BY <2>1, <2>2 DEF Next, RecordPerformance, Receive, GiveUp, SaveFiles,
             DeletePerformanceHistory, DeleteStorage, Handler, PprofProxy, Viewer, ListServices,
             Monitor, TimePasses, vars
<1> QED BY <1>1, <1>2, OwnedInduction, PTL DEF Spec

\* In every process: once main has deregistered, its address is not listed while it
\* drains nor after its exit, unless Nacos did not hear of it or the user service's
\* goroutine registered once more.
THEOREM AlwaysUnlistedOnceDeregistered == Spec => []UnlistedOnceDeregistered
<1>1. TypeOK /\ Listed => UnlistedOnceDeregistered
  <2> SUFFICES ASSUME TypeOK, Listed, NEW p \in Procs, p \notin lingering,
                      phase[p] = "exited" \/ (Quitting(p) /\ ~IsNext(p, "deregister")),
                      p \in registry
               PROVE  FALSE
    BY DEF UnlistedOnceDeregistered
  <2>1. phase[p] = "main" /\ Contains(todo[p], "deregister") /\ ~Contains(todo[p], "wait")
        /\ ~IsNext(p, "deregister")
    BY DEF Listed, Quitting
  <2>2. /\ todo[p] \in Seq(Steps) /\ DOMAIN todo[p] = 1 .. Len(todo[p]) /\ Len(todo[p]) \in Nat
    BY LenProperties DEF TypeOK
  <2>3. PICK j \in 1 .. Len(todo[p]) : todo[p][j] = "deregister"
    BY <2>1 DEF Contains
  <2>4. j # 1
    <3>1. j = 1 => todo[p] # <<>> /\ Head(todo[p]) = "deregister"
      BY <2>2, <2>3
    <3> QED BY <2>1, <3>1 DEF IsNext
  <2>5. j - 1 \in 1 .. Len(todo[p]) /\ j = (j - 1) + 1
    BY <2>2, <2>4
  <2>6. todo[p][j - 1] = "wait"
    BY <2>2, <2>3, <2>5 DEF Listed
  <2> QED BY <2>1, <2>5, <2>6 DEF Contains
<1> QED BY <1>1, OwnedInduction, ListedInduction, PTL

-----------------------------------------------------------------------------
(* The table of viewers.                                                   *)

\* A set of naturals has a least element.
LEMMA LeastNat ==
  ASSUME NEW T \in SUBSET Nat, T # {}
  PROVE  \E m \in T : \A k \in T : m <= k
<1> DEFINE R == {ss \in Nat \X Nat : ss[1] < ss[2]}
<1>1. OpToRel(<, Nat) = R
  BY DEF OpToRel
<1>2. IsWellFoundedOn(R, Nat)
  BY <1>1, NatLessThanWellFounded
<1>3. PICK m \in T : \A k \in T : <<k, m>> \notin R
  <2> HIDE DEF R
  <2> QED BY <1>2, WFMin
<1>4. ASSUME NEW k \in T PROVE m <= k
  <2>1. <<k, m>> \in Nat \X Nat
    OBVIOUS
  <2>2. ~(k < m)
    BY <1>3, <2>1
  <2> QED BY <2>2
<1> QED BY <1>4

\* Drop's loop after i sessions, given what it left after i - 1.
LeftAfter(s, D, g, i) ==
    IF i = 0 THEN <<>> ELSE IF s[i] \in D THEN g[i - 1] ELSE Append(g[i - 1], s[i])

\* g is what is left of s after each of the first n sessions.
Leaves(s, D, n, g) == g = [i \in 0 .. n |-> LeftAfter(s, D, g, i)]

\* The function that Drop's recursion defines exists: a least n up to which it did not
\* would have a predecessor up to which it does.
LEMMA LeavesExist ==
  ASSUME NEW s, NEW D, NEW n \in Nat
  PROVE  \E g : Leaves(s, D, n, g)
<1> DEFINE Bad == {k \in Nat : ~\E g : Leaves(s, D, k, g)}
<1>1. 0 \notin Bad
  <2> DEFINE g == [i \in 0 .. 0 |-> <<>>]
  <2>1. Leaves(s, D, 0, g)
    BY DEF Leaves, LeftAfter
  <2> QED BY <2>1
<1>2. ASSUME NEW k \in Nat, k \notin Bad PROVE k + 1 \notin Bad
  <2>1. PICK g : Leaves(s, D, k, g)
    BY <1>2
  <2> DEFINE h == [i \in 0 .. k + 1 |-> LeftAfter(s, D, g, i)]
  <2>2. ASSUME NEW i \in 0 .. k PROVE h[i] = g[i]
    <3>1. i \in 0 .. k + 1
      OBVIOUS
    <3>2. g[i] = LeftAfter(s, D, g, i)
      BY <2>1 DEF Leaves
    <3> QED BY <3>1, <3>2
  <2>3. ASSUME NEW i \in 0 .. k + 1 PROVE LeftAfter(s, D, h, i) = LeftAfter(s, D, g, i)
    <3>1. i # 0 => i - 1 \in 0 .. k
      OBVIOUS
    <3>2. i # 0 => h[i - 1] = g[i - 1]
      BY <2>2, <3>1
    <3> HIDE DEF h
    <3> QED BY <3>2 DEF LeftAfter
  <2>4. Leaves(s, D, k + 1, h)
    <3>1. h = [i \in 0 .. k + 1 |-> LeftAfter(s, D, h, i)]
      BY <2>3
    <3> HIDE DEF h
    <3> QED BY <3>1 DEF Leaves
  <2> HIDE DEF h
  <2> QED BY <2>4
<1> HIDE DEF Bad
<1>3. Bad = {}
  <2> SUFFICES ASSUME Bad # {} PROVE FALSE
    OBVIOUS
  <2>1. Bad \in SUBSET Nat
    BY DEF Bad
  <2>2. PICK m \in Bad : \A k \in Bad : m <= k
    BY <2>1, LeastNat
  <2>3. m # 0 /\ m - 1 \in Nat /\ m - 1 \notin Bad /\ m = (m - 1) + 1
    BY <1>1, <2>1, <2>2
  <2> QED BY <1>2, <2>3
<1> QED BY <1>3 DEF Bad

\* Drop is the last value of such a function.
LEMMA DropFound ==
  ASSUME NEW s, NEW D, Len(s) \in Nat
  PROVE  \E g : Leaves(s, D, Len(s), g) /\ Drop(s, D) = g[Len(s)]
<1> DEFINE g == CHOOSE g : Leaves(s, D, Len(s), g)
<1>1. Leaves(s, D, Len(s), g)
  BY LeavesExist
<1>2. Drop(s, D) = g[Len(s)]
  BY DEF Drop, Leaves, LeftAfter
<1> HIDE DEF g
<1> QED BY <1>1, <1>2

\* What Drop leaves is a table no longer than s, shorter if the first session went,
\* with every session that is not in D.
LEMMA DropLeaves ==
  ASSUME NEW S, NEW s \in Seq(S), NEW D
  PROVE  /\ Drop(s, D) \in Seq(S)
         /\ Len(Drop(s, D)) <= Len(s)
         /\ s # <<>> /\ Head(s) \in D => Len(Drop(s, D)) < Len(s)
         /\ \A x : Contains(s, x) /\ x \notin D => Contains(Drop(s, D), x)
<1>0. Len(s) \in Nat /\ \A i \in 1 .. Len(s) : s[i] \in S
  BY LenProperties, ElementOfSeq
<1>1. PICK g : Leaves(s, D, Len(s), g) /\ Drop(s, D) = g[Len(s)]
  BY <1>0, DropFound
<1>2. ASSUME NEW i \in 0 .. Len(s) PROVE g[i] = LeftAfter(s, D, g, i)
  BY <1>1 DEF Leaves
<1> DEFINE Fine(i) == /\ g[i] \in Seq(S) /\ Len(g[i]) <= i
                      /\ i # 0 /\ s[1] \in D => Len(g[i]) < i
                      /\ \A j \in 1 .. i : s[j] \notin D => Contains(g[i], s[j])
           Bad == {i \in 0 .. Len(s) : ~Fine(i)}
<1>3. Fine(0)
  <2>1. g[0] = <<>>
    BY <1>0, <1>2 DEF LeftAfter
  <2> QED BY <2>1, EmptySeq
<1>4. ASSUME NEW i \in 1 .. Len(s), Fine(i - 1) PROVE Fine(i)
  <2>0. i - 1 \in 0 .. Len(s) /\ i \in 0 .. Len(s) /\ i # 0 /\ i \in Nat /\ s[i] \in S
        /\ Len(g[i - 1]) \in Nat
    BY <1>0, <1>4, LenProperties
  <2>1. CASE s[i] \in D
    <3>1. g[i] = g[i - 1]
      BY <1>2, <2>0, <2>1 DEF LeftAfter
    <3>2. ASSUME NEW j \in 1 .. i, s[j] \notin D PROVE Contains(g[i], s[j])
      <4>1. j \in 1 .. i - 1
        BY <2>0, <2>1, <3>2
      <4> QED BY <1>4, <3>1, <3>2, <4>1
    <3>3. g[i] \in Seq(S) /\ Len(g[i]) <= i /\ Len(g[i]) < i
      BY <1>4, <2>0, <3>1
    <3> QED BY <3>2, <3>3
  <2>2. CASE s[i] \notin D
    <3>1. g[i] = Append(g[i - 1], s[i])
      BY <1>2, <2>0, <2>2 DEF LeftAfter
    <3>2. /\ g[i] \in Seq(S) /\ Len(g[i]) = Len(g[i - 1]) + 1
          /\ \A j \in 1 .. Len(g[i - 1]) : g[i][j] = g[i - 1][j]
          /\ g[i][Len(g[i - 1]) + 1] = s[i]
      BY <1>4, <2>0, <3>1, AppendProperties
    <3>3. ASSUME NEW j \in 1 .. i, s[j] \notin D PROVE Contains(g[i], s[j])
      <4>1. CASE j = i
        <5>1. Len(g[i - 1]) + 1 \in 1 .. Len(g[i])
          BY <2>0, <3>2
        <5> QED BY <3>2, <4>1, <5>1 DEF Contains
      <4>2. CASE j # i
        <5>1. j \in 1 .. i - 1
          BY <2>0, <4>2
        <5>2. PICK k \in 1 .. Len(g[i - 1]) : g[i - 1][k] = s[j]
          BY <1>4, <3>3, <5>1 DEF Contains
        <5>3. k \in 1 .. Len(g[i]) /\ g[i][k] = s[j]
          BY <2>0, <3>2, <5>2
        <5> QED BY <5>3 DEF Contains
      <4> QED BY <4>1, <4>2
    <3>4. s[1] \in D => i # 1
      BY <2>2
    <3>5. Len(g[i]) <= i /\ (s[1] \in D => Len(g[i]) < i)
      BY <1>4, <2>0, <3>2, <3>4
    <3> QED BY <3>2, <3>3, <3>5
  <2> QED BY <2>1, <2>2
<1>5. Fine(Len(s))
  <2> SUFFICES ASSUME ~Fine(Len(s)) PROVE FALSE
    OBVIOUS
  <2>1. Bad \in SUBSET Nat /\ Bad # {}
    BY <1>0
  <2> HIDE DEF Bad
  <2>2. PICK m \in Bad : \A k \in Bad : m <= k
    BY <2>1, LeastNat
  <2> USE DEF Bad
  <2> HIDE DEF Fine
  <2>3. m \in 1 .. Len(s) /\ m - 1 \in 0 .. Len(s) /\ ~(m <= m - 1)
    BY <1>0, <1>3, <2>2
  <2>4. Fine(m - 1)
    BY <2>2, <2>3
  <2> QED BY <1>4, <2>2, <2>3, <2>4
<1>6. s # <<>> => Len(s) # 0 /\ Head(s) = s[1]
  BY EmptySeq
<1>7. ASSUME NEW x, Contains(s, x), x \notin D PROVE Contains(g[Len(s)], x)
  <2>1. PICK j \in 1 .. Len(s) : s[j] = x
    BY <1>7 DEF Contains
  <2> QED BY <1>5, <1>7, <2>1
<1> QED BY <1>1, <1>5, <1>6, <1>7

\* Moving a session to the end of the table keeps its length and every session.
LEMMA MoveToEnd ==
  ASSUME NEW S, NEW s \in Seq(S), NEW i \in 1 .. Len(s)
  PROVE  /\ Append(RemoveAt(s, i), s[i]) \in Seq(S)
         /\ Len(Append(RemoveAt(s, i), s[i])) = Len(s)
         /\ \A x : Contains(s, x) => Contains(Append(RemoveAt(s, i), s[i]), x)
<1> DEFINE a == SubSeq(s, 1, i - 1)
           b == SubSeq(s, i + 1, Len(s))
           r == RemoveAt(s, i)
           t == Append(r, s[i])
<1>0. Len(s) \in Nat /\ (\A j \in 1 .. Len(s) : s[j] \in S) /\ i \in Nat /\ i <= Len(s) /\ i >= 1
  BY LenProperties, ElementOfSeq
<1>1. a \in Seq(S) /\ Len(a) = i - 1 /\ \A j \in 1 .. i - 1 : a[j] = s[j]
  <2>1. \A j \in 1 .. i - 1 : s[j] \in S
    BY <1>0
  <2>2. 1 \in Int /\ i - 1 \in Int
    BY <1>0
  <2>3. /\ a \in Seq(S) /\ Len(a) = IF 1 <= i - 1 THEN i - 1 - 1 + 1 ELSE 0
        /\ \A j \in 1 .. i - 1 - 1 + 1 : a[j] = s[1 + j - 1]
    BY <2>1, <2>2, SubSeqProperties
  <2>4. \A j \in 1 .. i - 1 : 1 + j - 1 = j /\ j \in 1 .. i - 1 - 1 + 1
    BY <1>0
  <2> HIDE DEF a
  <2>5. Len(a) = i - 1
    BY <1>0, <2>3
  <2> QED BY <2>3, <2>4, <2>5
<1>2. b \in Seq(S) /\ Len(b) = Len(s) - i /\ \A j \in 1 .. Len(s) - i : b[j] = s[i + j]
  <2>1. \A j \in i + 1 .. Len(s) : s[j] \in S
    BY <1>0
  <2>2. i + 1 \in Int /\ Len(s) \in Int
    BY <1>0
  <2>3. /\ b \in Seq(S) /\ Len(b) = IF i + 1 <= Len(s) THEN Len(s) - (i + 1) + 1 ELSE 0
        /\ \A j \in 1 .. Len(s) - (i + 1) + 1 : b[j] = s[(i + 1) + j - 1]
    BY <2>1, <2>2, SubSeqProperties
  <2>4. \A j \in 1 .. Len(s) - i : (i + 1) + j - 1 = i + j /\ j \in 1 .. Len(s) - (i + 1) + 1
    BY <1>0
  <2> HIDE DEF b
  <2>5. Len(b) = Len(s) - i
    BY <1>0, <2>3
  <2> QED BY <2>3, <2>4, <2>5
<1>3. r = a \o b
  BY DEF RemoveAt
<1> HIDE DEF a, b, r
<1>4. /\ r \in Seq(S) /\ Len(r) = Len(s) - 1
      /\ \A j \in 1 .. Len(a) + Len(b) : r[j] = IF j <= Len(a) THEN a[j] ELSE b[j - Len(a)]
  <2>1. /\ r \in Seq(S) /\ Len(r) = Len(a) + Len(b)
        /\ \A j \in 1 .. Len(a) + Len(b) : r[j] = IF j <= Len(a) THEN a[j] ELSE b[j - Len(a)]
    BY <1>1, <1>2, <1>3, ConcatProperties
  <2>2. Len(a) + Len(b) = Len(s) - 1
    BY <1>0, <1>1, <1>2
  <2> QED BY <2>1, <2>2
<1>5. /\ t \in Seq(S) /\ Len(t) = Len(s) /\ t[Len(s)] = s[i]
      /\ \A j \in 1 .. Len(s) - 1 : t[j] = r[j]
  <2>1. /\ t \in Seq(S) /\ Len(t) = Len(r) + 1 /\ t[Len(r) + 1] = s[i]
        /\ \A j \in 1 .. Len(r) : t[j] = r[j]
    BY <1>0, <1>4, AppendProperties
  <2>2. Len(r) + 1 = Len(s)
    BY <1>0, <1>4
  <2> HIDE DEF t
  <2> QED BY <1>4, <2>1, <2>2
<1> HIDE DEF t
<1>6. ASSUME NEW j \in 1 .. Len(s) PROVE Contains(t, s[j])
  <2>1. CASE j = i
    BY <1>0, <1>5, <2>1 DEF Contains
  <2>2. CASE j < i
    <3>1. j \in 1 .. Len(a) + Len(b) /\ j <= Len(a) /\ j \in 1 .. Len(s) - 1 /\ j \in 1 .. i - 1
      BY <1>0, <1>1, <1>2, <2>2
    <3>2. t[j] = s[j]
      BY <1>1, <1>4, <1>5, <3>1
    <3> QED BY <1>5, <3>2 DEF Contains
  <2>3. CASE j > i
    <3>1. /\ j - 1 \in 1 .. Len(a) + Len(b) /\ ~(j - 1 <= Len(a)) /\ j - 1 \in 1 .. Len(s) - 1
          /\ j - 1 \in 1 .. Len(s)
          /\ (j - 1) - Len(a) \in 1 .. Len(s) - i /\ i + ((j - 1) - Len(a)) = j
      BY <1>0, <1>1, <1>2, <2>3
    <3>2. t[j - 1] = b[(j - 1) - Len(a)]
      BY <1>4, <1>5, <3>1
    <3>3. b[(j - 1) - Len(a)] = s[j]
      BY <1>2, <3>1
    <3> QED BY <1>5, <3>1, <3>2, <3>3 DEF Contains
  <2> QED BY <1>0, <2>1, <2>2, <2>3
<1>7. ASSUME NEW x, Contains(s, x) PROVE Contains(t, x)
  BY <1>6, <1>7 DEF Contains
<1> QED BY <1>5, <1>7 DEF t, r

\* The table that is left after the sessions of viewers that exited: it has every
\* running one.
LEMMA CleanedTable ==
  ASSUME TableInv, NEW table \in Cleaned
  PROVE  /\ table \in Seq(Tools) /\ Len(table) \in Nat /\ Len(table) <= MaxPprofSessions
         /\ DOMAIN table = 1 .. Len(table)
         /\ \A t \in Tools : viewer[t].state = "running" => Contains(table, t)
<1>1. PICK D \in SUBSET {t \in ToSet(sessions) : viewer[t].state = "exited"} :
              table = Drop(sessions, D)
  BY DEF Cleaned, Without
<1>2. /\ table \in Seq(Tools) /\ Len(table) <= Len(sessions)
      /\ \A x : Contains(sessions, x) /\ x \notin D => Contains(table, x)
  BY <1>1, DropLeaves DEF TableInv
<1>3. Len(table) \in Nat /\ Len(sessions) \in Nat /\ DOMAIN table = 1 .. Len(table)
  BY <1>2, LenProperties DEF TableInv
<1>4. ASSUME NEW t \in Tools, viewer[t].state = "running" PROVE Contains(table, t)
  <2>1. Contains(sessions, t)
    BY <1>4 DEF TableInv, ViewersTracked
  <2>2. t \notin D
    BY <1>1, <1>4
  <2> QED BY <1>2, <2>1, <2>2
<1> QED BY <1>2, <1>3, <1>4, SessionBounds DEF TableInv, ViewersTracked

\* The viewers.
ViewerRecords == [Tools -> [file : Files \cup {NoFile},
                            state : {"unused", "running", "killed", "exited", "signaled", "over"}]]

\* Kill leaves the viewers outside D as they were and none in D running.
LEMMA Killed ==
  ASSUME viewer \in ViewerRecords, NEW D
  PROVE  /\ Kill(D) \in ViewerRecords
         /\ \A t \in Tools : Kill(D)[t].state = "running" => t \notin D /\ viewer[t].state = "running"
<1>1. \A t \in Tools : [viewer[t] EXCEPT !.state = "killed"]
                        \in [file : Files \cup {NoFile},
                             state : {"unused", "running", "killed", "exited", "signaled", "over"}]
  BY DEF ViewerRecords
<1>2. Kill(D) \in ViewerRecords
  BY <1>1 DEF Kill, ViewerRecords
<1>3. ASSUME NEW t \in Tools, Kill(D)[t].state = "running"
      PROVE  t \notin D /\ viewer[t].state = "running"
  BY <1>3 DEF Kill, ViewerRecords
<1> QED BY <1>2, <1>3

\* A request for a viewer keeps TableInv: the session that makes room is the one whose
\* viewer is killed.
LEMMA ProxyTracks ==
  ASSUME TableInv, NEW f \in Files, NEW mayFail, Reuse(f) \/ StartTool(f, mayFail)
  PROVE  TableInv'
<1>0. viewer \in ViewerRecords
  BY DEF TableInv, ViewerRecords
<1>1. CASE Reuse(f)
  <2>1. PICK table \in Cleaned : \E i \in DOMAIN table : sessions' = Append(RemoveAt(table, i), table[i])
    BY <1>1 DEF Reuse
  <2>2. PICK i \in DOMAIN table : sessions' = Append(RemoveAt(table, i), table[i])
    BY <2>1
  <2>3. /\ table \in Seq(Tools) /\ Len(table) \in Nat /\ Len(table) <= MaxPprofSessions
        /\ i \in 1 .. Len(table)
        /\ \A t \in Tools : viewer[t].state = "running" => Contains(table, t)
    BY <2>2, CleanedTable
  <2>4. /\ sessions' \in Seq(Tools) /\ Len(sessions') = Len(table)
        /\ \A x : Contains(table, x) => Contains(sessions', x)
    BY <2>2, <2>3, MoveToEnd
  <2>5. viewer' = viewer
    BY <1>1 DEF Reuse
  <2> QED BY <2>3, <2>4, <2>5 DEF TableInv, ViewersTracked
<1>2. CASE StartTool(f, mayFail)
  <2>1. PICK table \in Cleaned, t \in Tools :
            LET rest == Drop(table, Evicted(table)) IN
            \/ /\ sessions' = Append(rest, t)
               /\ viewer' = [Kill(Evicted(table)) EXCEPT ![t] = [file |-> f, state |-> "running"]]
            \/ /\ sessions' = rest
               /\ viewer' = Kill(Evicted(table))
    BY <1>2 DEF StartTool
  <2> DEFINE E == Evicted(table)
             rest == Drop(table, E)
  <2>2. /\ table \in Seq(Tools) /\ Len(table) \in Nat /\ Len(table) <= MaxPprofSessions
        /\ \A u \in Tools : viewer[u].state = "running" => Contains(table, u)
    BY CleanedTable
  <2>3. /\ rest \in Seq(Tools) /\ Len(rest) <= Len(table)
        /\ table # <<>> /\ Head(table) \in E => Len(rest) < Len(table)
        /\ \A x : Contains(table, x) /\ x \notin E => Contains(rest, x)
    BY <2>2, DropLeaves
  <2>4. Len(rest) \in Nat /\ Len(rest) < MaxPprofSessions
    <3>1. Len(rest) \in Nat
      BY <2>3, LenProperties
    <3>2. CASE Len(table) >= MaxPprofSessions
      <4>1. table # <<>>
        BY <2>2, <3>2, SessionBounds, EmptySeq
      <4>2. Head(table) \in E
        BY <3>2 DEF Evicted
      <4> HIDE DEF E, rest
      <4> QED BY <2>2, <2>3, <3>1, <4>1, <4>2, SessionBounds
    <3> HIDE DEF E, rest
    <3> QED BY <2>2, <2>3, <3>1, <3>2, SessionBounds
  <2>5. /\ Kill(E) \in ViewerRecords
        /\ \A u \in Tools : Kill(E)[u].state = "running" => Contains(rest, u)
    BY <1>0, <2>2, <2>3, Killed
  <2>6. CASE sessions' = rest /\ viewer' = Kill(E)
    <3> HIDE DEF E, rest
    <3> QED BY <2>3, <2>4, <2>5, <2>6, SessionBounds DEF TableInv, ViewersTracked, ViewerRecords
  <2>7. CASE sessions' = Append(rest, t) /\ viewer' = [Kill(E) EXCEPT ![t] = [file |-> f, state |-> "running"]]
    <3> HIDE DEF E, rest
    <3>1. viewer' \in ViewerRecords
      BY <2>5, <2>7 DEF ViewerRecords
    <3>2. \A u \in Tools : u # t => viewer'[u] = Kill(E)[u]
      BY <2>5, <2>7 DEF ViewerRecords
    <3>3. /\ sessions' \in Seq(Tools) /\ Len(sessions') = Len(rest) + 1
          /\ \A j \in 1 .. Len(rest) : sessions'[j] = rest[j]
          /\ sessions'[Len(rest) + 1] = t
      BY <2>3, <2>7, AppendProperties
    <3>4. Len(rest) + 1 <= MaxPprofSessions
      BY <2>4, SessionBounds
    <3>5. ASSUME NEW u \in Tools, viewer'[u].state = "running" PROVE Contains(sessions', u)
      <4>1. CASE u = t
        <5>1. Len(rest) + 1 \in 1 .. Len(sessions')
          BY <2>4, <3>3
        <5> QED BY <3>3, <4>1, <5>1 DEF Contains
      <4>2. CASE u # t
        <5>1. PICK j \in 1 .. Len(rest) : rest[j] = u
          BY <2>5, <3>2, <3>5, <4>2 DEF Contains
        <5>2. j \in 1 .. Len(sessions') /\ sessions'[j] = u
          BY <2>4, <3>3, <5>1
        <5> QED BY <5>2 DEF Contains
      <4> QED BY <4>1, <4>2
    <3> QED BY <3>1, <3>3, <3>4, <3>5 DEF TableInv, ViewersTracked, ViewerRecords
  <2> QED BY <2>1, <2>6, <2>7
<1> QED BY <1>1, <1>2

\* TableInv is inductive.
LEMMA TableInduction == Spec => []TableInv
<1>1. Init => TableInv
  <2> SUFFICES ASSUME Init PROVE TableInv
    OBVIOUS
  <2>1. sessions = <<>> /\ viewer = [t \in Tools |-> [file |-> NoFile, state |-> "unused"]]
    BY DEF Init, SessionsInit
  <2>2. sessions \in Seq(Tools) /\ Len(sessions) = 0
    BY <2>1, EmptySeq
  <2> QED BY <2>1, <2>2, SessionBounds DEF TableInv, ViewersTracked
<1>2. TableInv /\ [Next]_vars => TableInv'
  <2> SUFFICES ASSUME TableInv, [Next]_vars PROVE TableInv'
    OBVIOUS
  <2>0. viewer \in ViewerRecords
    BY DEF TableInv, ViewerRecords
  <2>1. ASSUME NEW f \in Files, PprofProxy(f) PROVE TableInv'
    BY <2>1, ProxyTracks DEF PprofProxy
  <2>2. ASSUME NEW t \in Tools, ToolEnds(t) PROVE TableInv'
    <3>1. viewer' \in ViewerRecords
      BY <2>0, <2>2 DEF ToolEnds, ViewerRecords
    <3>2. \A u \in Tools : viewer'[u].state = "running" => viewer[u].state = "running"
      BY <2>0, <2>2 DEF ToolEnds, ViewerRecords
    <3> QED BY <2>2, <3>1, <3>2 DEF ToolEnds, TableInv, ViewersTracked, ViewerRecords
  <2>3. ASSUME NEW t \in Tools, Reap(t) PROVE TableInv'
    <3> DEFINE D == {u \in Tools : viewer[u].file = viewer[t].file /\ u = t}
    <3>1. sessions' = Drop(sessions, D)
      BY <2>3 DEF Reap, SetTable, Without
    <3>2. /\ sessions' \in Seq(Tools) /\ Len(sessions') <= Len(sessions)
          /\ \A x : Contains(sessions, x) /\ x \notin D => Contains(sessions', x)
      <4>1. sessions \in Seq(Tools)
        BY DEF TableInv
      <4> HIDE DEF D
      <4> QED BY <3>1, <4>1, DropLeaves
    <3>3. viewer' \in ViewerRecords
      BY <2>0, <2>3 DEF Reap, ViewerRecords
    <3>4. \A u \in Tools : viewer'[u].state = "running" => viewer[u].state = "running" /\ u # t
      BY <2>0, <2>3 DEF Reap, ViewerRecords
    <3>5. \A u \in Tools : u # t => u \notin D
      OBVIOUS
    <3>6. Len(sessions') \in Nat /\ Len(sessions) \in Nat
      BY <3>2, LenProperties DEF TableInv
    <3> HIDE DEF D
    <3>7. \A u \in Tools : viewer'[u].state = "running" => Contains(sessions', u)
      BY <3>2, <3>4, <3>5 DEF TableInv, ViewersTracked
    <3>8. Len(sessions') <= MaxPprofSessions
      BY <3>2, <3>6, SessionBounds DEF TableInv, ViewersTracked
    <3> QED BY <3>2, <3>3, <3>7, <3>8 DEF TableInv, ViewersTracked, ViewerRecords
  <2>4. CASE Monitor
    <3> DEFINE old == ToSet(SubSeq(sessions, 1, stale))
    <3>1. PICK table \in Cleaned : sessions' = Drop(table, old)
      BY <2>4 DEF Monitor, Cleanup, SetTable
    <3>2. viewer' = Kill(old)
      BY <2>4 DEF Monitor, Cleanup
    <3> HIDE DEF old
    <3>3. /\ table \in Seq(Tools) /\ Len(table) \in Nat /\ Len(table) <= MaxPprofSessions
          /\ \A u \in Tools : viewer[u].state = "running" => Contains(table, u)
      BY CleanedTable
    <3>4. /\ sessions' \in Seq(Tools) /\ Len(sessions') <= Len(table)
          /\ \A x : Contains(table, x) /\ x \notin old => Contains(sessions', x)
      BY <3>1, <3>3, DropLeaves
    <3>5. Len(sessions') \in Nat
      BY <3>4, LenProperties
    <3>6. /\ viewer' \in ViewerRecords
          /\ \A u \in Tools : viewer'[u].state = "running" => Contains(sessions', u)
      BY <2>0, <3>2, <3>3, <3>4, Killed
    <3>7. Len(sessions') <= MaxPprofSessions
      BY <3>3, <3>4, <3>5, SessionBounds
    <3> QED BY <3>4, <3>6, <3>7 DEF TableInv, ViewersTracked, ViewerRecords
  <2>5. CASE DeleteStorage
    <3>1. sessions' = <<>> /\ viewer' = Kill(ToSet(sessions))
      BY <2>5 DEF DeleteStorage, KillAll
    <3>2. /\ viewer' \in ViewerRecords
          /\ \A u \in Tools : viewer'[u].state = "running" =>
                 u \notin ToSet(sessions) /\ viewer[u].state = "running"
      BY <2>0, <3>1, Killed
    <3>3. \A u \in Tools : Contains(sessions, u) => u \in ToSet(sessions)
      BY DEF Contains, ToSet
    <3>4. \A u \in Tools : viewer'[u].state # "running"
      BY <3>2, <3>3 DEF TableInv, ViewersTracked
    <3>5. sessions' \in Seq(Tools) /\ Len(sessions') = 0
      BY <3>1, EmptySeq
    <3> QED BY <3>2, <3>4, <3>5, SessionBounds DEF TableInv, ViewersTracked, ViewerRecords
  <2>6. CASE UNCHANGED <<sessions, viewer>>
    BY <2>6 DEF TableInv, ViewersTracked
  <2> QED BY <2>1, <2>2, <2>3, <2>4, <2>5, <2>6 DEF Next, Life, Shutdown, RecordPerformance, Receive,
             GiveUp, SaveFiles, DeletePerformanceHistory, Handler, Viewer, ListServices, TimePasses,
             Idle, vars, sessionVars
<1> QED BY <1>1, <1>2, PTL DEF Spec

\* Whatever requests, the ends of viewers, their goroutines and the cleanup monitor do
\* in whatever order, a viewer that runs is in the table and the table is within its
\* limit.
THEOREM ViewersAlwaysTracked == Spec => []ViewersTracked
<1>1. TableInv => ViewersTracked
  BY DEF TableInv
<1> QED BY <1>1, TableInduction, PTL
=============================================================================
