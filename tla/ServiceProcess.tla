--------------------------- MODULE ServiceProcess ---------------------------
(***************************************************************************)
(* The life of a process, from main's start to its end: main opens what it *)
(* needs, starts its parts, registers its address with Nacos (with         *)
(* retries), waits for SIGTERM, and takes down what it started.            *)
(*                                                                         *)
(* The five mains are lists of steps (Main).  The user service registers   *)
(* in a goroutine, so that it can be told to stop meanwhile, and goes on   *)
(* without a Nacos client if it cannot make one.  Every process listens on *)
(* a port of its own, so a process and its address are the same here.      *)
(*                                                                         *)
(* Definitions whose name starts with Bug are faulty variants of the       *)
(* definition that follows them; no specification uses them.               *)
(***************************************************************************)
EXTENDS Naturals, Sequences, SequencesExt

CONSTANTS Procs,         \* the processes of a behaviour
          Services,      \* which of the mains they may run
          MaxAttempts,   \* registration attempts (10)
          Faults

FaultKinds == {"init",    \* main cannot open something it needs
               "nacos",   \* a call of Nacos fails
               "rpc",     \* a remote call or its answer is lost
               "storage", \* the ops centre cannot write a folder
               "tool",    \* a viewer cannot be started
               "crash"}   \* a process dies

ASSUME ProcessConstants ==
    /\ Services \subseteq {"gateway", "gms", "gs", "user", "monolith"}
    /\ Faults \subseteq FaultKinds /\ MaxAttempts \in Nat \ {0}

VARIABLES
    service,      \* service[p]: the main that p runs
    phase,        \* phase[p]: see ProcPhases
    todo,         \* todo[p]: what is left of main
    reg, tries,   \* the registration loop: its state, its failed attempts
    server,       \* server[p]: the gRPC server
    registry,     \* the addresses Nacos has
    lingering     \* history: the addresses it has although main has deregistered them

procVars == <<service, phase, todo, reg, tries, server, registry, lingering>>

\* What each main does, in this order; "wait" is <-quit.
GatewayMain  == <<"nacos", "redis", "ws", "grpc", "register", "http", "wait",
                  "deregister", "stop http", "stop grpc", "stop ws">>
GmsMain      == <<"db", "redis", "nacos", "machine", "grpc", "register", "wait",
                  "deregister", "stop grpc", "stop machine">>
GsMain       == <<"db", "nacos", "grpc", "register", "wait", "deregister", "stop grpc">>
UserMain     == <<"db", "grpc", "nacos", "http", "wait", "deregister">>
MonolithMain == <<"db", "ws", "machine", "http", "wait", "stop http", "stop machine", "stop ws">>

Steps == {"db", "redis", "nacos", "ws", "machine", "grpc", "http", "register", "wait",
          "deregister", "stop http", "stop grpc", "stop machine", "stop ws"}

Main(s) == CASE s = "gateway" -> GatewayMain [] s = "gms" -> GmsMain [] s = "gs" -> GsMain
             [] s = "user" -> UserMain [] s = "monolith" -> MonolithMain

\* A process runs main; main has returned; it died of a fatal error, a crash or
\* SIGKILL; SIGTERM or SIGINT ended it by its default action; a panic of main did.
ProcPhases == {"main", "exited", "killed", "terminated", "panicked"}

ProcInit ==
    /\ service \in [Procs -> Services]
    /\ phase = [p \in Procs |-> "main"]
    /\ todo = [p \in Procs |-> Main(service[p])]
    /\ reg = [p \in Procs |-> "none"] /\ tries = [p \in Procs |-> 0]
    /\ server = [p \in Procs |-> "closed"]
    /\ registry = {} /\ lingering = {}

Gone == {p \in Procs : phase[p] # "main"}
RegistersAside(p) == service[p] = "user"

IsNext(p, step) == phase[p] = "main" /\ todo[p] # <<>> /\ Head(todo[p]) = step
Waiting(p) == IsNext(p, "wait")
Quitting(p) == phase[p] = "main" /\ ~Contains(todo[p], "wait")
Advance(p) == todo' = [todo EXCEPT ![p] = Tail(@)]

\* The process ends, and with it its goroutines and its server.
End(p, how) ==
    /\ phase' = [phase EXCEPT ![p] = how]
    /\ reg' = [reg EXCEPT ![p] = "none"] /\ tries' = [tries EXCEPT ![p] = 0]
    /\ server' = [server EXCEPT ![p] = "closed"]
    /\ todo' = [todo EXCEPT ![p] = <<>>]

-----------------------------------------------------------------------------
(* Start-up.                                                               *)

\* A connection is opened; a failure is fatal.
Open(p) ==
    /\ \/ \E s \in {"db", "redis"} : IsNext(p, s)
       \/ IsNext(p, "nacos") /\ ~RegistersAside(p)
    /\ \/ Advance(p) /\ UNCHANGED <<phase, reg, tries, server>>
       \/ "init" \in Faults /\ End(p, "killed")
    /\ UNCHANGED <<service, registry, lingering>>

\* A part is started in a goroutine: the connection manager, the state machine,
\* the HTTP server (which ends the process if it cannot listen: see Crash).
Launch(p) ==
    /\ \E s \in {"ws", "machine", "http"} : IsNext(p, s)
    /\ Advance(p)
    /\ UNCHANGED <<service, phase, reg, tries, server, registry, lingering>>

\* Listen on the wanted port, else on a free one, and serve.
Serve(p) ==
    /\ IsNext(p, "grpc")
    /\ \/ /\ server' = [server EXCEPT ![p] = "serving"]
          /\ Advance(p)
          /\ UNCHANGED <<phase, reg, tries>>
       \/ "init" \in Faults /\ End(p, "killed")
    /\ UNCHANGED <<service, registry, lingering>>

\* The user service goes on without a Nacos client if it cannot make one, and
\* registers in a goroutine otherwise.
RegisterAside(p) ==
    /\ IsNext(p, "nacos") /\ RegistersAside(p)
    /\ Advance(p)
    /\ \/ reg' = [reg EXCEPT ![p] = "trying"]
       \/ "nacos" \in Faults /\ UNCHANGED reg
    /\ UNCHANGED <<service, phase, tries, server, registry, lingering>>

Registered(p) ==
    /\ registry' = registry \cup {p}
    /\ reg' = [reg EXCEPT ![p] = "over"]
    /\ tries' = [tries EXCEPT ![p] = 0]

\* The goroutine of the user service may come too late: main has deregistered.
TooLate(p) == RegistersAside(p) /\ ~Contains(todo[p], "deregister")

MayLinger(p) ==
    lingering' = IF TooLate(p) THEN lingering \cup ({p} \cap registry') ELSE lingering

BugRegisterService(p) ==
    /\ IsNext(p, "register") \/ reg[p] = "trying"
    /\ \/ Registered(p)
       \/ /\ "nacos" \in Faults
          /\ registry' \in {registry, registry \cup {p}}
          /\ reg' = [reg EXCEPT ![p] = IF tries[p] + 1 < MaxAttempts THEN "trying" ELSE "over"]
          /\ tries' = [tries EXCEPT ![p] = IF tries[p] + 1 < MaxAttempts THEN @ + 1 ELSE 0]
    /\ IF IsNext(p, "register") THEN Advance(p) ELSE UNCHANGED todo
    /\ MayLinger(p)
    /\ UNCHANGED <<service, phase, server>>

\* One attempt.  An attempt that fails may have reached Nacos.  After the
\* last one main goes on without being registered.
RegisterService(p) ==
    /\ IsNext(p, "register") \/ reg[p] = "trying"
    /\ \/ Registered(p)
       \/ /\ "nacos" \in Faults
          /\ registry' \in {registry, registry \cup {p}}
          /\ IF tries[p] + 1 < MaxAttempts
             THEN tries' = [tries EXCEPT ![p] = @ + 1] /\ UNCHANGED reg
             ELSE tries' = [tries EXCEPT ![p] = 0] /\ reg' = [reg EXCEPT ![p] = "over"]
    /\ IF IsNext(p, "register") /\ reg'[p] = "over" THEN Advance(p) ELSE UNCHANGED todo
    /\ MayLinger(p)
    /\ UNCHANGED <<service, phase, server>>

-----------------------------------------------------------------------------
(* Shutdown.                                                               *)

\* SIGTERM or SIGINT.  Until signal.Notify has been called, that is until
\* everything is started, the default action ends the process.
Signal(p) ==
    \/ /\ Waiting(p)
       /\ Advance(p)
       /\ UNCHANGED <<service, phase, reg, tries, server, registry, lingering>>
    \/ /\ phase[p] = "main" /\ ~Waiting(p) /\ ~Quitting(p)
       /\ End(p, "terminated")
       /\ UNCHANGED <<service, registry, lingering>>

\* The error is ignored.  Without a Nacos client the call is a nil
\* dereference, which ends the process.
DeregisterService(p) ==
    /\ IsNext(p, "deregister")
    /\ \/ /\ reg[p] = "none"
          /\ End(p, "panicked")
          /\ UNCHANGED <<registry, lingering>>
       \/ /\ reg[p] # "none"
          /\ registry' = registry \ {p}
          /\ Advance(p)
          /\ UNCHANGED <<phase, reg, tries, server, lingering>>
       \/ /\ reg[p] # "none" /\ "nacos" \in Faults
          /\ lingering' = lingering \cup ({p} \cap registry)
          /\ Advance(p)
          /\ UNCHANGED <<phase, reg, tries, server, registry>>
    /\ UNCHANGED service

\* The HTTP server (5 or 10 s at most), the connection manager, the state
\* machine (30 s at most): see WsManager and GameMachine.
StopPart(p) ==
    /\ \E s \in {"stop http", "stop ws", "stop machine"} : IsNext(p, s)
    /\ Advance(p)
    /\ UNCHANGED <<service, phase, reg, tries, server, registry, lingering>>

\* grpcServer.GracefulStop, in a goroutine: no new calls are taken.
GracefulStop(p) ==
    /\ IsNext(p, "stop grpc") /\ server[p] = "serving"
    /\ server' = [server EXCEPT ![p] = "draining"]
    /\ UNCHANGED <<service, phase, reg, tries, todo, registry, lingering>>

\* It returns when the calls being served are over.
Drained(p, busy) ==
    /\ IsNext(p, "stop grpc") /\ server[p] = "draining" /\ ~busy
    /\ server' = [server EXCEPT ![p] = "closed"]
    /\ Advance(p)
    /\ UNCHANGED <<service, phase, reg, tries, registry, lingering>>

BugForceStop(p, busy) == Drained(p, busy)

\* Or main's timer (5 s, for GS 30 s) comes first: grpcServer.Stop.  The
\* calls being served, busy or not, have their contexts cancelled.
ForceStop(p, busy) ==
    /\ IsNext(p, "stop grpc") /\ server[p] = "draining"
    /\ server' = [server EXCEPT ![p] = "closed"]
    /\ Advance(p)
    /\ UNCHANGED <<service, phase, reg, tries, registry, lingering>>

\* main returns.
Exit(p) ==
    /\ phase[p] = "main" /\ todo[p] = <<>>
    /\ End(p, "exited")
    /\ UNCHANGED <<service, registry, lingering>>

\* It dies: a panic, a signal that cannot be caught, a server that cannot listen
\* or serve.
Crash(p) ==
    /\ "crash" \in Faults /\ phase[p] = "main"
    /\ End(p, "killed")
    /\ UNCHANGED <<service, registry, lingering>>

\* Nacos removes an ephemeral address that sends no heartbeat any more.
Expire(p) ==
    /\ p \in registry /\ p \in Gone
    /\ registry' = registry \ {p} /\ lingering' = lingering \ {p}
    /\ UNCHANGED <<service, phase, reg, tries, todo, server>>
=============================================================================
