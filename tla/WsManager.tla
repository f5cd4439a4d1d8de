------------------------------ MODULE WsManager ------------------------------
(***************************************************************************)
(* The gateway's connection manager: the Run loop that owns the map of     *)
(* clients, the HTTP handler and the two pumps of every WebSocket          *)
(* connection, Broadcast, SendToUser (called by the game services and by   *)
(* the read pump for its own replies), and Shutdown.                       *)
(*                                                                         *)
(* Messages are counted, not told apart; only the adapters look at the     *)
(* type of an event.  `register` and `unregister` are unbuffered channels: *)
(* a goroutine blocked on one is in state "registering" or "unregistering" *)
(* until the Run loop takes it.                                            *)
(*                                                                         *)
(* Definitions whose name starts with Bug are faulty variants of the       *)
(* definition that follows them; no specification uses them.               *)
(***************************************************************************)
EXTENDS Naturals, FiniteSets

CONSTANTS Users,
          Conns,        \* WebSocket connections accepted in one behaviour
          NoConn,
          Services,     \* goroutines of GMS and GS that call SendToUser
          MaxSends,     \* bound: SendToUser calls of the services
          MaxBroadcasts,\* bound: Broadcast calls
          BufCap        \* capacity of Connection.Send (1024)

ASSUME WsNames == NoConn \notin Conns /\ Conns \cap Services = {}
ASSUME WsBounds == BufCap \in Nat \ {0} /\ MaxSends \in Nat /\ MaxBroadcasts \in Nat

Callers == Conns \cup Services      \* the goroutines that call SendToUser

VARIABLES
    owner,      \* owner[c]: the user whose token opened connection c
    pc,         \* pc[c]: the handler and then the read pump of c
    writer,     \* writer[c]: the write pump of c
    sock,       \* sock[c]: the server's end of c; closed once (closeOnce)
    peer,       \* peer[c]: the client's end is still there
    clients,    \* Manager.clients
    buf,        \* buf[c]: messages in c.Send
    call,       \* call[p]: p's SendToUser call: where it is and for which client
    sends, broadcasts,  \* how often they were called (bounded)
    newest      \* history: the connection Run registered last, per user

connVars  == <<owner, pc, writer, sock, peer>>
countVars == <<sends, broadcasts>>
vars == <<connVars, clients, buf, call, countVars, newest>>

Pcs == {"none", "registering", "ready", "read", "reply", "unregistering", "leaving", "exit"}

NoCall == [at |-> "idle", to |-> NoConn]

Init ==
    /\ owner \in [Conns -> Users]
    /\ pc = [c \in Conns |-> "none"]
    /\ writer = [c \in Conns |-> "none"]
    /\ sock = [c \in Conns |-> "none"]
    /\ peer = [c \in Conns |-> FALSE]
    /\ clients = [u \in Users |-> NoConn]
    /\ buf = [c \in Conns |-> 0]
    /\ call = [p \in Callers |-> NoCall]
    /\ sends = 0 /\ broadcasts = 0
    /\ newest = [u \in Users |-> NoConn]

\* CloseWithReason on the connections in C: effective once for each.
Close(C) == sock' = [c \in Conns |-> IF c \in C THEN "closed" ELSE sock[c]]

To(c, next) == pc' = [pc EXCEPT ![c] = next]

----------------------------------------------------------------------------
\* HandleWebSocket and the Run loop.

\* The token is valid and the connection upgraded; Register blocks on its channel.
Connect(c) ==
    /\ pc[c] = "none"
    /\ To(c, "registering")
    /\ sock' = [sock EXCEPT ![c] = "open"]
    /\ peer' = [peer EXCEPT ![c] = TRUE]
    /\ UNCHANGED <<owner, writer, clients, buf, call, countVars, newest>>

\* Run takes c from register: it replaces, and closes, the user's old connection.
RunRegister(c) ==
    /\ pc[c] = "registering"
    /\ To(c, "ready")
    /\ Close({clients[owner[c]]})
    /\ clients' = [clients EXCEPT ![owner[c]] = c]
    /\ newest' = [newest EXCEPT ![owner[c]] = c]
    /\ UNCHANGED <<owner, writer, peer, buf, call, countVars>>

\* The handler starts both pumps.
StartPumps(c) ==
    /\ pc[c] = "ready"
    /\ To(c, "read")
    /\ writer' = [writer EXCEPT ![c] = "run"]
    /\ UNCHANGED <<owner, sock, peer, clients, buf, call, countVars, newest>>

BugRunUnregister(c) ==
    /\ pc[c] = "unregistering"
    /\ To(c, "leaving")
    /\ IF sock[c] = "open" /\ clients[owner[c]] # NoConn
       THEN clients' = [clients EXCEPT ![owner[c]] = NoConn] /\ Close({c})
       ELSE UNCHANGED <<clients, sock>>
    /\ UNCHANGED <<owner, writer, peer, buf, call, countVars, newest>>

\* Run takes c from unregister: the user's entry is deleted, whichever
\* connection it holds, and c is closed.
RunUnregister(c) ==
    /\ pc[c] = "unregistering"
    /\ To(c, "leaving")
    /\ IF clients[owner[c]] # NoConn
       THEN clients' = [clients EXCEPT ![owner[c]] = NoConn] /\ Close({c})
       ELSE UNCHANGED <<clients, sock>>
    /\ UNCHANGED <<owner, writer, peer, buf, call, countVars, newest>>

----------------------------------------------------------------------------
\* The pumps.

\* The client goes away, or falls silent past the read deadline.
PeerGone(c) ==
    /\ peer[c]
    /\ peer' = [peer EXCEPT ![c] = FALSE]
    /\ UNCHANGED <<owner, pc, writer, sock, clients, buf, call, countVars, newest>>

Broken(c) == sock[c] = "closed" \/ ~peer[c]

\* ReadPump reads a message and handles it; the reply will go to SendToUser.
ReadMessage(c) ==
    /\ pc[c] = "read" /\ ~Broken(c)
    /\ To(c, "reply")
    /\ UNCHANGED <<owner, writer, sock, peer, clients, buf, call, countVars, newest>>

\* ReadMessage returns an error: the deferred function blocks on unregister.
ReadError(c) ==
    /\ pc[c] = "read" /\ Broken(c)
    /\ To(c, "unregistering")
    /\ UNCHANGED <<owner, writer, sock, peer, clients, buf, call, countVars, newest>>

\* ... and, once Run has taken it, closes the connection and ends.
Leave(c) ==
    /\ pc[c] = "leaving"
    /\ To(c, "exit")
    /\ Close({c})
    /\ UNCHANGED <<owner, writer, peer, clients, buf, call, countVars, newest>>

\* WritePump sends one message to the client.
WriteMessage(c) ==
    /\ writer[c] = "run" /\ buf[c] > 0 /\ ~Broken(c)
    /\ buf' = [buf EXCEPT ![c] = @ - 1]
    /\ UNCHANGED <<connVars, clients, call, countVars, newest>>

BugWriteError(c) ==
    /\ writer[c] = "run" /\ buf[c] > 0
    /\ buf' = [buf EXCEPT ![c] = @ - 1]
    /\ writer' = [writer EXCEPT ![c] = "exit"]
    /\ Close({c})
    /\ UNCHANGED <<owner, pc, peer, clients, call, countVars, newest>>

\* A message (write error or write deadline) or a ping cannot be written: the
\* message is lost, the connection is closed and the pump ends.
WriteError(c) ==
    /\ writer[c] = "run"
    /\ \/ buf[c] > 0 /\ buf' = [buf EXCEPT ![c] = @ - 1]
       \/ Broken(c) /\ UNCHANGED buf
    /\ writer' = [writer EXCEPT ![c] = "exit"]
    /\ Close({c})
    /\ UNCHANGED <<owner, pc, peer, clients, call, countVars, newest>>

----------------------------------------------------------------------------
\* Sending.

Registered == {clients[u] : u \in Users} \ {NoConn}

\* The message that the clients get for an event of the game: the adapter of the
\* monolith knows two types of events and ignores the others ...
convertEvent(e) == {e} \cap {"ColorGameRoundStateBRC", "ColorGameSettlementBRC"}

\* ... and so does that of the gateway process, whose callers may also send none.
convertAny(e) == IF e = "nil" THEN {} ELSE convertEvent(e)

Events == {"ColorGameRoundStateBRC", "ColorGameSettlementBRC", "other"}

\* Broadcast, under the read lock: a client whose buffer is full is closed.
Broadcast ==
    /\ buf' = [c \in Conns |-> IF c \in Registered /\ buf[c] < BufCap THEN buf[c] + 1 ELSE buf[c]]
    /\ Close({c \in Registered : buf[c] = BufCap})

Forward(msgs) ==
    /\ broadcasts < MaxBroadcasts
    /\ broadcasts' = broadcasts + 1
    /\ IF msgs = {} THEN UNCHANGED <<buf, sock>> ELSE Broadcast
    /\ UNCHANGED <<owner, pc, writer, peer, clients, call, sends, newest>>

\* The Broadcast of the two adapters.
LocalBroadcast == \E e \in Events : Forward(convertEvent(e))
GrpcBroadcast == \E e \in Events \cup {"nil"} : Forward(convertAny(e))

\* TestBroadcast of the ops centre: a state of a round, sent like those of GMS.
TestBroadcast == Forward(convertAny("ColorGameRoundStateBRC"))

\* The call of p is over; a read pump goes back to reading.
Return(p) ==
    /\ call' = [call EXCEPT ![p] = NoCall]
    /\ pc' = IF p \in Conns THEN [pc EXCEPT ![p] = "read"] ELSE pc

\* SendToUser looks its client up under the read lock, then uses it without.
LookUp(p, u) ==
    /\ IF clients[u] = NoConn
       THEN Return(p)
       ELSE call' = [call EXCEPT ![p] = [at |-> "try", to |-> clients[u]]] /\ UNCHANGED pc
    /\ UNCHANGED <<owner, writer, sock, peer, clients, buf, broadcasts, newest>>

\* A read pump replies to its user.
Reply(c) ==
    /\ pc[c] = "reply" /\ call[c].at = "idle"
    /\ LookUp(c, owner[c])
    /\ UNCHANGED sends

\* A game service notifies a user, through one of the two adapters.
ServiceSend(s, msgs) ==
    /\ call[s].at = "idle" /\ sends < MaxSends
    /\ sends' = sends + 1
    /\ IF msgs = {} THEN UNCHANGED <<connVars, clients, buf, call, broadcasts, newest>>
       ELSE \E u \in Users : LookUp(s, u)

LocalSend(s) == \E e \in Events : ServiceSend(s, convertEvent(e))
GrpcSend(s) == \E e \in Events \cup {"nil"} : ServiceSend(s, convertAny(e))

\* The first, non-blocking attempt.
TrySend(p) ==
    /\ call[p].at = "try"
    /\ LET c == call[p].to
       IN  IF buf[c] < BufCap
           THEN buf' = [buf EXCEPT ![c] = @ + 1] /\ Return(p)
           ELSE call' = [call EXCEPT ![p] = [at |-> "wait", to |-> c]] /\ UNCHANGED <<buf, pc>>
    /\ UNCHANGED <<owner, writer, sock, peer, clients, countVars, newest>>

BugWaitSend(p) ==
    /\ call[p].at = "wait" /\ buf[call[p].to] < BufCap
    /\ buf' = [buf EXCEPT ![call[p].to] = @ + 1] /\ Return(p) /\ UNCHANGED sock
    /\ UNCHANGED <<owner, writer, peer, clients, countVars, newest>>

\* The blocking attempt: room in the buffer, or five seconds and the client is
\* closed.
WaitSend(p) ==
    /\ call[p].at = "wait"
    /\ \/ /\ buf[call[p].to] < BufCap
          /\ buf' = [buf EXCEPT ![call[p].to] = @ + 1]
          /\ UNCHANGED sock
       \/ Close({call[p].to}) /\ UNCHANGED buf
    /\ Return(p)
    /\ UNCHANGED <<owner, writer, peer, clients, countVars, newest>>

\* Shutdown closes every registered connection.
Shutdown ==
    /\ \E c \in Registered : sock[c] = "open"
    /\ Close(Registered)
    /\ UNCHANGED <<owner, pc, writer, peer, clients, buf, call, countVars, newest>>

----------------------------------------------------------------------------
SendStep(p) == TrySend(p) \/ WaitSend(p)

ReadPump(c) == ReadMessage(c) \/ ReadError(c) \/ Reply(c) \/ Leave(c)

WritePump(c) == WriteMessage(c) \/ WriteError(c)

ConnNext(c) == \/ Connect(c) \/ RunRegister(c) \/ StartPumps(c) \/ PeerGone(c)
               \/ ReadPump(c) \/ RunUnregister(c) \/ WritePump(c)

Next == \/ \E c \in Conns : ConnNext(c)
        \/ \E p \in Callers : SendStep(p)
        \/ \E s \in Services : LocalSend(s) \/ GrpcSend(s)
        \/ LocalBroadcast \/ GrpcBroadcast \/ TestBroadcast \/ Shutdown

\* The Run loop serves both channels, accepted connections get their pumps,
\* reads on a broken connection fail, write deadlines, pings and the five-second
\* wait expire. Nobody is obliged to connect, to read messages or to send.
Fairness ==
    /\ \A c \in Conns : /\ WF_vars(RunRegister(c)) /\ WF_vars(StartPumps(c))
                        /\ WF_vars(RunUnregister(c))
                        /\ WF_vars(ReadError(c) \/ Reply(c) \/ Leave(c))
                        /\ WF_vars(WritePump(c))
    /\ \A p \in Callers : WF_vars(SendStep(p))

Spec == Init /\ [][Next]_vars

FairSpec == Spec /\ Fairness

----------------------------------------------------------------------------
\* Properties.

\* Every variable stays in its domain; no Send buffer exceeds its capacity.
TypeOK ==
    /\ owner \in [Conns -> Users]
    /\ pc \in [Conns -> Pcs]
    /\ writer \in [Conns -> {"none", "run", "exit"}]
    /\ sock \in [Conns -> {"none", "open", "closed"}]
    /\ peer \in [Conns -> BOOLEAN]
    /\ clients \in [Users -> Conns \cup {NoConn}]
    /\ buf \in [Conns -> 0 .. BufCap]
    /\ call \in [Callers -> [at : {"idle", "try", "wait"}, to : Conns \cup {NoConn}]]
    /\ sends \in 0 .. MaxSends /\ broadcasts \in 0 .. MaxBroadcasts
    /\ newest \in [Users -> Conns \cup {NoConn}]

\* The map holds, for a user, one of the user's own connections, and one whose
\* read pump has still to pass through unregister: a connection that has left
\* is never in the map, so no message is queued for it by name.
EntriesAlive ==
    \A u \in Users : clients[u] # NoConn =>
        /\ owner[clients[u]] = u
        /\ pc[clients[u]] \in {"ready", "read", "reply", "unregistering"}

\* A connection the server closes (replaced, buffer full, timed out, shut down)
\* disappears from the map: "the unregister channel will handle cleanup
\* eventually".
ClosedLeavesMap ==
    \A c \in Conns : sock[c] = "closed" ~> clients[owner[c]] # c

\* Both pumps of a closed connection end, even when the read pump is blocked on
\* a reply to a full buffer that nobody drains any more.
PumpsEnd ==
    \A c \in Conns : sock[c] = "closed" ~> pc[c] = "exit" /\ writer[c] = "exit"

\* "Reconnection safe": the connection a user opened last receives the user's
\* messages as long as it is up.
NewestReachable ==
    \A u \in Users : LET c == newest[u]
                     IN  c # NoConn /\ pc[c] \in {"read", "reply"} /\ ~Broken(c) => clients[u] = c
=============================================================================
