--------------------------- MODULE WsManagerProofs ---------------------------
(***************************************************************************)
(* Proofs about WsManager, for any number of users, connections, calling   *)
(* goroutines and messages and any buffer size.                            *)
(***************************************************************************)
EXTENDS WsManager, TLAPS

\* The end of a SendToUser call.
LEMMA ReturnType ==
    ASSUME TypeOK, NEW p \in Callers, Return(p)
    PROVE  /\ pc' \in [Conns -> Pcs]
           /\ call' \in [Callers -> [at : {"idle", "try", "wait"}, to : Conns \cup {NoConn}]]
<1>1. NoCall \in [at : {"idle", "try", "wait"}, to : Conns \cup {NoConn}]
  BY DEF NoCall
<1> QED
  BY <1>1 DEF TypeOK, Return, Pcs

\* CloseWithReason.
LEMMA CloseType ==
    ASSUME TypeOK, NEW C, Close(C)
    PROVE  sock' \in [Conns -> {"none", "open", "closed"}]
BY DEF TypeOK, Close

\* The look-up that starts a SendToUser call.
LEMMA LookUpType ==
    ASSUME TypeOK, NEW p \in Callers, NEW u \in Users, LookUp(p, u)
    PROVE  /\ pc' \in [Conns -> Pcs]
           /\ call' \in [Callers -> [at : {"idle", "try", "wait"}, to : Conns \cup {NoConn}]]
           /\ UNCHANGED <<owner, writer, sock, peer, clients, buf, broadcasts, newest>>
<1>1. CASE clients[u] = NoConn
  BY <1>1, ReturnType DEF LookUp
<1>2. CASE clients[u] # NoConn
  <2>1. clients[u] \in Conns
    BY <1>2 DEF TypeOK
  <2> QED
    BY <1>2, <2>1 DEF TypeOK, LookUp
<1> QED
  BY <1>1, <1>2

\* Every step keeps every variable in its domain.
LEMMA TypeStep ==
    ASSUME TypeOK, [Next]_vars
    PROVE  TypeOK'
<1>1. ASSUME NEW c \in Conns, ConnNext(c) PROVE TypeOK'
  <2> USE DEF TypeOK, To, Pcs
  <2>1. CASE Connect(c)
    BY <2>1 DEF Connect, countVars
  <2>2. CASE RunRegister(c)
    BY <2>2, CloseType DEF RunRegister, countVars
  <2>3. CASE StartPumps(c)
    BY <2>3 DEF StartPumps, countVars
  <2>4. CASE PeerGone(c)
    BY <2>4 DEF PeerGone, countVars
  <2>5. CASE ReadMessage(c)
    BY <2>5 DEF ReadMessage, countVars
  <2>6. CASE ReadError(c)
    BY <2>6 DEF ReadError, countVars
  <2>7. CASE Reply(c)
    BY <2>7, LookUpType DEF Reply, Callers
  <2>8. CASE Leave(c)
    BY <2>8, CloseType DEF Leave, countVars
  <2>9. CASE RunUnregister(c)
    BY <2>9, CloseType DEF RunUnregister, countVars
  <2>10. CASE WriteMessage(c)
    BY <2>10, WsBounds DEF WriteMessage, connVars, countVars
  <2>11. CASE WriteError(c)
    <3>1. buf' \in [Conns -> 0 .. BufCap]
      BY <2>11, WsBounds DEF WriteError
    <3> QED
      BY <2>11, <3>1, CloseType DEF WriteError, countVars
  <2> QED
    BY <1>1, <2>1, <2>2, <2>3, <2>4, <2>5, <2>6, <2>7, <2>8, <2>9, <2>10, <2>11
       DEF ConnNext, ReadPump, WritePump
<1>2. ASSUME NEW p \in Callers, TrySend(p) PROVE TypeOK'
  <2> DEFINE c == call[p].to
  <2>1. c \in Conns \cup {NoConn}
    BY DEF TypeOK
  <2>2. CASE buf[c] < BufCap
    <3>1. buf' = [buf EXCEPT ![c] = @ + 1] /\ Return(p)
      BY <1>2, <2>2 DEF TrySend
    <3>2. buf' \in [Conns -> 0 .. BufCap]
      <4>1. CASE c \in Conns
        <5>1. buf[c] + 1 \in 0 .. BufCap
          BY <2>2, <4>1, WsBounds DEF TypeOK
        <5> QED
          BY <3>1, <4>1, <5>1 DEF TypeOK
      <4>2. CASE c \notin Conns
        BY <3>1, <4>2 DEF TypeOK
      <4> QED
        BY <4>1, <4>2
    <3> QED
      BY <1>2, <3>1, <3>2, ReturnType DEF TrySend, TypeOK, countVars
  <2>3. CASE ~(buf[c] < BufCap)
    <3>1. call' = [call EXCEPT ![p] = [at |-> "wait", to |-> c]] /\ UNCHANGED <<buf, pc>>
      BY <1>2, <2>3 DEF TrySend
    <3>2. [at |-> "wait", to |-> c] \in [at : {"idle", "try", "wait"}, to : Conns \cup {NoConn}]
      BY <2>1
    <3> QED
      BY <1>2, <3>1, <3>2 DEF TrySend, TypeOK, countVars
  <2> QED
    BY <2>2, <2>3
<1>3. ASSUME NEW p \in Callers, WaitSend(p) PROVE TypeOK'
  <2>1. buf' \in [Conns -> 0 .. BufCap]
    BY <1>3, WsBounds DEF WaitSend, TypeOK
  <2>2. sock' \in [Conns -> {"none", "open", "closed"}]
    BY <1>3, CloseType DEF WaitSend, TypeOK
  <2> QED
    BY <1>3, <2>1, <2>2, ReturnType DEF WaitSend, TypeOK, countVars
<1>4. ASSUME NEW s \in Services, NEW msgs, ServiceSend(s, msgs) PROVE TypeOK'
  <2>1. sends' \in 0 .. MaxSends
    BY <1>4, WsBounds DEF ServiceSend, TypeOK
  <2>2. CASE msgs = {}
    BY <1>4, <2>1, <2>2 DEF ServiceSend, TypeOK, connVars
  <2>3. CASE msgs # {}
    <3>1. s \in Callers
      BY DEF Callers
    <3>2. PICK u \in Users : LookUp(s, u)
      BY <1>4, <2>3 DEF ServiceSend
    <3> QED
      BY <2>1, <3>1, <3>2, LookUpType DEF TypeOK
  <2> QED
    BY <2>2, <2>3
<1>5. ASSUME NEW msgs, Forward(msgs) PROVE TypeOK'
  <2>1. buf' \in [Conns -> 0 .. BufCap] /\ broadcasts' \in 0 .. MaxBroadcasts
    BY <1>5, WsBounds DEF Forward, Broadcast, TypeOK
  <2>2. sock' \in [Conns -> {"none", "open", "closed"}]
    BY <1>5, CloseType DEF Forward, Broadcast, TypeOK
  <2> QED
    BY <1>5, <2>1, <2>2 DEF Forward, TypeOK
<1>6. CASE Shutdown
  BY <1>6, CloseType DEF Shutdown, TypeOK, countVars
<1>7. CASE UNCHANGED vars
  BY <1>7 DEF vars, TypeOK, connVars, countVars
<1> QED
  BY <1>1, <1>2, <1>3, <1>4, <1>5, <1>6, <1>7
     DEF Next, SendStep, LocalSend, GrpcSend, LocalBroadcast, GrpcBroadcast, TestBroadcast

\* Type correctness: whatever Broadcast, SendToUser and the pumps do at the same
\* time, no Send buffer holds more than its capacity.
THEOREM TypeCorrect == Spec => []TypeOK
<1>1. Init => TypeOK
  BY WsBounds DEF Init, TypeOK, Pcs, NoCall
<1>2. TypeOK /\ [Next]_vars => TypeOK'
  BY TypeStep
<1> QED
  BY <1>1, <1>2, PTL DEF Spec

\* A connection gets into the map by RunRegister and leaves it no later than its
\* own RunUnregister, which deletes the user's entry whatever it holds.
LEMMA EntriesAliveStep ==
    ASSUME TypeOK, EntriesAlive, [Next]_vars
    PROVE  EntriesAlive'
<1> USE DEF TypeOK, EntriesAlive, To
<1>1. ASSUME NEW c \in Conns, ConnNext(c) PROVE EntriesAlive'
  <2>1. CASE Connect(c)
    BY <2>1 DEF Connect
  <2>2. CASE RunRegister(c)
    BY <2>2 DEF RunRegister
  <2>3. CASE StartPumps(c)
    BY <2>3 DEF StartPumps
  <2>4. CASE PeerGone(c)
    BY <2>4 DEF PeerGone
  <2>5. CASE ReadMessage(c)
    BY <2>5 DEF ReadMessage
  <2>6. CASE ReadError(c)
    BY <2>6 DEF ReadError
  <2>7. CASE Reply(c)
    BY <2>7 DEF Reply, LookUp, Return
  <2>8. CASE Leave(c)
    BY <2>8 DEF Leave
  <2>9. CASE RunUnregister(c)
    BY <2>9 DEF RunUnregister
  <2>10. CASE WriteMessage(c) \/ WriteError(c)
    BY <2>10 DEF WriteMessage, WriteError, connVars
  <2> QED
    BY <1>1, <2>1, <2>2, <2>3, <2>4, <2>5, <2>6, <2>7, <2>8, <2>9, <2>10
       DEF ConnNext, ReadPump, WritePump
<1>2. ASSUME NEW p \in Callers, TrySend(p) \/ WaitSend(p) PROVE EntriesAlive'
  <2>1. UNCHANGED <<owner, clients>> /\ (UNCHANGED pc \/ Return(p))
    BY <1>2 DEF TrySend, WaitSend
  <2> QED
    BY <2>1 DEF Return
<1>3. ASSUME NEW s \in Services, NEW msgs, ServiceSend(s, msgs) PROVE EntriesAlive'
  <2>1. UNCHANGED <<owner, clients>> /\ (UNCHANGED pc \/ Return(s))
    BY <1>3 DEF ServiceSend, LookUp, connVars
  <2> QED
    BY <2>1 DEF Return
<1>4. ASSUME NEW msgs, Forward(msgs) PROVE EntriesAlive'
  BY <1>4 DEF Forward
<1>5. CASE Shutdown \/ UNCHANGED vars
  BY <1>5 DEF Shutdown, vars, connVars
<1> QED
  BY <1>1, <1>2, <1>3, <1>4, <1>5
     DEF Next, SendStep, LocalSend, GrpcSend, LocalBroadcast, GrpcBroadcast, TestBroadcast

\* For any number of users and reconnections, the map never holds a connection
\* of somebody else or one whose pumps have left.
THEOREM EntriesAlwaysAlive == Spec => []EntriesAlive
<1>1. Init => EntriesAlive
  BY DEF Init, EntriesAlive
<1>2. TypeOK /\ EntriesAlive /\ [Next]_vars => EntriesAlive'
  BY EntriesAliveStep
<1> QED
  BY <1>1, <1>2, TypeCorrect, PTL DEF Spec
=============================================================================
