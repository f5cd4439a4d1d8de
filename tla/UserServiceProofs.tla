-------------------------- MODULE UserServiceProofs --------------------------
(***************************************************************************)
(* Proofs about UserService: registrations and sessions, for any number of *)
(* concurrent requests, names, tokens and durations, and any failures.     *)
(***************************************************************************)
EXTENDS UserService, FiniteSetTheorems, TLAPS

Ops == {"none", "register", "login", "logout", "refresh", "validate"}

Pcs == {"idle", "done", "username", "email", "create", "user", "session", "last login",
        "delete", "get", "expired", "owner", "update"}

Answers == {"none", "ok", "error", "400", "401", "429", "500", "username exists"}

Tokens == [uid : Nat, exp : Nat]

CallRecords == [op : Ops, pc : Pcs, name : Names \cup {NoName}, email : Emails \cup {NoEmail},
                pass : BOOLEAN, sid : SessionIds \cup {NoSid}, uid : Nat, token : Tokens,
                expires : Nat, answer : Answers]

SessionRows == [sid : SessionIds, uid : Nat, token : Tokens, expires : Nat]

TypeOK ==
    /\ now \in Nat
    /\ users \subseteq UserRows /\ IsFiniteSet(users)
    /\ sessions \subseteq SessionRows
    /\ drawn \subseteq SessionIds
    /\ bucket \in [Limited -> Nat]
    /\ calls \in [Calls -> CallRecords]

\* A request that has its answer has ended; a registration asks for a name and an
\* address; from "session" on a login has the refresh token it has drawn.
CallsWellFormed ==
    \A c \in Calls :
        /\ calls[c].answer # "none" => calls[c].pc = "done"
        /\ calls[c].op = "none" => calls[c].pc = "idle"
        /\ calls[c].op = "register" => calls[c].name \in Names /\ calls[c].email \in Emails
        /\ calls[c].op = "refresh" => calls[c].sid \in SessionIds
        /\ calls[c].pc \in {"session", "last login"} => calls[c].sid \in drawn

\* Login c has created its session.
Created(c) == calls[c].op = "login" /\ (calls[c].pc = "last login" \/ calls[c].answer = "ok")

\* Refresh tokens belong to one login each.
TokensUnique ==
    /\ \A c \in Calls : calls[c].op = "login" => calls[c].sid \in drawn \cup {NoSid}
    /\ \A c, d \in Calls :
         calls[c].op = "login" /\ calls[d].op = "login" /\ calls[c].sid = calls[d].sid =>
             c = d \/ calls[c].sid = NoSid
    /\ \A c \in Calls : Created(c) => calls[c].sid \in drawn

\* A login has created the session s, which expires at e.
CreatedFor(s, e) == \E c \in Calls : Created(c) /\ calls[c].sid = s /\ calls[c].expires = e

\* The expiry of a row never changes: a row, and what a RefreshToken has read of
\* it, have the expiry the login gave it.
ExpiryFixed ==
    /\ \A r \in sessions : CreatedFor(r.sid, r.expires)
    /\ \A c \in Calls : calls[c].op = "refresh" /\ calls[c].pc \in {"expired", "owner", "update"} =>
         CreatedFor(calls[c].sid, calls[c].expires)
    /\ \A c \in Calls : calls[c].op = "refresh" /\ calls[c].pc = "expired" =>
         calls[c].expires <= now

RequestInv == CallsWellFormed /\ TokensUnique /\ ExpiryFixed /\ RegisteredOnce

UserInv == TypeOK /\ RequestInv

-----------------------------------------------------------------------------
(* Type correctness.                                                       *)

\* The record of a request that has not arrived.
LEMMA NoCallType == NoCall \in CallRecords
BY DEF NoCall, NoToken, CallRecords, Tokens, Ops, Pcs, Answers

\* generateToken makes a token of the user that expires TokenDuration from now.
LEMMA TokenType ==
    ASSUME TypeOK, NEW i \in Nat
    PROVE  generateToken(i) \in Tokens
<1>1. TokenDuration \in Nat
  BY ConstantsOK
<1> QED
  BY <1>1 DEF TypeOK, generateToken, Tokens

\* What the statements of a request change in its record.
LEMMA CallUpdates ==
    ASSUME NEW k \in CallRecords, NEW l \in Pcs
    PROVE  /\ [k EXCEPT !.pc = l] \in CallRecords
           /\ \A a \in Answers : [k EXCEPT !.pc = l, !.answer = a] \in CallRecords
           /\ \A o \in Ops : [k EXCEPT !.op = o, !.pc = l] \in CallRecords
           /\ \A o \in Ops, a \in Answers :
                [k EXCEPT !.op = o, !.pc = l, !.answer = a] \in CallRecords
           /\ \A i, x \in Nat : [k EXCEPT !.pc = l, !.uid = i, !.expires = x] \in CallRecords
           /\ \A t \in Tokens : [k EXCEPT !.pc = l, !.token = t] \in CallRecords
           /\ \A i, x \in Nat, s \in SessionIds, t \in Tokens :
                [k EXCEPT !.pc = l, !.uid = i, !.sid = s, !.token = t, !.expires = x] \in CallRecords
           /\ \A o \in Ops, t \in Tokens : [k EXCEPT !.op = o, !.pc = l, !.token = t] \in CallRecords
           /\ \A o \in Ops, s \in SessionIds : [k EXCEPT !.op = o, !.pc = l, !.sid = s] \in CallRecords
           /\ \A o \in Ops, t \in Tokens, i \in Nat, a \in Answers :
                [k EXCEPT !.op = o, !.pc = l, !.token = t, !.uid = i, !.answer = a] \in CallRecords
BY DEF CallRecords

\* The places, answers and operations the actions of the requests name.
LEMMA Labels ==
    /\ {"done", "username", "email", "create", "user", "session", "last login", "delete", "get",
        "expired", "owner", "update"} \subseteq Pcs
    /\ {"ok", "error", "400", "401", "429", "500", "username exists"} \subseteq Answers
    /\ {"register", "login", "logout", "refresh", "validate"} \subseteq Ops
    /\ Limited = {"register", "login"}
BY DEF Pcs, Answers, Ops, Limited

\* The end of a request, and a step to its next statement.
LEMMA AnswerType ==
    ASSUME TypeOK, NEW c \in Calls, NEW a \in Answers, Answer(c, a)
    PROVE  calls' \in [Calls -> CallRecords]
<1>1. calls' = [calls EXCEPT ![c] = [calls[c] EXCEPT !.pc = "done", !.answer = a]]
  BY DEF TypeOK, Answer
<1>2. [calls[c] EXCEPT !.pc = "done", !.answer = a] \in CallRecords
  BY CallUpdates, Labels DEF TypeOK
<1> QED
  BY <1>1, <1>2 DEF TypeOK

\* A request that goes on to its next statement keeps its type.
LEMMA GotoType ==
    ASSUME TypeOK, NEW c \in Calls, NEW l \in Pcs, Goto(c, l)
    PROVE  calls' \in [Calls -> CallRecords]
BY DEF TypeOK, Goto, CallRecords

\* The rate limiter.
LEMMA AllowType ==
    ASSUME TypeOK, NEW c \in Calls, NEW op \in Limited, NEW call \in CallRecords,
           NEW first \in Pcs, Allow(c, op, call, first)
    PROVE  calls' \in [Calls -> CallRecords] /\ bucket' \in [Limited -> Nat]
<1>1. /\ [call EXCEPT !.op = op, !.pc = first] \in CallRecords
      /\ [call EXCEPT !.op = op, !.pc = "done", !.answer = "429"] \in CallRecords
  BY CallUpdates, Labels
<1>2. bucket' \in [Limited -> Nat]
  BY DEF TypeOK, Allow
<1>3. calls' \in [Calls -> CallRecords]
  BY <1>1 DEF TypeOK, Allow
<1> QED
  BY <1>2, <1>3

\* Whoever asks, the verdict on a token is that it is accepted, for its user, or not.
LEMMA VerdictOfToken ==
    ASSUME TypeOK, NEW t
    PROVE  /\ t \in Handed \cup {NoToken} => t \in Tokens
           /\ LocalValidate(t) \subseteq {Accepted(t), Rejected}
           /\ ClientValidate(t) \subseteq {Accepted(t), Rejected}
<1>1. t \in Handed \cup {NoToken} => t \in Tokens
  BY DEF TypeOK, Handed, NoToken, CallRecords, Tokens
<1>2. LocalValidate(t) \subseteq {Accepted(t), Rejected}
  BY DEF LocalValidate
<1>3. [Accepted(t) EXCEPT !.uid = t.uid] = Accepted(t)
  BY DEF Accepted
<1>4. ClientValidate(t) \subseteq {Accepted(t), Rejected}
  BY <1>3 DEF ClientValidate, ValidateTokenRsp
<1> QED
  BY <1>1, <1>2, <1>4

\* Every statement of a request keeps every variable in its domain.
LEMMA HandlerType ==
    ASSUME TypeOK, CallsWellFormed, NEW c \in Calls, Handler(c)
    PROVE  TypeOK'
<1> USE DEF TypeOK
<1>0. Answers = {"none", "ok", "error", "400", "401", "429", "500", "username exists"}
  BY DEF Answers
<1>1. CASE Register(c)
  <2>1. PICK n \in Names, e \in Emails :
          Allow(c, "register", [NoCall EXCEPT !.name = n, !.email = e], "username")
    BY <1>1 DEF Register
  <2>2. [NoCall EXCEPT !.name = n, !.email = e] \in CallRecords
    BY NoCallType DEF CallRecords
  <2> QED
    BY <1>1, <2>1, <2>2, AllowType DEF Register, Limited, Pcs
<1>2. CASE BadRequest(c)
  BY <1>0, <1>2, AnswerType DEF BadRequest
<1>3. CASE UsernameExists(c)
  BY <1>0, <1>3, AnswerType, GotoType DEF UsernameExists, Pcs
<1>4. CASE EmailExists(c)
  BY <1>0, <1>4, AnswerType, GotoType DEF EmailExists, Pcs
<1>5. CASE CreateUser(c)
  <2> DEFINE row == [uid |-> Cardinality(users) + 1, name |-> calls[c].name,
                     email |-> calls[c].email, active |-> TRUE]
  <2>1. UNCHANGED <<now, sessions, drawn, bucket>> /\ calls' \in [Calls -> CallRecords]
    BY <1>0, <1>5, AnswerType DEF CreateUser
  <2>2. CASE UNCHANGED users
    BY <2>1, <2>2
  <2>3. CASE users' = users \cup {row}
    <3>1. row \in UserRows
      <4>1. Cardinality(users) + 1 \in Nat
        BY FS_CardinalityType
      <4>2. calls[c].name \in Names /\ calls[c].email \in Emails
        BY <1>5 DEF CreateUser, At, CallsWellFormed
      <4> QED
        BY <4>1, <4>2 DEF UserRows
    <3> QED
      BY <2>1, <2>3, <3>1, FS_AddElement
  <2> QED
    BY <1>5, <2>2, <2>3 DEF CreateUser, InsertUser
<1>6. CASE Login(c)
  <2>1. PICK n \in Names, right \in BOOLEAN :
          Allow(c, "login", [NoCall EXCEPT !.name = n, !.pass = right], "user")
    BY <1>6 DEF Login
  <2>2. [NoCall EXCEPT !.name = n, !.pass = right] \in CallRecords
    BY NoCallType DEF CallRecords
  <2> QED
    BY <1>6, <2>1, <2>2, AllowType DEF Login, Limited, Pcs
<1>7. CASE GetByUsername(c)
  <2>1. UNCHANGED <<now, users, sessions, bucket>>
    BY <1>7 DEF GetByUsername
  <2>2. CASE Answer(c, "401") /\ UNCHANGED drawn
    BY <1>0, <2>1, <2>2, AnswerType
  <2>3. ASSUME NEW u \in UserByName(calls[c].name), NEW s \in generateRefreshToken,
               drawn' = drawn \cup {s},
               calls' = [calls EXCEPT ![c].pc = "session", ![c].uid = u.uid,
                             ![c].sid = s, ![c].token = generateToken(u.uid),
                             ![c].expires = now + TokenDuration + RefreshDuration]
        PROVE  TypeOK'
    <3>1. u.uid \in Nat /\ s \in SessionIds
      BY <2>3 DEF UserByName, UserRows, generateRefreshToken
    <3>2. generateToken(u.uid) \in Tokens
      BY <3>1, TokenType
    <3>3. now + TokenDuration + RefreshDuration \in Nat
      BY ConstantsOK
    <3>4. calls' = [calls EXCEPT ![c] =
              [calls[c] EXCEPT !.pc = "session", !.uid = u.uid, !.sid = s,
                               !.token = generateToken(u.uid),
                               !.expires = now + TokenDuration + RefreshDuration]]
      BY <2>3
    <3>5. calls' \in [Calls -> CallRecords]
      BY <3>1, <3>2, <3>3, <3>4, CallUpdates, Labels
    <3> QED
      BY <2>1, <2>3, <3>1, <3>5
  <2> QED
    BY <1>7, <2>2, <2>3 DEF GetByUsername
<1>8. CASE CreateSession(c)
  <2> DEFINE row == [sid |-> calls[c].sid, uid |-> calls[c].uid,
                     token |-> calls[c].token, expires |-> calls[c].expires]
  <2>1. row \in SessionRows
    BY <1>8 DEF CreateSession, At, CallsWellFormed, SessionRows, CallRecords
  <2>2. calls' \in [Calls -> CallRecords]
    BY <1>0, <1>8, AnswerType, GotoType DEF CreateSession, Pcs
  <2> QED
    BY <1>8, <2>1, <2>2 DEF CreateSession, InsertSession
<1>9. CASE UpdateLastLogin(c)
  BY <1>0, <1>9, AnswerType DEF UpdateLastLogin
<1>10. CASE Logout(c)
  <2>1. PICK t \in Handed : calls' = [calls EXCEPT ![c] =
                               [NoCall EXCEPT !.op = "logout", !.pc = "delete", !.token = t]]
    BY <1>10 DEF Logout
  <2>2. t \in Tokens
    BY DEF Handed, CallRecords
  <2>3. [NoCall EXCEPT !.op = "logout", !.pc = "delete", !.token = t] \in CallRecords
    BY <2>2, NoCallType DEF CallRecords, Ops, Pcs
  <2> QED
    BY <1>10, <2>1, <2>3 DEF Logout
<1>11. CASE DeleteByToken(c)
  BY <1>0, <1>11, AnswerType DEF DeleteByToken, DeletedByToken
<1>12. CASE RefreshToken(c)
  <2>1. PICK s \in drawn : calls' = [calls EXCEPT ![c] =
                               [NoCall EXCEPT !.op = "refresh", !.pc = "get", !.sid = s]]
    BY <1>12 DEF RefreshToken
  <2>2. [NoCall EXCEPT !.op = "refresh", !.pc = "get", !.sid = s] \in CallRecords
    BY NoCallType DEF CallRecords, Ops, Pcs
  <2> QED
    BY <1>12, <2>1, <2>2 DEF RefreshToken
<1>13. CASE GetBySessionID(c)
  <2>1. CASE Answer(c, "error")
    BY <1>0, <1>13, <2>1, AnswerType DEF GetBySessionID
  <2>2. ASSUME NEW r \in SessionById(calls[c].sid), NEW l \in {"expired", "owner"},
               calls' = [calls EXCEPT ![c].pc = l, ![c].uid = r.uid, ![c].expires = r.expires]
        PROVE  TypeOK'
    <3>1. r.uid \in Nat /\ r.expires \in Nat /\ l \in Pcs
      BY DEF SessionById, SessionRows, Pcs
    <3>2. calls' = [calls EXCEPT ![c] =
              [calls[c] EXCEPT !.pc = l, !.uid = r.uid, !.expires = r.expires]]
      BY <2>2
    <3>3. calls' \in [Calls -> CallRecords]
      BY <3>1, <3>2, CallUpdates
    <3> QED
      BY <1>13, <3>3 DEF GetBySessionID
  <2> QED
    BY <1>13, <2>1, <2>2 DEF GetBySessionID
<1>14. CASE DeleteExpiredSession(c)
  BY <1>0, <1>14, AnswerType DEF DeleteExpiredSession, DeletedById
<1>15. CASE GetByID(c)
  <2>1. CASE Answer(c, "error")
    BY <1>0, <1>15, <2>1, AnswerType DEF GetByID
  <2>2. CASE calls' = [calls EXCEPT ![c].pc = "update", ![c].token = generateToken(calls[c].uid)]
    <3>1. generateToken(calls[c].uid) \in Tokens
      BY TokenType DEF CallRecords
    <3>2. calls' = [calls EXCEPT ![c] =
              [calls[c] EXCEPT !.pc = "update", !.token = generateToken(calls[c].uid)]]
      BY <2>2
    <3>3. calls' \in [Calls -> CallRecords]
      BY <3>1, <3>2, CallUpdates, Labels
    <3> QED
      BY <1>15, <3>3 DEF GetByID
  <2> QED
    BY <1>15, <2>1, <2>2 DEF GetByID
<1>16. CASE UpdateSession(c)
  <2> DEFINE row == [sid |-> calls[c].sid, uid |-> calls[c].uid,
                     token |-> calls[c].token, expires |-> calls[c].expires]
  <2>1. row \in SessionRows
    BY <1>16 DEF UpdateSession, At, CallsWellFormed, SessionRows, CallRecords
  <2>2. calls' \in [Calls -> CallRecords]
    BY <1>0, <1>16, AnswerType DEF UpdateSession
  <2> QED
    BY <1>16, <2>1, <2>2 DEF UpdateSession, UpdatedSession
<1>17. ASSUME NEW t \in Tokens, NEW V \in SUBSET {Accepted(t), Rejected}, Validate(c, t, V)
       PROVE  TypeOK'
  <2>1. PICK v \in V : calls' = [calls EXCEPT ![c] =
              [NoCall EXCEPT !.op = "validate", !.pc = "done",
                             !.token = t, !.uid = v.uid, !.answer = v.answer]]
    BY <1>17 DEF Validate
  <2>2. v.uid \in Nat /\ v.answer \in Answers
    <3>1. CASE v = Accepted(t)
      BY <3>1 DEF Accepted, Tokens, Answers
    <3>2. CASE v = Rejected
      BY <3>2 DEF Rejected, Answers
    <3> QED
      BY <3>1, <3>2
  <2>3. [NoCall EXCEPT !.op = "validate", !.pc = "done", !.token = t, !.uid = v.uid,
                       !.answer = v.answer] \in CallRecords
    BY <2>2, NoCallType DEF CallRecords, Ops, Pcs
  <2> QED
    BY <1>17, <2>1, <2>3 DEF Validate
<1>18. CASE ValidateToken(c) \/ OpsValidateToken(c)
  BY <1>17, <1>18, VerdictOfToken DEF ValidateToken, OpsValidateToken
<1> QED
  BY <1>1, <1>2, <1>3, <1>4, <1>5, <1>6, <1>7, <1>8, <1>9, <1>10, <1>11, <1>12, <1>13, <1>14,
     <1>15, <1>16, <1>18 DEF Handler
\* ... and so do the clock and the operator.
LEMMA TypeStep ==
    ASSUME TypeOK, CallsWellFormed, [Next]_vars
    PROVE  TypeOK'
<1> USE DEF TypeOK
<1>1. CASE Tick
  BY <1>1, ConstantsOK DEF Tick, Min2
<1>2. CASE Suspend
  <2>1. PICK u \in users : users' = (users \ {u}) \cup {[u EXCEPT !.active = FALSE]}
    BY <1>2 DEF Suspend
  <2>2. [u EXCEPT !.active = FALSE] \in UserRows
    BY DEF UserRows
  <2>3. IsFiniteSet(users')
    BY <2>1, FS_RemoveElement, FS_AddElement
  <2> QED
    BY <1>2, <2>1, <2>2, <2>3 DEF Suspend
<1>3. CASE UNCHANGED vars
  BY <1>3 DEF vars
<1> QED
  BY <1>1, <1>2, <1>3, HandlerType DEF Next

-----------------------------------------------------------------------------
(* The inductive invariant.                                                *)

\* Registrations that were answered "ok".
Registered == {c \in Calls : calls[c].op = "register" /\ calls[c].answer = "ok"}

\* RegisteredOnce stays true when nobody is registered and no account is removed.
LEMMA RegisteredStep ==
    ASSUME RegisteredOnce, Registered' \subseteq Registered,
           \A c \in Registered' : /\ calls'[c].name = calls[c].name
                                  /\ calls'[c].email = calls[c].email,
           \A u \in users : \E v \in users' : v.name = u.name /\ v.email = u.email
    PROVE  RegisteredOnce'
<1> SUFFICES /\ \A c, d \in Registered' : c # d =>
                  calls'[c].name # calls'[d].name /\ calls'[c].email # calls'[d].email
             /\ \A c \in Registered' : \E u \in users' :
                  u.name = calls'[c].name /\ u.email = calls'[c].email
  BY Zenon DEF RegisteredOnce, Registered
<1>1. /\ \A c, d \in Registered : c # d =>
           calls[c].name # calls[d].name /\ calls[c].email # calls[d].email
      /\ \A c \in Registered : \E u \in users :
           u.name = calls[c].name /\ u.email = calls[c].email
  BY Zenon DEF RegisteredOnce, Registered
<1>2. ASSUME NEW c \in Registered', NEW d \in Registered', c # d
      PROVE  calls'[c].name # calls'[d].name /\ calls'[c].email # calls'[d].email
  BY <1>1, <1>2
<1>3. ASSUME NEW c \in Registered'
      PROVE  \E u \in users' : u.name = calls'[c].name /\ u.email = calls'[c].email
  <2>1. PICK u \in users : u.name = calls[c].name /\ u.email = calls[c].email
    BY <1>1
  <2>2. PICK v \in users' : v.name = u.name /\ v.email = u.email
    OBVIOUS
  <2> QED
    BY <2>1, <2>2
<1> QED
  BY <1>2, <1>3

\* A step of request c leaves the others alone and keeps what c asks for; c goes on
\* to l and has the answer a.
Moves(c, l, a) ==
    /\ calls' \in [Calls -> CallRecords]
    /\ \A d \in Calls : d # c => calls'[d] = calls[d]
    /\ calls'[c].op = calls[c].op
    /\ calls'[c].name = calls[c].name /\ calls'[c].email = calls[c].email
    /\ calls'[c].sid = calls[c].sid /\ calls'[c].expires = calls[c].expires
    /\ calls'[c].pc = l /\ calls'[c].answer = a

\* An answer moves its own request to the end and nothing else.
LEMMA AnswerMoves ==
    ASSUME TypeOK, NEW c \in Calls, NEW a \in Answers, Answer(c, a)
    PROVE  Moves(c, "done", a)
<1>1. calls' = [calls EXCEPT ![c] = [calls[c] EXCEPT !.pc = "done", !.answer = a]]
  BY DEF TypeOK, Answer
<1>2. calls[c] \in CallRecords
  BY DEF TypeOK
<1>3. /\ calls'[c] = [calls[c] EXCEPT !.pc = "done", !.answer = a]
      /\ \A d \in Calls : d # c => calls'[d] = calls[d]
  BY <1>1 DEF TypeOK
<1> QED
  BY <1>2, <1>3, AnswerType DEF Moves, CallRecords

\* A step to the next statement moves its own request and nothing else.
LEMMA GotoMoves ==
    ASSUME TypeOK, NEW c \in Calls, NEW l \in Pcs, Goto(c, l)
    PROVE  Moves(c, l, calls[c].answer)
<1>1. calls[c] \in CallRecords
  BY DEF TypeOK
<1>2. /\ calls'[c] = [calls[c] EXCEPT !.pc = l]
      /\ \A d \in Calls : d # c => calls'[d] = calls[d]
  BY DEF TypeOK, Goto
<1> QED
  BY <1>1, <1>2, GotoType DEF Moves, CallRecords

\* A request that moves on stays well formed.
LEMMA MovedWellFormed ==
    ASSUME CallsWellFormed, NEW c \in Calls, NEW l \in Pcs, NEW a \in Answers, Moves(c, l, a),
           drawn' = drawn, calls[c].op # "none", a # "none" => l = "done",
           l \in {"session", "last login"} => calls[c].sid \in drawn
    PROVE  CallsWellFormed'
<1> SUFFICES ASSUME NEW d \in Calls
             PROVE  /\ calls'[d].answer # "none" => calls'[d].pc = "done"
                    /\ calls'[d].op = "none" => calls'[d].pc = "idle"
                    /\ calls'[d].op = "register" =>
                         calls'[d].name \in Names /\ calls'[d].email \in Emails
                    /\ calls'[d].op = "refresh" => calls'[d].sid \in SessionIds
                    /\ calls'[d].pc \in {"session", "last login"} => calls'[d].sid \in drawn'
  BY DEF CallsWellFormed
<1>1. CASE d # c
  <2>1. calls'[d] = calls[d]
    BY <1>1 DEF Moves
  <2> QED
    BY <2>1 DEF CallsWellFormed
<1>2. CASE d = c
  <2>1. /\ calls'[c].op = calls[c].op /\ calls'[c].sid = calls[c].sid
        /\ calls'[c].name = calls[c].name /\ calls'[c].email = calls[c].email
        /\ calls'[c].pc = l /\ calls'[c].answer = a
    BY DEF Moves
  <2> QED
    BY <1>2, <2>1 DEF CallsWellFormed
<1> QED
  BY <1>1, <1>2

\* A step that draws no token, registers nobody and creates no session.
LEMMA MoveStep ==
    ASSUME UserInv, NEW c \in Calls, NEW l \in Pcs, NEW a \in Answers, Moves(c, l, a),
           UNCHANGED <<now, users, drawn>>,
           \A r \in sessions' : CreatedFor(r.sid, r.expires),
           calls[c].op # "none",
           a # "none" => l = "done",
           l \notin {"session", "last login"},
           calls[c].op = "register" => a # "ok",
           calls[c].op = "login" => (Created(c) <=> a = "ok"),
           calls[c].op = "refresh" /\ l \in {"expired", "owner", "update"} =>
               calls[c].pc \in {"owner", "update"} /\ l # "expired"
    PROVE  RequestInv'
<1>0. CallsWellFormed /\ TokensUnique /\ ExpiryFixed /\ RegisteredOnce
  BY DEF UserInv, RequestInv
<1>a. \A d \in Calls : d # c => calls'[d] = calls[d]
  BY DEF Moves
<1>b. /\ calls'[c].op = calls[c].op /\ calls'[c].sid = calls[c].sid
      /\ calls'[c].name = calls[c].name /\ calls'[c].email = calls[c].email
      /\ calls'[c].expires = calls[c].expires /\ calls'[c].pc = l /\ calls'[c].answer = a
  BY DEF Moves
<1>1. CallsWellFormed'
  BY <1>0, MovedWellFormed
<1>2. \A d \in Calls : Created(d)' <=> Created(d)
  BY <1>a, <1>b DEF Created
<1>3. TokensUnique'
  <2>1. \A d \in Calls : calls'[d].op = calls[d].op /\ calls'[d].sid = calls[d].sid
    BY <1>a, <1>b
  <2> QED
    BY <1>0, <1>2, <2>1 DEF TokensUnique
<1>4. ASSUME NEW t, NEW x, CreatedFor(t, x) PROVE CreatedFor(t, x)'
  <2>1. PICK d \in Calls : Created(d) /\ calls[d].sid = t /\ calls[d].expires = x
    BY <1>4 DEF CreatedFor
  <2>2. calls'[d].sid = t /\ calls'[d].expires = x
    BY <1>a, <1>b, <2>1
  <2> QED
    BY <1>2, <2>1, <2>2 DEF CreatedFor
<1>5. ExpiryFixed'
  BY <1>0, <1>4, <1>a, <1>b DEF ExpiryFixed
<1>6. RegisteredOnce'
  <2>1. \A d \in Calls :
          calls'[d].op = "register" /\ calls'[d].answer = "ok" =>
              calls'[d] = calls[d]
    BY <1>a, <1>b
  <2> QED
    BY <1>0, <2>1, RegisteredStep DEF Registered
<1> QED
  BY <1>1, <1>3, <1>5, <1>6 DEF RequestInv

\* A request starts.
LEMMA StartStep ==
    ASSUME UserInv, NEW c \in Calls, calls[c].op = "none", NEW k \in CallRecords,
           calls' = [calls EXCEPT ![c] = k],
           UNCHANGED <<now, users, sessions, drawn>>,
           k.op # "none",
           k.answer # "none" => k.pc = "done",
           k.pc \notin {"session", "last login"},
           k.op = "register" => k.name \in Names /\ k.email \in Emails /\ k.answer # "ok",
           k.op = "login" => k.sid = NoSid /\ k.answer # "ok",
           k.op = "refresh" => k.sid \in SessionIds /\ k.pc = "get"
    PROVE  RequestInv'
<1> USE DEF UserInv, RequestInv
<1>1. /\ calls'[c] = k
      /\ \A d \in Calls : d # c => calls'[d] = calls[d]
  BY DEF TypeOK
<1>2. CallsWellFormed'
  <2> SUFFICES ASSUME NEW d \in Calls
               PROVE  /\ calls'[d].answer # "none" => calls'[d].pc = "done"
                      /\ calls'[d].op = "none" => calls'[d].pc = "idle"
                      /\ calls'[d].op = "register" =>
                           calls'[d].name \in Names /\ calls'[d].email \in Emails
                      /\ calls'[d].op = "refresh" => calls'[d].sid \in SessionIds
                      /\ calls'[d].pc \in {"session", "last login"} => calls'[d].sid \in drawn
    BY DEF CallsWellFormed
  <2> QED
    BY <1>1 DEF CallsWellFormed
<1>3. \A d \in Calls : Created(d)' <=> Created(d)
  BY <1>1 DEF Created
<1>4. TokensUnique'
  <2>1. \A d \in Calls : calls'[d].op = "login" =>
          calls'[d].sid = NoSid \/ (d # c /\ calls'[d] = calls[d])
    BY <1>1
  <2>2. \A d \in Calls : Created(d)' => d # c /\ calls'[d] = calls[d]
    BY <1>1, <1>3 DEF Created
  <2>3. \A d \in Calls : calls'[d].op = "login" => calls'[d].sid \in drawn \cup {NoSid}
    BY <2>1 DEF TokensUnique
  <2>4. \A d, e \in Calls :
          calls'[d].op = "login" /\ calls'[e].op = "login" /\ calls'[d].sid = calls'[e].sid =>
              d = e \/ calls'[d].sid = NoSid
    <3> SUFFICES ASSUME NEW d \in Calls, NEW e \in Calls, calls'[d].op = "login",
                        calls'[e].op = "login", calls'[d].sid = calls'[e].sid,
                        calls'[d].sid # NoSid
                 PROVE  d = e
      OBVIOUS
    <3>1. calls'[d] = calls[d] /\ calls'[e] = calls[e]
      BY <2>1
    <3> QED
      BY <3>1 DEF TokensUnique
  <2>5. \A d \in Calls : Created(d)' => calls'[d].sid \in drawn
    BY <1>3, <2>2 DEF TokensUnique
  <2> QED
    BY <2>3, <2>4, <2>5 DEF TokensUnique
<1>5. ASSUME NEW t, NEW x, CreatedFor(t, x) PROVE CreatedFor(t, x)'
  BY <1>1, <1>3, <1>5 DEF CreatedFor, Created
<1>6. ExpiryFixed'
  BY <1>1, <1>5 DEF ExpiryFixed
<1>7. RegisteredOnce'
  <2>1. \A d \in Calls :
          calls'[d].op = "register" /\ calls'[d].answer = "ok" => calls'[d] = calls[d]
    BY <1>1
  <2> QED
    BY <2>1, RegisteredStep DEF Registered
<1> QED
  BY <1>2, <1>4, <1>6, <1>7

\* Create inserts the account of registration c: no other account, and so no other
\* registration answered "ok", has its name or its address.
LEMMA CreateUserStep ==
    ASSUME UserInv, NEW c \in Calls, At(c, "register", "create"), Answer(c, "ok"),
           NEW row, row.name = calls[c].name, row.email = calls[c].email,
           ~Duplicate(row), users' = InsertUser(row), UNCHANGED <<now, sessions, drawn>>
    PROVE  RequestInv'
<1>1. Moves(c, "done", "ok")
  BY AnswerMoves, Labels DEF UserInv
<1> USE DEF UserInv, RequestInv, Moves
<1>2. CallsWellFormed'
  <2>1. CallsWellFormed /\ calls[c].op # "none" /\ calls[c].answer \in Answers /\ drawn' = drawn
    BY DEF TypeOK, CallRecords, At
  <2> HIDE DEF UserInv, RequestInv, Moves
  <2> QED
    BY <1>1, <2>1, MovedWellFormed, Labels
<1>3. \A d \in Calls : Created(d)' <=> Created(d)
  BY <1>1 DEF Created, At
<1>4. TokensUnique'
  <2>1. \A d \in Calls : calls'[d].op = calls[d].op /\ calls'[d].sid = calls[d].sid
    BY <1>1
  <2> QED
    BY <1>3, <2>1 DEF TokensUnique
<1>5. ASSUME NEW t, NEW x, CreatedFor(t, x) PROVE CreatedFor(t, x)'
  BY <1>1, <1>3, <1>5 DEF CreatedFor
<1>6. ExpiryFixed'
  BY <1>1, <1>5 DEF ExpiryFixed, At
<1>7. RegisteredOnce'
  <2>1. \A d, e \in Registered : d # e =>
           calls[d].name # calls[e].name /\ calls[d].email # calls[e].email
    BY Zenon DEF RegisteredOnce, Registered
  <2>2. \A d \in Registered : \E u \in users : u.name = calls[d].name /\ u.email = calls[d].email
    BY Zenon DEF RegisteredOnce, Registered
  <2>3. \A d \in Registered' : d = c \/ (d \in Registered /\ calls'[d] = calls[d])
    BY <1>1 DEF Registered
  <2>4. \A d \in Registered : calls[d].name # calls[c].name /\ calls[d].email # calls[c].email
    BY <2>2 DEF Duplicate
  <2>5. \A d, e \in Registered' : d # e =>
           calls'[d].name # calls'[e].name /\ calls'[d].email # calls'[e].email
    BY <1>1, <2>1, <2>3, <2>4
  <2>6. \A d \in Registered' : \E u \in users' :
           u.name = calls'[d].name /\ u.email = calls'[d].email
    BY <1>1, <2>2, <2>3 DEF InsertUser
  <2> QED
    BY Zenon, <2>5, <2>6 DEF RegisteredOnce, Registered
<1> QED
  BY <1>2, <1>4, <1>6, <1>7

\* A login draws the refresh token s, which no request has.
LEMMA DrawStep ==
    ASSUME UserInv, NEW c \in Calls, At(c, "login", "user"), NEW s \in generateRefreshToken,
           \A d \in Calls : d # c => calls'[d] = calls[d],
           calls'[c].op = "login", calls'[c].pc = "session", calls'[c].sid = s,
           calls'[c].answer = calls[c].answer,
           drawn' = drawn \cup {s}, UNCHANGED <<now, users, sessions>>
    PROVE  RequestInv'
<1> USE DEF UserInv, RequestInv
<1>0. s \in SessionIds /\ s \notin drawn /\ s # NoSid
  BY ConstantsOK DEF generateRefreshToken
<1>1. /\ \A d \in Calls : d # c => calls'[d] = calls[d]
      /\ calls'[c].op = "login" /\ calls'[c].pc = "session" /\ calls'[c].sid = s
      /\ calls'[c].answer = calls[c].answer
  OBVIOUS
<1>2. calls[c].answer = "none"
  BY DEF CallsWellFormed, At
<1>3. CallsWellFormed'
  <2> SUFFICES ASSUME NEW d \in Calls
               PROVE  /\ calls'[d].answer # "none" => calls'[d].pc = "done"
                      /\ calls'[d].op = "none" => calls'[d].pc = "idle"
                      /\ calls'[d].op = "register" =>
                           calls'[d].name \in Names /\ calls'[d].email \in Emails
                      /\ calls'[d].op = "refresh" => calls'[d].sid \in SessionIds
                      /\ calls'[d].pc \in {"session", "last login"} => calls'[d].sid \in drawn'
    BY DEF CallsWellFormed
  <2>1. CASE d = c
    BY <1>0, <1>1, <1>2, <2>1
  <2>2. CASE d # c
    BY <1>1, <2>2 DEF CallsWellFormed
  <2> QED
    BY <2>1, <2>2
<1>4. \A d \in Calls : /\ Created(d)' <=> Created(d)
                       /\ Created(d) => d # c
  BY <1>1, <1>2 DEF Created, At
<1>5. TokensUnique'
  <2>1. \A d \in Calls : calls'[d].op = "login" => calls'[d].sid \in drawn' \cup {NoSid}
    BY <1>1 DEF TokensUnique
  <2>2. \A d, e \in Calls :
          calls'[d].op = "login" /\ calls'[e].op = "login" /\ calls'[d].sid = calls'[e].sid =>
              d = e \/ calls'[d].sid = NoSid
    <3>1. \A d \in Calls : d # c /\ calls'[d].op = "login" => calls'[d].sid # s
      BY <1>0, <1>1 DEF TokensUnique
    <3> SUFFICES ASSUME NEW d \in Calls, NEW e \in Calls, calls'[d].op = "login",
                        calls'[e].op = "login", calls'[d].sid = calls'[e].sid, d # e
                 PROVE  calls'[d].sid = NoSid
      OBVIOUS
    <3>2. d # c /\ e # c
      BY <1>1, <3>1
    <3> QED
      BY <1>1, <3>2 DEF TokensUnique
  <2>3. \A d \in Calls : Created(d)' => calls'[d].sid \in drawn'
    BY <1>1, <1>4 DEF TokensUnique
  <2> QED
    BY <2>1, <2>2, <2>3 DEF TokensUnique
<1>6. ASSUME NEW z, NEW y, CreatedFor(z, y) PROVE CreatedFor(z, y)'
  BY <1>1, <1>4, <1>6 DEF CreatedFor
<1>7. ExpiryFixed'
  BY <1>1, <1>6 DEF ExpiryFixed
<1>8. RegisteredOnce'
  <2>1. \A d \in Registered' : d \in Registered /\ calls'[d] = calls[d]
    BY <1>1 DEF Registered
  <2> QED
    BY <2>1, RegisteredStep
<1> QED
  BY <1>3, <1>5, <1>7, <1>8

\* A login inserts its session.
LEMMA CreateSessionStep ==
    ASSUME UserInv, NEW c \in Calls, At(c, "login", "session"), Goto(c, "last login"),
           NEW row, row.sid = calls[c].sid, row.expires = calls[c].expires,
           sessions' = InsertSession(row), UNCHANGED <<now, users, drawn>>
    PROVE  RequestInv'
<1>1. Moves(c, "last login", calls[c].answer)
  BY GotoMoves, Labels DEF UserInv
<1> USE DEF UserInv, RequestInv, Moves
<1>2. CallsWellFormed'
  <2>1. CallsWellFormed /\ calls[c].op # "none" /\ calls[c].answer \in Answers /\ drawn' = drawn
    BY DEF TypeOK, CallRecords, At
  <2>2. calls[c].sid \in drawn /\ calls[c].answer = "none"
    BY <2>1 DEF CallsWellFormed, At
  <2> HIDE DEF UserInv, RequestInv, Moves
  <2> QED
    BY <1>1, <2>1, <2>2, MovedWellFormed, Labels
<1>3. \A d \in Calls : Created(d)' <=> Created(d) \/ d = c
  BY <1>1 DEF Created, At
<1>4. TokensUnique'
  <2>1. \A d \in Calls : calls'[d].op = calls[d].op /\ calls'[d].sid = calls[d].sid
    BY <1>1
  <2>2. calls[c].sid \in drawn
    BY DEF CallsWellFormed, At
  <2>3. TokensUnique /\ drawn' = drawn
    OBVIOUS
  <2> HIDE DEF UserInv, RequestInv, Moves
  <2>4. \A d \in Calls : Created(d)' => calls'[d].sid \in drawn'
    BY <1>3, <2>1, <2>2, <2>3 DEF TokensUnique
  <2> QED
    BY <2>1, <2>3, <2>4 DEF TokensUnique
<1>5. ASSUME NEW t, NEW x, CreatedFor(t, x) PROVE CreatedFor(t, x)'
  BY <1>1, <1>3, <1>5 DEF CreatedFor
<1>6. CreatedFor(row.sid, row.expires)'
  BY <1>1, <1>3 DEF CreatedFor
<1>7. ExpiryFixed'
  BY <1>1, <1>5, <1>6 DEF ExpiryFixed, InsertSession, At
<1>8. RegisteredOnce'
  <2>1. \A d \in Registered' : d \in Registered /\ calls'[d] = calls[d]
    BY <1>1 DEF Registered, At
  <2> QED
    BY <2>1, RegisteredStep
<1> QED
  BY <1>2, <1>4, <1>7, <1>8

\* A RefreshToken reads its session.
LEMMA ReadSessionStep ==
    ASSUME UserInv, NEW c \in Calls, At(c, "refresh", "get"), NEW r \in SessionById(calls[c].sid),
           NEW l \in {"expired", "owner"}, l = "expired" => MayHaveExpired(r.expires),
           calls' \in [Calls -> CallRecords],
           calls' = [calls EXCEPT ![c] = [calls[c] EXCEPT !.pc = l, !.uid = r.uid,
                                                          !.expires = r.expires]],
           UNCHANGED <<now, users, sessions, drawn>>
    PROVE  RequestInv'
<1> USE DEF UserInv, RequestInv
<1>0. calls[c] \in CallRecords /\ r \in sessions /\ r.sid = calls[c].sid /\ r.expires \in Nat
  BY DEF TypeOK, SessionById, SessionRows
<1>1. /\ \A d \in Calls : d # c => calls'[d] = calls[d]
      /\ calls'[c].op = "refresh" /\ calls'[c].pc = l /\ calls'[c].sid = calls[c].sid
      /\ calls'[c].expires = r.expires /\ calls'[c].answer = calls[c].answer
  BY <1>0 DEF TypeOK, CallRecords, At
<1>2. CallsWellFormed'
  <2>1. calls[c].answer = "none" /\ calls[c].sid \in SessionIds
    BY DEF CallsWellFormed, At
  <2> SUFFICES ASSUME NEW d \in Calls
               PROVE  /\ calls'[d].answer # "none" => calls'[d].pc = "done"
                      /\ calls'[d].op = "none" => calls'[d].pc = "idle"
                      /\ calls'[d].op = "register" =>
                           calls'[d].name \in Names /\ calls'[d].email \in Emails
                      /\ calls'[d].op = "refresh" => calls'[d].sid \in SessionIds
                      /\ calls'[d].pc \in {"session", "last login"} => calls'[d].sid \in drawn'
    BY DEF CallsWellFormed
  <2> QED
    BY <1>1, <2>1 DEF CallsWellFormed
<1>3. \A d \in Calls : /\ Created(d)' <=> Created(d)
                       /\ Created(d) => d # c
  BY <1>1 DEF Created, At
<1>4. TokensUnique'
  <2>1. \A d \in Calls : calls'[d].op = calls[d].op /\ calls'[d].sid = calls[d].sid
    BY <1>1 DEF At
  <2> QED
    BY <1>3, <2>1 DEF TokensUnique
<1>5. ASSUME NEW z, NEW y, CreatedFor(z, y) PROVE CreatedFor(z, y)'
  BY <1>1, <1>3, <1>5 DEF CreatedFor
<1>6. ExpiryFixed'
  <2>1. \A r2 \in sessions' : CreatedFor(r2.sid, r2.expires)'
    BY <1>5 DEF ExpiryFixed
  <2>2. \A d \in Calls :
          calls'[d].op = "refresh" /\ calls'[d].pc \in {"expired", "owner", "update"} =>
              CreatedFor(calls[d].sid, calls[d].expires)'
    BY <1>0, <1>1, <1>5 DEF ExpiryFixed
  <2>3. \A d \in Calls : calls'[d].op = "refresh" /\ calls'[d].pc = "expired" =>
              calls'[d].expires <= now'
    BY <1>0, <1>1 DEF ExpiryFixed, MayHaveExpired, TypeOK
  <2> QED
    BY <2>1, <2>2, <2>3 DEF ExpiryFixed
<1>7. RegisteredOnce'
  <2>1. \A d \in Registered' : d \in Registered /\ calls'[d] = calls[d]
    BY <1>1 DEF Registered
  <2> QED
    BY <2>1, RegisteredStep
<1> QED
  BY <1>2, <1>4, <1>6, <1>7

\* Every statement of a request preserves the invariant.
LEMMA HandlerStep ==
    ASSUME UserInv, NEW c \in Calls, Handler(c)
    PROVE  UserInv'
<1> SUFFICES RequestInv'
  BY HandlerType DEF UserInv, RequestInv
<1>0. TypeOK /\ TypeOK' /\ \A r \in sessions : CreatedFor(r.sid, r.expires)
  BY HandlerType DEF UserInv, RequestInv, ExpiryFixed
<1>a. ASSUME NEW a \in Answers, Answer(c, a), a # "none", calls[c].op # "none",
             UNCHANGED <<now, users, drawn>>,
             \A r \in sessions' : CreatedFor(r.sid, r.expires),
             calls[c].op = "register" => a # "ok",
             calls[c].op = "login" => (Created(c) <=> a = "ok")
      PROVE  RequestInv'
  <2>1. Moves(c, "done", a)
    BY <1>0, <1>a, AnswerMoves
  <2> QED
    BY <1>a, <2>1, MoveStep, Labels
<1>b. \A l \in {"username", "email", "create", "user", "session"} :
          At(c, "register", l) \/ At(c, "login", l) => ~Created(c)
  BY DEF UserInv, RequestInv, CallsWellFormed, Created, At
<1>1. CASE Register(c)
  <2>1. PICK n \in Names, e \in Emails :
          Allow(c, "register", [NoCall EXCEPT !.name = n, !.email = e], "username")
    BY <1>1 DEF Register
  <2>2. calls' = [calls EXCEPT ![c] = calls'[c]] /\ calls'[c] \in CallRecords
    BY <1>0, <2>1 DEF TypeOK, Allow
  <2>3. /\ calls'[c].op = "register" /\ calls'[c].pc \in {"username", "done"}
        /\ calls'[c].name = n /\ calls'[c].email = e /\ calls'[c].answer \in {"none", "429"}
        /\ calls'[c].answer # "none" => calls'[c].pc = "done"
    <3> DEFINE call == [NoCall EXCEPT !.name = n, !.email = e]
    <3>1. \/ calls'[c] = [call EXCEPT !.op = "register", !.pc = "username"]
          \/ calls'[c] = [call EXCEPT !.op = "register", !.pc = "done", !.answer = "429"]
      BY <1>0, <2>1 DEF TypeOK, Allow
    <3> QED
      BY <3>1 DEF NoCall
  <2> QED
    BY <1>1, <2>2, <2>3, StartStep DEF Register
<1>2. CASE BadRequest(c)
  BY <1>0, <1>2, <1>a, <1>b, Labels DEF BadRequest, At
<1>3. CASE UsernameExists(c)
  <2>1. CASE Answer(c, "500") \/ Answer(c, "username exists")
    BY <1>0, <1>3, <1>a, <2>1, Labels DEF UsernameExists, At
  <2>2. CASE Goto(c, "email")
    <3>1. Moves(c, "email", calls[c].answer) /\ calls[c].answer = "none"
      BY <1>0, <1>3, <2>2, GotoMoves, Labels DEF UsernameExists, At, UserInv, RequestInv, CallsWellFormed
    <3> QED
      BY <1>0, <1>3, <3>1, MoveStep, Labels DEF UsernameExists, At, Answers
  <2> QED
    BY <1>3, <2>1, <2>2 DEF UsernameExists
<1>4. CASE EmailExists(c)
  <2>1. CASE Answer(c, "500")
    BY <1>0, <1>4, <1>a, <2>1, Labels DEF EmailExists, At
  <2>2. CASE Goto(c, "create")
    <3>1. Moves(c, "create", calls[c].answer) /\ calls[c].answer = "none"
      BY <1>0, <1>4, <2>2, GotoMoves, Labels DEF EmailExists, At, UserInv, RequestInv, CallsWellFormed
    <3> QED
      BY <1>0, <1>4, <3>1, MoveStep, Labels DEF EmailExists, At, Answers
  <2> QED
    BY <1>4, <2>1, <2>2 DEF EmailExists
<1>5. CASE CreateUser(c)
  <2> DEFINE row == [uid |-> Cardinality(users) + 1, name |-> calls[c].name,
                     email |-> calls[c].email, active |-> TRUE]
  <2>1. CASE Answer(c, "500") /\ UNCHANGED users
    BY <1>0, <1>5, <1>a, <2>1, Labels DEF CreateUser, At
  <2>2. CASE ~Duplicate(row) /\ users' = InsertUser(row) /\ Answer(c, "ok")
    BY <1>5, <2>2, CreateUserStep DEF CreateUser
  <2> QED
    BY <1>5, <2>1, <2>2 DEF CreateUser
<1>6. CASE Login(c)
  <2>1. PICK n \in Names, right \in BOOLEAN :
          Allow(c, "login", [NoCall EXCEPT !.name = n, !.pass = right], "user")
    BY <1>6 DEF Login
  <2>2. calls' = [calls EXCEPT ![c] = calls'[c]] /\ calls'[c] \in CallRecords
    BY <1>0, <2>1 DEF TypeOK, Allow
  <2>3. /\ calls'[c].op = "login" /\ calls'[c].pc \in {"user", "done"}
        /\ calls'[c].sid = NoSid /\ calls'[c].answer \in {"none", "429"}
        /\ calls'[c].answer # "none" => calls'[c].pc = "done"
    <3> DEFINE call == [NoCall EXCEPT !.name = n, !.pass = right]
    <3>1. \/ calls'[c] = [call EXCEPT !.op = "login", !.pc = "user"]
          \/ calls'[c] = [call EXCEPT !.op = "login", !.pc = "done", !.answer = "429"]
      BY <1>0, <2>1 DEF TypeOK, Allow
    <3> QED
      BY <3>1 DEF NoCall
  <2> QED
    BY <1>6, <2>2, <2>3, StartStep DEF Login
<1>7. CASE GetByUsername(c)
  <2>1. CASE Answer(c, "401") /\ UNCHANGED drawn
    BY <1>0, <1>7, <1>a, <1>b, <2>1, Labels DEF GetByUsername, At
  <2>2. ASSUME NEW u \in UserByName(calls[c].name), NEW s \in generateRefreshToken,
               drawn' = drawn \cup {s},
               calls' = [calls EXCEPT ![c].pc = "session", ![c].uid = u.uid,
                             ![c].sid = s, ![c].token = generateToken(u.uid),
                             ![c].expires = now + TokenDuration + RefreshDuration]
        PROVE  RequestInv'
    <3>1. calls' = [calls EXCEPT ![c] =
              [calls[c] EXCEPT !.pc = "session", !.uid = u.uid, !.sid = s,
                               !.token = generateToken(u.uid),
                               !.expires = now + TokenDuration + RefreshDuration]]
      BY <1>0, <2>2 DEF TypeOK
    <3>2. calls[c] \in CallRecords /\ calls[c].op = "login"
      BY <1>0, <1>7 DEF GetByUsername, At, TypeOK
    <3>3. /\ \A d \in Calls : d # c => calls'[d] = calls[d]
          /\ calls'[c] = [calls[c] EXCEPT !.pc = "session", !.uid = u.uid, !.sid = s,
                               !.token = generateToken(u.uid),
                               !.expires = now + TokenDuration + RefreshDuration]
      BY <1>0, <3>1 DEF TypeOK
    <3>4. /\ calls'[c].op = "login" /\ calls'[c].pc = "session" /\ calls'[c].sid = s
          /\ calls'[c].answer = calls[c].answer
      BY <3>2, <3>3 DEF CallRecords
    <3> QED
      BY <1>7, <2>2, <3>3, <3>4, DrawStep DEF GetByUsername
  <2> QED
    BY <1>7, <2>1, <2>2 DEF GetByUsername
<1>8. CASE CreateSession(c)
  <2>1. CASE Answer(c, "401") /\ UNCHANGED sessions
    BY <1>0, <1>8, <1>a, <1>b, <2>1, Labels DEF CreateSession, At
  <2>2. CASE /\ sessions' = InsertSession([sid |-> calls[c].sid, uid |-> calls[c].uid,
                              token |-> calls[c].token, expires |-> calls[c].expires])
             /\ Goto(c, "last login")
    BY <1>8, <2>2, CreateSessionStep DEF CreateSession
  <2> QED
    BY <1>8, <2>1, <2>2 DEF CreateSession
<1>9. CASE UpdateLastLogin(c)
  BY <1>0, <1>9, <1>a, Labels DEF UpdateLastLogin, At, Created
<1>10. CASE Logout(c)
  <2>1. PICK t \in Handed : calls' = [calls EXCEPT ![c] =
                               [NoCall EXCEPT !.op = "logout", !.pc = "delete", !.token = t]]
    BY <1>10 DEF Logout
  <2>2. calls' = [calls EXCEPT ![c] = calls'[c]] /\ calls'[c] \in CallRecords
    BY <1>0, <2>1 DEF TypeOK
  <2>3. calls'[c].op = "logout" /\ calls'[c].pc = "delete" /\ calls'[c].answer = "none"
    BY <1>0, <2>1 DEF TypeOK, NoCall
  <2> QED
    BY <1>10, <2>2, <2>3, StartStep DEF Logout
<1>11. CASE DeleteByToken(c)
  <2>1. sessions' \subseteq sessions
    BY <1>11 DEF DeleteByToken, DeletedByToken
  <2> QED
    BY <1>0, <1>11, <1>a, <2>1, Labels DEF DeleteByToken, At
<1>12. CASE RefreshToken(c)
  <2>1. PICK s \in drawn : calls' = [calls EXCEPT ![c] =
                               [NoCall EXCEPT !.op = "refresh", !.pc = "get", !.sid = s]]
    BY <1>12 DEF RefreshToken
  <2>2. calls' = [calls EXCEPT ![c] = calls'[c]] /\ calls'[c] \in CallRecords
    BY <1>0, <2>1 DEF TypeOK
  <2>3. /\ calls'[c].op = "refresh" /\ calls'[c].pc = "get" /\ calls'[c].answer = "none"
        /\ calls'[c].sid \in SessionIds
    BY <1>0, <2>1 DEF TypeOK, NoCall
  <2> QED
    BY <1>12, <2>2, <2>3, StartStep DEF RefreshToken
<1>13. CASE GetBySessionID(c)
  <2>1. CASE Answer(c, "error")
    BY <1>0, <1>13, <1>a, <2>1, Labels DEF GetBySessionID, At
  <2>2. ASSUME NEW r \in SessionById(calls[c].sid), NEW l \in {"expired", "owner"},
               l = "expired" => MayHaveExpired(r.expires),
               calls' = [calls EXCEPT ![c].pc = l, ![c].uid = r.uid, ![c].expires = r.expires]
        PROVE  RequestInv'
    <3>1. calls' = [calls EXCEPT ![c] =
              [calls[c] EXCEPT !.pc = l, !.uid = r.uid, !.expires = r.expires]]
      BY <1>0, <2>2 DEF TypeOK
    <3>2. At(c, "refresh", "get") /\ UNCHANGED <<now, users, sessions, drawn>>
      BY <1>13 DEF GetBySessionID
    <3>3. calls' \in [Calls -> CallRecords]
      BY <1>0 DEF TypeOK
    <3> QED
      BY <1>0, <2>2, <3>1, <3>2, <3>3, ReadSessionStep
  <2> QED
    BY <1>13, <2>1, <2>2 DEF GetBySessionID
<1>14. CASE DeleteExpiredSession(c)
  <2>1. sessions' \subseteq sessions
    BY <1>14 DEF DeleteExpiredSession, DeletedById
  <2> QED
    BY <1>0, <1>14, <1>a, <2>1, Labels DEF DeleteExpiredSession, At
<1>15. CASE GetByID(c)
  <2>1. CASE Answer(c, "error")
    BY <1>0, <1>15, <1>a, <2>1, Labels DEF GetByID, At
  <2>2. CASE calls' = [calls EXCEPT ![c].pc = "update", ![c].token = generateToken(calls[c].uid)]
    <3>1. calls'[c] = [calls[c] EXCEPT !.pc = "update", !.token = generateToken(calls[c].uid)]
      BY <1>0, <2>2 DEF TypeOK
    <3>2. calls[c] \in CallRecords /\ \A d \in Calls : d # c => calls'[d] = calls[d]
      BY <1>0, <2>2 DEF TypeOK
    <3>3. Moves(c, "update", calls[c].answer)
      BY <1>0, <3>1, <3>2 DEF Moves, TypeOK, CallRecords
    <3>4. calls[c].answer = "none"
      BY <1>15 DEF GetByID, At, UserInv, RequestInv, CallsWellFormed
    <3> QED
      BY <1>0, <1>15, <3>3, <3>4, MoveStep, Labels DEF GetByID, At, Answers
  <2> QED
    BY <1>15, <2>1, <2>2 DEF GetByID
<1>16. CASE UpdateSession(c)
  <2> DEFINE row == [sid |-> calls[c].sid, uid |-> calls[c].uid,
                     token |-> calls[c].token, expires |-> calls[c].expires]
  <2>1. CreatedFor(row.sid, row.expires)
    BY <1>16 DEF UpdateSession, At, UserInv, RequestInv, ExpiryFixed
  <2>2. \A r \in sessions' : CreatedFor(r.sid, r.expires)
    BY <1>0, <1>16, <2>1 DEF UpdateSession, UpdatedSession
  <2> QED
    BY <1>0, <1>16, <1>a, <2>2, Labels DEF UpdateSession, At
<1>17. ASSUME NEW t, NEW V, Validate(c, t, V) PROVE RequestInv'
  <2>1. PICK v \in V : calls' = [calls EXCEPT ![c] =
              [NoCall EXCEPT !.op = "validate", !.pc = "done",
                             !.token = t, !.uid = v.uid, !.answer = v.answer]]
    BY <1>17 DEF Validate
  <2>2. calls' = [calls EXCEPT ![c] = calls'[c]] /\ calls'[c] \in CallRecords
    BY <1>0, <2>1 DEF TypeOK
  <2>3. calls'[c].op = "validate" /\ calls'[c].pc = "done"
    BY <1>0, <2>1 DEF TypeOK, NoCall
  <2> QED
    BY <1>17, <2>2, <2>3, StartStep DEF Validate
<1>18. CASE ValidateToken(c) \/ OpsValidateToken(c)
  BY <1>17, <1>18 DEF ValidateToken, OpsValidateToken
<1> QED
  BY <1>0, <1>1, <1>2, <1>3, <1>4, <1>5, <1>6, <1>7, <1>8, <1>9, <1>10, <1>11, <1>12, <1>13,
     <1>14, <1>15, <1>16, <1>18 DEF Handler

\* Nor do the clock and the operator disturb it: an account that is suspended keeps
\* its name and address, and what has expired stays expired.
LEMMA UserStep ==
    ASSUME UserInv, [Next]_vars
    PROVE  UserInv'
<1> USE DEF UserInv, RequestInv
<1>1. TypeOK'
  BY TypeStep
<1>2. CASE Tick \/ Suspend \/ UNCHANGED vars
  <2>1. UNCHANGED <<calls, sessions, drawn>>
    BY <1>2 DEF Tick, Suspend, vars
  <2>2. CallsWellFormed' /\ TokensUnique'
    BY <2>1 DEF CallsWellFormed, TokensUnique, Created
  <2>3. \A t, x : CreatedFor(t, x)' <=> CreatedFor(t, x)
    BY <2>1 DEF CreatedFor, Created
  <2>4. \A c \in Calls : calls[c].expires \in Nat
    BY DEF TypeOK, CallRecords
  <2>5. now \in Nat /\ now' \in Nat /\ now <= now'
    BY <1>1, <1>2 DEF Tick, Suspend, vars, TypeOK
  <2>6. ExpiryFixed'
    BY <2>1, <2>3, <2>4, <2>5 DEF ExpiryFixed
  <2>7. \A u \in users : \E v \in users' : v.name = u.name /\ v.email = u.email
    <3>1. CASE Suspend
      <4>1. PICK w \in users : users' = (users \ {w}) \cup {[w EXCEPT !.active = FALSE]}
        BY <3>1 DEF Suspend
      <4>2. w \in UserRows
        BY DEF TypeOK
      <4>3. [w EXCEPT !.active = FALSE].name = w.name /\ [w EXCEPT !.active = FALSE].email = w.email
        BY <4>2 DEF UserRows
      <4> QED
        BY <4>1, <4>3
    <3>2. CASE Tick \/ UNCHANGED vars
      BY <3>2 DEF Tick, vars
    <3> QED
      BY <1>2, <3>1, <3>2
  <2>8. RegisteredOnce'
    BY <2>1, <2>7, RegisteredStep DEF Registered
  <2> QED
    BY <1>1, <2>2, <2>6, <2>8
<1>3. ASSUME NEW c \in Calls, Handler(c) PROVE UserInv'
  BY <1>3, HandlerStep DEF UserInv
<1> QED
  BY <1>2, <1>3 DEF Next

\* The invariant holds for any number of concurrent requests.
THEOREM UserInvariant == Spec => []UserInv
<1>1. Init => UserInv
  <2> SUFFICES ASSUME Init PROVE UserInv
    OBVIOUS
  <2> USE DEF Init
  <2>1. TypeOK
    BY NoCallType, InitialRowsOK, ConstantsOK DEF TypeOK
  <2>2. \A c \in Calls : calls[c].op = "none" /\ calls[c].pc = "idle" /\ calls[c].answer = "none"
    BY DEF NoCall
  <2>3. RequestInv
    BY <2>2 DEF RequestInv, CallsWellFormed, TokensUnique, ExpiryFixed, RegisteredOnce, Created
  <2> QED
    BY <2>1, <2>3 DEF UserInv
<1>2. UserInv /\ [Next]_vars => UserInv'
  BY UserStep
<1> QED
  BY <1>1, <1>2, PTL DEF Spec

\* A step of one request leaves the others alone.
LEMMA OthersUntouched ==
    ASSUME TypeOK, NEW c \in Calls, Handler(c), NEW d \in Calls, d # c
    PROVE  calls'[d] = calls[d]
<1> USE DEF TypeOK
<1>1. CASE Register(c) \/ Login(c)
  BY <1>1 DEF Register, Login, Allow
<1>2. CASE BadRequest(c) \/ UsernameExists(c) \/ EmailExists(c) \/ CreateUser(c)
  BY <1>2 DEF BadRequest, UsernameExists, EmailExists, CreateUser, Answer, Goto
<1>3. CASE GetByUsername(c) \/ CreateSession(c) \/ UpdateLastLogin(c)
  BY <1>3 DEF GetByUsername, CreateSession, UpdateLastLogin, Answer, Goto
<1>4. CASE Logout(c) \/ DeleteByToken(c) \/ RefreshToken(c) \/ GetBySessionID(c)
  BY <1>4 DEF Logout, DeleteByToken, RefreshToken, GetBySessionID, Answer
<1>5. CASE DeleteExpiredSession(c) \/ GetByID(c) \/ UpdateSession(c)
  BY <1>5 DEF DeleteExpiredSession, GetByID, UpdateSession, Answer
<1>6. CASE ValidateToken(c) \/ OpsValidateToken(c)
  BY <1>6 DEF ValidateToken, OpsValidateToken, Validate
<1> QED
  BY <1>1, <1>2, <1>3, <1>4, <1>5, <1>6 DEF Handler

\* A login that has created its session has one statement left, which keeps its
\* refresh token.
LEMMA CreatedKeepsToken ==
    ASSUME UserInv, NEW c \in Calls, Handler(c), Created(c)
    PROVE  calls'[c].sid = calls[c].sid
<1>1. calls[c].op = "login" /\ calls[c].pc \in {"last login", "done"}
  BY DEF UserInv, RequestInv, CallsWellFormed, Created
<1>2. UpdateLastLogin(c)
  BY <1>1 DEF Handler, At, Register, BadRequest, UsernameExists, EmailExists, CreateUser, Login,
     GetByUsername, CreateSession, Logout, DeleteByToken, RefreshToken, GetBySessionID,
     DeleteExpiredSession, GetByID, UpdateSession, ValidateToken, OpsValidateToken, Validate
<1> QED
  BY <1>2, AnswerMoves, Labels DEF UpdateLastLogin, UserInv, Moves

-----------------------------------------------------------------------------
(* The properties of UserService.                                          *)

\* Registrations that are answered "ok" differ in name and address and have their
\* accounts, although UsernameExists, EmailExists and Create of several interleave.
THEOREM RegisteredOnlyOnce == Spec => []RegisteredOnce
<1>1. UserInv => RegisteredOnce
  BY DEF UserInv, RequestInv
<1> QED
  BY <1>1, UserInvariant, PTL

\* Every session row belongs to a login that succeeded or is about to.
THEOREM SessionsAlwaysOwned == Spec => []SessionsHaveOwners
<1>1. UserInv => SessionsHaveOwners
  BY DEF UserInv, RequestInv, ExpiryFixed, CreatedFor, Created, SessionsHaveOwners
<1> QED
  BY <1>1, UserInvariant, PTL

\* A session that has been ended is never written again, although RefreshToken writes
\* back a row it read several statements ago: a login whose session is gone keeps it
\* gone, since no other login has its refresh token.
THEOREM SessionsStayEnded == Spec => NoSessionRevived
<1>1. ASSUME UserInv, [Next]_vars, NEW c \in Calls, Created(c), SessionById(calls[c].sid) = {}
      PROVE  SessionById(calls[c].sid)' = {}
  <2> USE DEF UserInv, RequestInv
  <2>1. calls[c].sid \in drawn /\ calls[c].sid # NoSid
    BY <1>1, ConstantsOK DEF TokensUnique, TypeOK
  <2>2. \A r \in sessions : r.sid # calls[c].sid
    BY <1>1 DEF SessionById
  <2>3. calls'[c].sid = calls[c].sid
    <3>1. ASSUME NEW d \in Calls, Handler(d) PROVE calls'[c].sid = calls[c].sid
      <4>1. CASE d # c
        BY <1>1, <3>1, <4>1, OthersUntouched
      <4>2. CASE d = c
        <5>1. Handler(c)
          BY <3>1, <4>2
        <5> QED
          BY <1>1, <5>1, CreatedKeepsToken
      <4> QED
        BY <4>1, <4>2
    <3> QED
      BY <1>1, <3>1 DEF Next, Tick, Suspend, vars
  <2>4. \A r \in sessions' : r.sid # calls[c].sid
    <3>1. ASSUME NEW d \in Calls, CreateSession(d) PROVE \A r \in sessions' : r.sid # calls[c].sid
      <4>1. calls[d].sid # calls[c].sid
        <5>1. calls[d].op = "login" /\ calls[d].pc = "session" /\ calls[d].answer = "none"
          BY <1>1, <3>1 DEF CreateSession, At, CallsWellFormed
        <5>2. calls[c].op = "login" /\ c # d
          BY <1>1, <5>1 DEF Created
        <5> QED
          BY <1>1, <2>1, <5>1, <5>2 DEF TokensUnique
      <4>2. \A r \in sessions' : r \in sessions \/ r.sid = calls[d].sid
        <5> DEFINE row == [sid |-> calls[d].sid, uid |-> calls[d].uid,
                           token |-> calls[d].token, expires |-> calls[d].expires]
        <5>1. sessions' = sessions \/ sessions' = sessions \cup {row}
          BY <3>1 DEF CreateSession, InsertSession
        <5>2. row.sid = calls[d].sid
          OBVIOUS
        <5> HIDE DEF row
        <5> QED
          BY <5>1, <5>2
      <4> QED
        BY <2>2, <4>1, <4>2
    <3>2. \/ sessions' \subseteq sessions
          \/ \E d \in Calls : CreateSession(d)
          \/ \E d \in Calls : UpdateSession(d)
      BY <1>1 DEF Next, vars, Tick, Suspend, Handler, Register, BadRequest, UsernameExists,
         EmailExists, CreateUser, Login, GetByUsername, UpdateLastLogin, Logout, DeleteByToken,
         DeletedByToken, RefreshToken, GetBySessionID, DeleteExpiredSession, DeletedById, GetByID,
         ValidateToken, OpsValidateToken, Validate
    <3>3. ASSUME NEW d \in Calls, UpdateSession(d)
          PROVE  \A r \in sessions' : \E r0 \in sessions : r0.sid = r.sid
      BY <3>3 DEF UpdateSession, UpdatedSession, SessionById
    <3> QED
      BY <2>2, <3>1, <3>2, <3>3
  <2> QED
    BY <2>3, <2>4 DEF SessionById
<1>2. UserInv /\ [Next]_vars =>
        [\A c \in Calls :
           /\ calls[c].op = "login"
           /\ calls[c].pc = "last login" \/ calls[c].answer = "ok"
           /\ SessionById(calls[c].sid) = {}
           => SessionById(calls[c].sid)' = {}]_vars
  BY <1>1 DEF Created
<1> QED
  BY <1>2, UserInvariant, PTL DEF Spec, NoSessionRevived

\* A session ends by a Logout with the token its row holds at that moment, or after
\* its expiry: what a RefreshToken has read of the expiry is not out of date when it
\* deletes the row, since no statement changes the expiry of a session.
THEOREM SessionsEndRightly == Spec => SessionEndsRightly
<1>1. ASSUME UserInv, [Next]_vars, NEW r \in sessions, SessionById(r.sid)' = {}
      PROVE  \/ \E c \in Calls : At(c, "logout", "delete") /\ calls[c].token = r.token
             \/ r.expires <= now
  <2> USE DEF UserInv, RequestInv
  <2>1. r \notin sessions' /\ \A r2 \in sessions' : r2.sid # r.sid
    BY <1>1 DEF SessionById
  <2>2. \/ r \in sessions'
        \/ \E c \in Calls : DeleteByToken(c) \/ DeleteExpiredSession(c) \/ UpdateSession(c)
    BY <1>1 DEF Next, vars, Tick, Suspend, Handler, Register, BadRequest, UsernameExists,
       EmailExists, CreateUser, Login, GetByUsername, CreateSession, InsertSession,
       UpdateLastLogin, Logout, RefreshToken, GetBySessionID, GetByID,
       ValidateToken, OpsValidateToken, Validate
  <2>3. ASSUME NEW c \in Calls, DeleteByToken(c)
        PROVE  At(c, "logout", "delete") /\ calls[c].token = r.token
    BY <2>1, <2>3 DEF DeleteByToken, DeletedByToken
  <2>4. ASSUME NEW c \in Calls, DeleteExpiredSession(c) PROVE r.expires <= now
    <3>1. At(c, "refresh", "expired") /\ r.sid = calls[c].sid
      BY <2>1, <2>4 DEF DeleteExpiredSession, DeletedById, SessionById
    <3>2. PICK d \in Calls : Created(d) /\ calls[d].sid = r.sid /\ calls[d].expires = r.expires
      BY <1>1 DEF ExpiryFixed, CreatedFor
    <3>3. PICK e \in Calls : Created(e) /\ calls[e].sid = r.sid
                             /\ calls[e].expires = calls[c].expires
      BY <1>1, <3>1 DEF ExpiryFixed, CreatedFor, At
    <3>4. r.sid # NoSid
      BY <1>1, ConstantsOK DEF TypeOK, SessionRows
    <3>5. d = e
      BY <1>1, <3>2, <3>3, <3>4 DEF TokensUnique, Created
    <3> QED
      BY <1>1, <3>1, <3>2, <3>3, <3>5 DEF ExpiryFixed, At
  <2>5. ASSUME NEW c \in Calls, UpdateSession(c) PROVE FALSE
    BY <2>1, <2>5 DEF UpdateSession, UpdatedSession, SessionById
  <2> QED
    BY <2>1, <2>2, <2>3, <2>4, <2>5
<1>2. UserInv /\ [Next]_vars =>
        [\A r \in sessions : SessionById(r.sid)' = {} =>
           \/ \E c \in Calls : At(c, "logout", "delete") /\ calls[c].token = r.token
           \/ r.expires <= now]_vars
  BY <1>1
<1> QED
  BY <1>2, UserInvariant, PTL DEF Spec, SessionEndsRightly
=============================================================================
