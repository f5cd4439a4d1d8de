---------------------------- MODULE UserService ----------------------------
(***************************************************************************)
(* The user module: accounts, logins and sessions.                         *)
(*                                                                         *)
(* A request is a goroutine of gin or of gRPC.  It passes the HTTP         *)
(* handler's rate limiter, then runs the use case one database statement   *)
(* per step, so that the statements of several requests interleave and the *)
(* clock may advance between them.  The tables `users' and `sessions' are  *)
(* sets of rows.                                                           *)
(*                                                                         *)
(* A JWT is a signed [uid, exp]: expiry has the resolution of a second, so *)
(* two tokens made for one user in one second are the same string.  A      *)
(* password is right or wrong.  Names, e-mail addresses and refresh tokens *)
(* (= session IDs, 32 random bytes that never repeat) are model values.    *)
(*                                                                         *)
(* Definitions whose name starts with Bug are faulty variants of the       *)
(* definition that follows them; no specification uses them.               *)
(***************************************************************************)
EXTENDS Naturals, FiniteSets

CONSTANTS
    Names, Emails,     \* what registrations ask for
    SessionIds,        \* the refresh tokens that can be drawn
    Calls,             \* the requests of a behaviour
    NoName, NoEmail, NoSid,
    TokenDuration,     \* JWT_DURATION, in seconds
    RefreshDuration,   \* the seven days a session outlives its token
    Burst, Rate,       \* of the token-bucket limiters
    MaxTime,           \* the clock stops here
    InitialRows,       \* what the users table may hold when the service starts
    Faults             \* which failures occur: "db", "rpc"

ASSUME ConstantsOK ==
    /\ {TokenDuration, RefreshDuration, Burst, Rate, MaxTime} \subseteq Nat
    /\ NoName \notin Names /\ NoEmail \notin Emails /\ NoSid \notin SessionIds
    /\ Burst > 0

UserRows == [uid : Nat, name : Names, email : Emails, active : BOOLEAN]

ASSUME InitialRowsOK == \A R \in InitialRows : R \subseteq UserRows /\ IsFiniteSet(R)

VARIABLES
    now,       \* the second the clock is in
    users,     \* rows [uid, name, email, active]
    sessions,  \* rows [sid, uid, token, expires]
    drawn,     \* the refresh tokens generated so far
    bucket,    \* bucket[op]: tokens left in the limiter of op
    calls      \* calls[c]: the request c

vars == <<now, users, sessions, drawn, bucket, calls>>

Min2(a, b) == IF a < b THEN a ELSE b

NoToken == [uid |-> 0, exp |-> 0]

NoCall == [op |-> "none", pc |-> "idle", name |-> NoName, email |-> NoEmail,
           pass |-> FALSE, sid |-> NoSid, uid |-> 0, token |-> NoToken,
           expires |-> 0, answer |-> "none"]

Limited == {"register", "login"}
Fails(f) == f \in Faults

Init ==
    /\ now = 0
    /\ users \in InitialRows
    /\ sessions = {}
    /\ drawn = {}
    /\ bucket = [op \in Limited |-> Burst]
    /\ calls = [c \in Calls |-> NoCall]

-----------------------------------------------------------------------------
(* The tables.                                                             *)

BugDuplicate(row) == \E r \in users : r.name = row.name /\ r.email = row.email

\* A row that would violate UNIQUE(username) or UNIQUE(email) is refused.
Duplicate(row) == \E r \in users : r.name = row.name \/ r.email = row.email

InsertUser(row) == users \cup {row}
UserByName(n) == {r \in users : r.name = n}
UserById(i) == {r \in users : r.uid = i}
IsActive(row) == row.active

SessionById(s) == {r \in sessions : r.sid = s}

InsertSession(row) == sessions \cup {row}

BugUpdatedSession(row) == (sessions \ SessionById(row.sid)) \cup {row}

\* Updates(map) by primary key: a row that is gone is not written again and
\* the statement still reports no error.
UpdatedSession(row) ==
    IF SessionById(row.sid) = {} THEN sessions
    ELSE (sessions \ SessionById(row.sid)) \cup {row}

DeletedById(s) == sessions \ SessionById(s)
DeletedByToken(t) == {r \in sessions : r.token # t}

\* ExpiresAt has nanoseconds: within its second both outcomes are possible.
MayHaveExpired(t) == now >= t
MayBeLive(t) == now <= t

generateToken(i) == [uid |-> i, exp |-> now + TokenDuration]

\* 32 random bytes: none that was drawn before.
generateRefreshToken == SessionIds \ drawn

-----------------------------------------------------------------------------
(* The steps of a request.                                                 *)

Goto(c, l) == calls' = [calls EXCEPT ![c].pc = l]
Answer(c, a) == calls' = [calls EXCEPT ![c].pc = "done", ![c].answer = a]
At(c, op, l) == calls[c].op = op /\ calls[c].pc = l

\* The limiter of the handler: a token is taken or the answer is 429.
Allow(c, op, call, first) ==
    \/ /\ bucket[op] > 0
       /\ bucket' = [bucket EXCEPT ![op] = @ - 1]
       /\ calls' = [calls EXCEPT ![c] = [call EXCEPT !.op = op, !.pc = first]]
    \/ /\ bucket[op] = 0
       /\ calls' = [calls EXCEPT ![c] =
            [call EXCEPT !.op = op, !.pc = "done", !.answer = "429"]]
       /\ UNCHANGED bucket

\* http.Handler.Register: limiter, binding of the body, the use case's own
\* validation; a body that does not bind is answered 400.
Register(c) ==
    /\ calls[c].op = "none"
    /\ \E n \in Names, e \in Emails :
         Allow(c, "register", [NoCall EXCEPT !.name = n, !.email = e], "username")
    /\ UNCHANGED <<now, users, sessions, drawn>>

BadRequest(c) ==
    /\ \E op \in Limited : At(c, op, IF op = "register" THEN "username" ELSE "user")
    /\ Answer(c, "400")
    /\ UNCHANGED <<now, users, sessions, drawn, bucket>>

UsernameExists(c) ==
    /\ At(c, "register", "username")
    /\ \/ Fails("db") /\ Answer(c, "500")
       \/ UserByName(calls[c].name) # {} /\ Answer(c, "username exists")
       \/ UserByName(calls[c].name) = {} /\ Goto(c, "email")
    /\ UNCHANGED <<now, users, sessions, drawn, bucket>>

EmailExists(c) ==
    /\ At(c, "register", "email")
    /\ LET taken == \E r \in users : r.email = calls[c].email IN
       \/ Fails("db") /\ Answer(c, "500")
       \/ taken /\ Answer(c, "500")
       \/ ~taken /\ Goto(c, "create")
    /\ UNCHANGED <<now, users, sessions, drawn, bucket>>

CreateUser(c) ==
    LET row == [uid |-> Cardinality(users) + 1, name |-> calls[c].name,
                email |-> calls[c].email, active |-> TRUE] IN
    /\ At(c, "register", "create")
    /\ \/ /\ Duplicate(row) \/ Fails("db")
          /\ Answer(c, "500")
          /\ UNCHANGED users
       \/ /\ ~Duplicate(row)
          /\ users' = InsertUser(row)
          /\ Answer(c, "ok")
    /\ UNCHANGED <<now, sessions, drawn, bucket>>

Login(c) ==
    /\ calls[c].op = "none"
    /\ \E n \in Names, right \in BOOLEAN :
         Allow(c, "login", [NoCall EXCEPT !.name = n, !.pass = right], "user")
    /\ UNCHANGED <<now, users, sessions, drawn>>

\* The account is read and checked, then both tokens are made.
GetByUsername(c) ==
    /\ At(c, "login", "user")
    /\ \/ /\ \/ Fails("db")
             \/ UserByName(calls[c].name) = {}
             \/ \E u \in UserByName(calls[c].name) : ~IsActive(u)
             \/ ~calls[c].pass
          /\ Answer(c, "401")
          /\ UNCHANGED drawn
       \/ \E u \in UserByName(calls[c].name), s \in generateRefreshToken :
            /\ IsActive(u) /\ calls[c].pass
            /\ drawn' = drawn \cup {s}
            /\ calls' = [calls EXCEPT ![c].pc = "session", ![c].uid = u.uid,
                             ![c].sid = s, ![c].token = generateToken(u.uid),
                             ![c].expires = now + TokenDuration + RefreshDuration]
    /\ UNCHANGED <<now, users, sessions, bucket>>

CreateSession(c) ==
    /\ At(c, "login", "session")
    /\ \/ Fails("db") /\ Answer(c, "401") /\ UNCHANGED sessions
       \/ /\ sessions' = InsertSession([sid |-> calls[c].sid, uid |-> calls[c].uid,
                            token |-> calls[c].token, expires |-> calls[c].expires])
          /\ Goto(c, "last login")
    /\ UNCHANGED <<now, users, drawn, bucket>>

BugUpdateLastLogin(c) ==
    /\ At(c, "login", "last login")
    /\ Answer(c, "ok") \/ (Fails("db") /\ Answer(c, "401"))
    /\ UNCHANGED <<now, users, sessions, drawn, bucket>>

\* The error of this statement is ignored.
UpdateLastLogin(c) ==
    /\ At(c, "login", "last login")
    /\ Answer(c, "ok")
    /\ UNCHANGED <<now, users, sessions, drawn, bucket>>

\* The tokens clients hold.
Handed == {calls[c].token : c \in {d \in Calls :
             calls[d].op \in {"login", "refresh"} /\ calls[d].answer = "ok"}}

Logout(c) ==
    /\ calls[c].op = "none"
    /\ \E t \in Handed :
         calls' = [calls EXCEPT ![c] = [NoCall EXCEPT !.op = "logout",
                                          !.pc = "delete", !.token = t]]
    /\ UNCHANGED <<now, users, sessions, drawn, bucket>>

DeleteByToken(c) ==
    /\ At(c, "logout", "delete")
    /\ \/ Fails("db") /\ Answer(c, "500") /\ UNCHANGED sessions
       \/ sessions' = DeletedByToken(calls[c].token) /\ Answer(c, "ok")
    /\ UNCHANGED <<now, users, drawn, bucket>>

RefreshToken(c) ==
    /\ calls[c].op = "none"
    /\ \E s \in drawn :
         calls' = [calls EXCEPT ![c] = [NoCall EXCEPT !.op = "refresh",
                                          !.pc = "get", !.sid = s]]
    /\ UNCHANGED <<now, users, sessions, drawn, bucket>>

GetBySessionID(c) ==
    /\ At(c, "refresh", "get")
    /\ \/ /\ Fails("db") \/ SessionById(calls[c].sid) = {}
          /\ Answer(c, "error")
       \/ \E r \in SessionById(calls[c].sid), l \in {"expired", "owner"} :
            /\ IF l = "expired" THEN MayHaveExpired(r.expires) ELSE MayBeLive(r.expires)
            /\ calls' = [calls EXCEPT ![c].pc = l, ![c].uid = r.uid,
                                      ![c].expires = r.expires]
    /\ UNCHANGED <<now, users, sessions, drawn, bucket>>

DeleteExpiredSession(c) ==
    /\ At(c, "refresh", "expired")
    /\ \/ Fails("db") /\ UNCHANGED sessions
       \/ sessions' = DeletedById(calls[c].sid)
    /\ Answer(c, "error")
    /\ UNCHANGED <<now, users, drawn, bucket>>

GetByID(c) ==
    /\ At(c, "refresh", "owner")
    /\ \/ /\ Fails("db") \/ \A u \in UserById(calls[c].uid) : ~IsActive(u)
          /\ Answer(c, "error")
       \/ /\ \E u \in UserById(calls[c].uid) : IsActive(u)
          /\ calls' = [calls EXCEPT ![c].pc = "update",
                                    ![c].token = generateToken(calls[c].uid)]
    /\ UNCHANGED <<now, users, sessions, drawn, bucket>>

BugUpdateSession(c) ==
    /\ At(c, "refresh", "update")
    /\ sessions' = UpdatedSession([sid |-> calls[c].sid, uid |-> calls[c].uid,
                      token |-> calls[c].token, expires |-> now + RefreshDuration])
    /\ Answer(c, "ok")
    /\ UNCHANGED <<now, users, drawn, bucket>>

\* The row is written back with the new token and the expiry that was read.
UpdateSession(c) ==
    /\ At(c, "refresh", "update")
    /\ \/ Fails("db") /\ Answer(c, "error") /\ UNCHANGED sessions
       \/ /\ sessions' = UpdatedSession([sid |-> calls[c].sid, uid |-> calls[c].uid,
                            token |-> calls[c].token, expires |-> calls[c].expires])
          /\ Answer(c, "ok")
    /\ UNCHANGED <<now, users, drawn, bucket>>

\* A token is valid in the seconds before its expiry; no table is read.
Unexpired(t) == now < t.exp

\* What a caller is told: the user of the token, or an error and no user.
Accepted(t) == [uid |-> t.uid, answer |-> "ok"]
Rejected == [uid |-> 0, answer |-> "error"]

\* The local adapter passes the verdict on.
LocalValidate(t) == {IF Unexpired(t) THEN Accepted(t) ELSE Rejected}

\* The gRPC adapter answers a bad token with a response that says so, without an
\* error of the call ...
ValidateTokenRsp(t) == IF Unexpired(t) THEN [valid |-> TRUE, uid |-> t.uid]
                                       ELSE [valid |-> FALSE, uid |-> 0]

\* ... which the client makes an error again, like a call that fails.
ClientValidate(t) ==
    {IF ValidateTokenRsp(t).valid THEN [Accepted(t) EXCEPT !.uid = ValidateTokenRsp(t).uid]
     ELSE Rejected}
    \cup {r \in {Rejected} : Fails("rpc")}

Validate(c, t, verdicts) ==
    /\ calls[c].op = "none"
    /\ \E v \in verdicts :
         calls' = [calls EXCEPT ![c] = [NoCall EXCEPT !.op = "validate", !.pc = "done",
                        !.token = t, !.uid = v.uid, !.answer = v.answer]]
    /\ UNCHANGED <<now, users, sessions, drawn, bucket>>

\* The gateway asks, before it upgrades a connection, one way or the other.
ValidateToken(c) == \E t \in Handed : Validate(c, t, LocalValidate(t) \cup ClientValidate(t))

\* ValidateToken of the ops centre; the token may be no token at all.
OpsValidateToken(c) == \E t \in Handed \cup {NoToken} : Validate(c, t, ClientValidate(t))

-----------------------------------------------------------------------------
(* The environment.                                                        *)

\* A second passes; the limiters refill up to their burst.
Tick ==
    /\ now < MaxTime
    /\ now' = now + 1
    /\ bucket' = [op \in Limited |-> Min2(Burst, bucket[op] + Rate)]
    /\ UNCHANGED <<users, sessions, drawn, calls>>

\* An operator changes the account's status in the database.
Suspend ==
    /\ \E u \in users :
         u.active /\ users' = (users \ {u}) \cup {[u EXCEPT !.active = FALSE]}
    /\ UNCHANGED <<now, sessions, drawn, bucket, calls>>

Handler(c) ==
    \/ Register(c) \/ BadRequest(c) \/ UsernameExists(c) \/ EmailExists(c) \/ CreateUser(c)
    \/ Login(c) \/ GetByUsername(c) \/ CreateSession(c) \/ UpdateLastLogin(c)
    \/ Logout(c) \/ DeleteByToken(c)
    \/ RefreshToken(c) \/ GetBySessionID(c) \/ DeleteExpiredSession(c)
    \/ GetByID(c) \/ UpdateSession(c)
    \/ ValidateToken(c) \/ OpsValidateToken(c)

Next == Tick \/ Suspend \/ \E c \in Calls : Handler(c)

Spec == Init /\ [][Next]_vars

-----------------------------------------------------------------------------
(* Properties.                                                             *)

\* UsernameExists, EmailExists and Create are three statements, so two
\* registrations may pass both checks together.  Nevertheless no two that
\* are answered "ok" share the name or the address, and each has its row.
RegisteredOnce ==
    LET Registered == {c \in Calls : calls[c].op = "register" /\ calls[c].answer = "ok"} IN
    /\ \A c, d \in Registered : c # d =>
         calls[c].name # calls[d].name /\ calls[c].email # calls[d].email
    /\ \A c \in Registered :
         \E u \in users : u.name = calls[c].name /\ u.email = calls[c].email

\* A Login that fails leaves no session behind, whichever of its statements
\* failed: the client of every session row was given its tokens, or is just
\* about to be.
SessionsHaveOwners ==
    \A r \in sessions : \E c \in Calls :
        /\ calls[c].op = "login" /\ calls[c].sid = r.sid
        /\ calls[c].pc = "last login" \/ calls[c].answer = "ok"

\* Once a session has been ended it stays ended, although a RefreshToken
\* that read the row earlier still writes it back.
NoSessionRevived ==
    [][\A c \in Calls :
         /\ calls[c].op = "login"
         /\ calls[c].pc = "last login" \/ calls[c].answer = "ok"
         /\ SessionById(calls[c].sid) = {}
         => SessionById(calls[c].sid)' = {}]_vars

\* A session ends only by a Logout that presents the token the row holds at
\* that moment, or after its expiry, although RefreshToken deletes on the
\* strength of an expiry it read before other requests wrote the row.
SessionEndsRightly ==
    [][\A r \in sessions : SessionById(r.sid)' = {} =>
         \/ \E c \in Calls : At(c, "logout", "delete") /\ calls[c].token = r.token
         \/ r.expires <= now]_vars
=============================================================================
