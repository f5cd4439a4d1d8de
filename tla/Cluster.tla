------------------------------ MODULE Cluster ------------------------------
(***************************************************************************)
(* The multi-process deployment: a gateway, GMS and several instances of   *)
(* GS, which talk by gRPC.  It differs from the monolith (BettingService)  *)
(* in what the adapters do:                                                *)
(*                                                                         *)
(*  - the gateway sends every command to a random GS instance, and every   *)
(*    instance has its own bet repository and its own wallet;              *)
(*  - a remote call can fail before or after it took effect;               *)
(*  - the gRPC handlers of GMS and GS report failures as an error code in  *)
(*    a response whose Go error is nil; the gateway looks at the code,     *)
(*    PlaceBet does not;                                                   *)
(*  - RoundResult reaches one instance, and only that one settles.  Its    *)
(*    goroutine outlives the call: nothing it does looks at the context    *)
(*    of the call (the insert has one of its own, the repository and the   *)
(*    wallet of a GS process ignore theirs).                               *)
(*                                                                         *)
(* The commands of a player arrive on one WebSocket and are handled one    *)
(* after the other.  A request stands for one command; the bet it may      *)
(* create has the request as its BetID.  Stakes are not counted here:      *)
(* BettingService does that.                                               *)
(*                                                                         *)
(* Definitions whose name starts with Bug are faulty variants of the       *)
(* definition that follows them; no specification uses them.               *)
(***************************************************************************)
EXTENDS RoundClock, FiniteSets

CONSTANTS Users, Requests, Instances,
          NoBet, NoInstance,
          Faults       \* which failures occur: "rpc", "order", "crash"

ASSUME ClusterNames == NoBet \notin Requests /\ NoInstance \notin Instances

VARIABLES
    up,        \* the GS instances that run
    req,       \* req[q]: the request q, see NoRequest
    shown,     \* shown[q]: the bets in the response to a GetState request
    counted,   \* the bets GMS has counted
    bets,      \* bets[i][r]: the bets instance i holds for round r
    queue,     \* queue[i][r]: its settlement queue
    settle,    \* settle[r]: the SettleRound call of round r
    stored,    \* the bets with a row in bet_orders
    paid       \* the bets whose payout was deposited

vars == <<clockVars, up, req, shown, counted, bets, queue, settle, stored, paid>>

\* The empty round ID is 0: GetCurrentRound returns it when no round runs.
RoundIds == 0 .. MaxRounds
Kinds == {"bet", "state"}     \* what a player asks for; an operator: "ops"

\* kind, user, color: the command; at: the instance that serves it; rid: the
\* round it was told; into: the bet its stake went into; code: what GS
\* answered; reply: what the gateway wrote to the player.
NoRequest == [pc |-> "idle", kind |-> "bet", user |-> NoBet, color |-> NoColor,
              at |-> NoInstance, rid |-> 0, found |-> NoBet, into |-> NoBet,
              code |-> "none", reply |-> "none"]

NoSettlement == [pc |-> "idle", at |-> NoInstance, held |-> {}]

Init ==
    /\ ClockInit
    /\ up = Instances
    /\ req = [q \in Requests |-> NoRequest]
    /\ shown = [q \in Requests |-> {}]
    /\ counted = {}
    /\ bets = [i \in Instances |-> [r \in RoundIds |-> {}]]
    /\ queue = [i \in Instances |-> [r \in RoundIds |-> {}]]
    /\ settle = [r \in Rounds |-> NoSettlement]
    /\ stored = {} /\ paid = {}

repoVars == <<bets, queue>>
settleVars == <<settle, stored, paid>>

-----------------------------------------------------------------------------
(* The gateway.                                                            *)

At(q, l) == req[q].pc = l
Unanswered(q) == req[q].pc # "idle" /\ req[q].reply = "none"
Busy(u) == \E p \in Requests : req[p].user = u /\ req[p].kind \in Kinds /\ Unanswered(p)

\* GetLBConn picks one of the instances at random.
GetLBConn == up

\* A remote call has the outcome ok, or its connection or its answer is lost.
Remote(ok, lost) == ok \/ ("rpc" \in Faults /\ lost)

\* The gateway gets the answer of GS, unless it has given up on it.  What is over
\* and has made no bet is forgotten but for its answer.
Tell(q, r) ==
    LET over == IF req[q].into = NoBet THEN [NoRequest EXCEPT !.kind = req[q].kind]
                                       ELSE [req[q] EXCEPT !.code = "none"] IN
    req' = [req EXCEPT ![q] = [over EXCEPT !.pc = "done",
                                 !.reply = IF Unanswered(q) THEN r ELSE req[q].reply]]

Refused == [NoRequest EXCEPT !.pc = "done", !.reply = "error"]

\* Client.PlaceBet and Client.GetState: an instance starts to serve the command,
\* or there is none.
CallGS(q, cmd) ==
    LET started(i) == [cmd EXCEPT !.pc = "started", !.at = i] IN
    \/ Remote(\E i \in GetLBConn : req' = [req EXCEPT ![q] = started(i)],
              req' = [req EXCEPT ![q] = Refused])
    \/ GetLBConn = {} /\ req' = [req EXCEPT ![q] = Refused]

\* HandleMessage takes the next command of player u.  A message that is not a
\* command, or a bet on something that is no colour, is answered at once; the
\* colour enumeration also has a value of its own for "none".
HandleMessage(q) ==
    /\ At(q, "idle")
    /\ \/ \E u \in Users, c \in Colors \cup {NoColor}, k \in Kinds :
            /\ ~Busy(u) /\ (k = "state" => c = NoColor)
            /\ CallGS(q, [NoRequest EXCEPT !.kind = k, !.user = u, !.color = c])
       \/ req' = [req EXCEPT ![q] = Refused]
    /\ UNCHANGED <<clockVars, up, shown, counted, repoVars, settleVars>>

\* GetState through the ops centre, for any player.
OpsGetState(u) == [NoRequest EXCEPT !.kind = "ops", !.user = u]

\* handleGenericCall: the operator waits for at most five seconds (Disconnect).  A
\* method or project that is not known is refused; the other methods do not concern
\* the state kept here.
GenericCall(q) ==
    /\ At(q, "idle")
    /\ \/ \E u \in Users : CallGS(q, OpsGetState(u))
       \/ req' = [req EXCEPT ![q] = Refused]
    /\ UNCHANGED <<clockVars, up, shown, counted, repoVars, settleVars>>

BugPlaceBetReply(q) ==
    /\ At(q, "returned") /\ req[q].kind = "bet"
    /\ Tell(q, "ok")
    /\ UNCHANGED <<clockVars, up, shown, counted, repoVars, settleVars>>

\* The reply to a bet is an error if the call failed or if the response
\* carries an error code.
PlaceBetReply(q) ==
    /\ At(q, "returned") /\ req[q].kind = "bet"
    /\ Tell(q, req[q].code)
    /\ UNCHANGED <<clockVars, up, shown, counted, repoVars, settleVars>>

\* The reply to GetState does not look at the code: after an error it shows
\* a state without bets.  The ops centre shows the response as it is.
GetStateReply(q) ==
    /\ At(q, "returned") /\ req[q].kind # "bet"
    /\ Tell(q, "ok")
    /\ shown' = [shown EXCEPT ![q] = {}]
    /\ UNCHANGED <<clockVars, up, counted, repoVars, settleVars>>

\* The connection breaks, or the time is up, during the call: the caller is told of an error and may
\* go on, while the instance goes on serving.
Disconnect(q) ==
    /\ "rpc" \in Faults /\ Unanswered(q)
    /\ req' = [req EXCEPT ![q].reply = "error"]
    /\ UNCHANGED <<clockVars, up, shown, counted, repoVars, settleVars>>

-----------------------------------------------------------------------------
(* PlaceBet and GetState in a GS instance.                                 *)

Return(q, c) == req' = [req EXCEPT ![q].pc = "returned", ![q].code = c]

\* What GMS answers: without a round an error code with an empty round ID.
CurrentRound == id

\* GetCurrentRound of GMS; the caller does not look at the code.  PlaceBet
\* then checks the colour and deducts the stake from the instance's own
\* wallet, which never refuses.
GetCurrentRound(q) ==
    LET next == IF req[q].kind # "bet" THEN "read"
                ELSE IF req[q].color \in Colors THEN "debited" ELSE "returned" IN
    /\ At(q, "started")
    /\ Remote(req' = [req EXCEPT ![q].pc = next, ![q].rid = CurrentRound,
                                 ![q].code = IF next = "returned" THEN "error" ELSE @],
              Return(q, "error"))
    /\ UNCHANGED <<clockVars, up, shown, counted, repoVars, settleVars>>

\* GMS counts the bet if its round takes bets, else answers an error code.
Count(q) == counted' = IF Accepting(req[q].rid) THEN counted \cup {q} ELSE counted

BugRecordBet(q) ==
    /\ At(q, "debited")
    /\ \/ /\ Accepting(req[q].rid)
          /\ counted' = counted \cup {q}
          /\ req' = [req EXCEPT ![q].pc = "recorded"]
       \/ /\ ~Accepting(req[q].rid)
          /\ req' = [req EXCEPT ![q].pc = "started"]
          /\ UNCHANGED counted
    /\ UNCHANGED <<clockVars, up, shown, repoVars, settleVars>>

\* RecordBet of GMS.  PlaceBet does not look at the code: only a call that
\* fails, executed or not, ends the request.
RecordBet(q) ==
    /\ At(q, "debited")
    /\ Remote(/\ Count(q)
              /\ Remote(req' = [req EXCEPT ![q].pc = "recorded"], Return(q, "error")),
              Return(q, "error") /\ UNCHANGED counted)
    /\ UNCHANGED <<clockVars, up, shown, repoVars, settleVars>>

SameArea(q, b) == req[b].user = req[q].user /\ req[b].color = req[q].color

GetUserBet(q) ==
    LET mine == {b \in bets[req[q].at][req[q].rid] : SameArea(q, b)} IN
    /\ At(q, "recorded")
    /\ \E f \in IF mine = {} THEN {NoBet} ELSE mine :
         req' = [req EXCEPT ![q].pc = "looked", ![q].found = f]
    /\ UNCHANGED <<clockVars, up, shown, counted, repoVars, settleVars>>

\* UpdateBetAmount of the bet found, or SaveBet of a new one.
SaveBet(q) ==
    LET i == req[q].at
        b == IF req[q].found = NoBet THEN q ELSE req[q].found
        add(t) == IF b = q THEN [t EXCEPT ![i][req[q].rid] = @ \cup {q}] ELSE t IN
    /\ At(q, "looked")
    /\ bets' = add(bets) /\ queue' = add(queue)
    /\ req' = [req EXCEPT ![q].pc = "returned", ![q].code = "ok", ![q].into = b,
                         ![q].found = NoBet]
    /\ UNCHANGED <<clockVars, up, shown, counted, settleVars>>

\* The bets of user u in round r that instance i holds.
UserBets(i, r, u) == {b \in bets[i][r] : req[b].user = u}

\* The response of GetState carries the state; after an error it has none.
ReturnState(q, c, seen) ==
    /\ shown' = [shown EXCEPT ![q] = seen]
    /\ Return(q, c)

\* GetState: the player's bets of the round, as this instance knows them.
GetUserBets(q) ==
    /\ At(q, "read")
    /\ ReturnState(q, "ok", UserBets(req[q].at, req[q].rid, req[q].user))
    /\ UNCHANGED <<clockVars, up, counted, repoVars, settleVars>>

-----------------------------------------------------------------------------
(* The settlement.                                                         *)

\* GMS calls RoundResult on a random instance, once; a failed call is logged.
RoundResult(r) ==
    /\ TellGS(r)
    /\ \/ Remote(\E i \in GetLBConn : settle' = [settle EXCEPT ![r].pc = "pop", ![r].at = i],
                 UNCHANGED settle)
       \/ GetLBConn = {} /\ UNCHANGED settle
    /\ UNCHANGED <<up, req, shown, counted, repoVars, stored, paid>>

BugGetBetsForSettlement(r) ==
    LET i == settle[r].at IN
    /\ settle[r].pc = "pop"
    /\ settle' = [settle EXCEPT ![r].pc = IF queue[i][r] = {} THEN "clear" ELSE "persist",
                                ![r].held = queue[i][r]]
    /\ queue' = [queue EXCEPT ![i][r] = {}]
    /\ bets' = [bets EXCEPT ![i][r] = @ \ queue[i][r]]
    /\ UNCHANGED <<clockVars, up, req, shown, counted, stored, paid>>

GetBetsForSettlement(r) ==
    LET i == settle[r].at IN
    /\ settle[r].pc = "pop"
    /\ settle' = [settle EXCEPT ![r].pc = IF queue[i][r] = {} THEN "clear" ELSE "persist",
                                ![r].held = queue[i][r]]
    /\ queue' = [queue EXCEPT ![i][r] = {}]
    /\ UNCHANGED <<clockVars, up, req, shown, counted, bets, stored, paid>>

Ended(r, how) == [NoSettlement EXCEPT !.pc = how, !.at = settle[r].at]

BugBatchCreate(r) ==
    /\ settle[r].pc = "persist"
    /\ settle' = [settle EXCEPT ![r].pc = "pay"]
    /\ stored' = stored \cup settle[r].held \/ ("order" \in Faults /\ UNCHANGED stored)
    /\ UNCHANGED <<clockVars, up, req, shown, counted, repoVars, paid>>

\* When the insert fails SettleRound returns, and what it has popped is gone.
BatchCreate(r) ==
    /\ settle[r].pc = "persist"
    /\ \/ /\ settle' = [settle EXCEPT ![r].pc = "pay"]
          /\ stored' = stored \cup settle[r].held
       \/ /\ "order" \in Faults
          /\ settle' = [settle EXCEPT ![r] = Ended(r, "failed")]
          /\ UNCHANGED stored
    /\ UNCHANGED <<clockVars, up, req, shown, counted, repoVars, paid>>

\* AddBalance of the instance's wallet for the winners of the batch; the
\* notices go to all gateways with a context of their own.
AddBalance(r) ==
    /\ settle[r].pc = "pay"
    /\ paid' = paid \cup {b \in settle[r].held : req[b].color = told[r][1]}
    /\ settle' = [settle EXCEPT ![r].pc = "pop", ![r].held = {}]
    /\ UNCHANGED <<clockVars, up, req, shown, counted, repoVars, stored>>

ClearBets(r) ==
    LET i == settle[r].at IN
    /\ settle[r].pc = "clear"
    /\ settle' = [settle EXCEPT ![r] = Ended(r, "done")]
    /\ bets' = [bets EXCEPT ![i][r] = {}]
    /\ queue' = [queue EXCEPT ![i][r] = {}]
    /\ UNCHANGED <<clockVars, up, req, shown, counted, stored, paid>>

-----------------------------------------------------------------------------
(* An instance dies: calls it serves fail, its settlements and everything  *)
(* in its memory are gone.                                                 *)
Crash(i) ==
    /\ "crash" \in Faults /\ i \in up
    /\ up' = up \ {i}
    /\ req' = [q \in Requests |->
         IF req[q].at = i /\ req[q].pc \notin {"idle", "done"}
         THEN [req[q] EXCEPT !.pc = "done", !.reply = "error"] ELSE req[q]]
    /\ settle' = [r \in Rounds |->
         IF settle[r].at = i /\ settle[r].pc # "done" THEN Ended(r, "failed") ELSE settle[r]]
    /\ bets' = [bets EXCEPT ![i] = [r \in RoundIds |-> {}]]
    /\ queue' = [queue EXCEPT ![i] = [r \in RoundIds |-> {}]]
    /\ UNCHANGED <<clockVars, shown, counted, stored, paid>>

Tick == ClockStep /\ UNCHANGED <<up, req, shown, counted, repoVars, settleVars>>

Serve(q) == GetCurrentRound(q) \/ RecordBet(q) \/ GetUserBet(q) \/ SaveBet(q)
            \/ GetUserBets(q) \/ PlaceBetReply(q) \/ GetStateReply(q)

Settle(r) == GetBetsForSettlement(r) \/ BatchCreate(r) \/ AddBalance(r) \/ ClearBets(r)

Next == \/ Tick
        \/ \E q \in Requests : HandleMessage(q) \/ GenericCall(q) \/ Disconnect(q) \/ Serve(q)
        \/ \E r \in Rounds : RoundResult(r) \/ Settle(r)
        \/ \E i \in Instances : Crash(i)

\* A request in progress is a goroutine that nothing blocks for ever.
Fairness == \A q \in Requests : WF_vars(Serve(q))

Spec == Init /\ [][Next]_vars
FairSpec == Spec /\ Fairness

-----------------------------------------------------------------------------
(* Properties.                                                             *)

\* A player who is told that a bet succeeded has one: the stake went into a
\* bet of the player on that area and in that round, at the instance that
\* served the command.
SuccessHasBet ==
    \A q \in Requests : req[q].kind = "bet" /\ req[q].reply = "ok" =>
        /\ req[q].into # NoBet
        /\ SameArea(q, req[q].into)
        /\ req[req[q].into].at = req[q].at /\ req[req[q].into].rid = req[q].rid

\* Nobody is paid for a bet whose order is not in the database, although the
\* insert may fail and the instance may die between any two steps; and the orders
\* of a round are those of bets made at the one instance that was told its result.
PayoutsPersisted ==
    /\ paid \subseteq stored
    /\ \A b \in stored : req[b].rid # 0 /\ settle[req[b].rid].at = req[b].at

\* Whoever asks for a player's state after a bet was confirmed is shown the bet, if the same instance answers, the round is still that of the bet and its
\* settlement has not cleared the repository.
ReadYourWrites ==
    [][\A q, b \in Requests :
         /\ req[q].pc = "read" /\ req'[q].pc = "returned" /\ req'[q].code = "ok"
         /\ req[b].kind = "bet" /\ req[b].reply = "ok"
         /\ req[b].user = req[q].user /\ req[b].at = req[q].at /\ req[b].rid = req[q].rid
         /\ \A r \in Rounds : r = req[b].rid /\ settle[r].at = req[b].at => settle[r].pc # "done"
         => req[b].into \in shown'[q]]_vars

\* Every command of a player is answered, whatever fails: the read pump of
\* its connection waits for the answer.
RequestsAnswered ==
    \A q \in Requests : req[q].pc \notin {"idle", "done"} ~> req[q].pc = "done"

\* What the documentation says of PlaceBet: GMS decides whether the round
\* takes bets, so a bet that is kept was accepted by GMS.
BetsAcceptedByGMS ==
    \A i \in Instances, r \in Rounds : queue[i][r] \subseteq counted
=============================================================================
