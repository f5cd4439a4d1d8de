--------------------------- MODULE ClusterProofs ---------------------------
(***************************************************************************)
(* Proofs about Cluster, for any instances, players, requests, colours and *)
(* rounds, and any faults: whoever is told of a success has a bet, payouts *)
(* are backed by stored orders of the one instance that settles the round, *)
(* and a confirmed bet is shown by the instance that holds it.             *)
(*                                                                         *)
(* The argument is that a request which has made a bet never changes but   *)
(* for its answer, that a repository holds only bets made at its instance  *)
(* and in their own round, and that a bet leaves the repository of a       *)
(* running instance only when the settlement of its round is done.         *)
(***************************************************************************)
EXTENDS Cluster, FiniteSetTheorems, TLAPS

USE DEF Rounds

-----------------------------------------------------------------------------
(* RoundClock: its types, and what GMS has pushed is final.                *)

\* The clock actions of RoundClock keep its variables in their domains.
LEMMA ClockType == ClockTypeOK /\ [ClockNext]_clockVars => ClockTypeOK'
<1> SUFFICES ASSUME ClockTypeOK, [ClockNext]_clockVars PROVE ClockTypeOK'
  OBVIOUS
<1> USE MaxRoundsAssumption DEF ClockTypeOK, Phases
<1>1. CASE NewRound
  BY <1>1 DEF NewRound
<1>2. CASE StartBetting
  BY <1>2 DEF StartBetting
<1>3. CASE BettingEnd
  BY <1>3 DEF BettingEnd
<1>4. CASE Draw
  BY <1>4 DEF Draw
<1>5. CASE ShowResult
  BY <1>5 DEF ShowResult
<1>6. ASSUME NEW r \in Rounds, TellGS(r) PROVE ClockTypeOK'
  <2>1. results[r] \in Colors \cup {NoColor}
    OBVIOUS
  <2>2. <<results[r]>> \in Seq(Colors \cup {NoColor})
    BY <2>1
  <2>3. told' \in [Rounds -> Seq(Colors \cup {NoColor})]
    BY <1>6, <2>2 DEF TellGS
  <2> QED
    BY <1>6, <2>3 DEF TellGS
<1>7. CASE UNCHANGED clockVars
  BY <1>7 DEF clockVars
<1> QED
  BY <1>1, <1>2, <1>3, <1>4, <1>5, <1>6, <1>7 DEF ClockNext, ClockStep

\* What GMS has pushed for a round is never pushed again.
LEMMA ToldStays ==
    ASSUME ClockTypeOK, [ClockNext]_clockVars, NEW r \in Rounds, told[r] # <<>>
    PROVE  told'[r] = told[r]
<1> USE DEF ClockTypeOK
<1>1. CASE ClockStep
  BY <1>1 DEF ClockStep, NewRound, StartBetting, BettingEnd, ShowResult, Draw
<1>2. ASSUME NEW r2 \in Rounds, TellGS(r2) PROVE told'[r] = told[r]
  BY <1>2 DEF TellGS
<1>3. CASE UNCHANGED clockVars
  BY <1>3 DEF clockVars
<1> QED
  BY <1>1, <1>2, <1>3 DEF ClockNext

-----------------------------------------------------------------------------
(* The cluster.                                                            *)

Codes == {"none", "ok", "error"}

Pcs == {"idle", "started", "debited", "recorded", "looked", "read", "returned", "done"}

ReqRecords ==
    [pc : Pcs, kind : Kinds \cup {"ops"}, user : Users \cup {NoBet},
     color : Colors \cup {NoColor}, at : Instances \cup {NoInstance}, rid : RoundIds,
     found : Requests \cup {NoBet}, into : Requests \cup {NoBet}, code : Codes, reply : Codes]

SettleRecords ==
    [pc : {"idle", "pop", "persist", "pay", "clear", "done", "failed"},
     at : Instances \cup {NoInstance}, held : SUBSET Requests]

TypeOK ==
    /\ ClockTypeOK
    /\ up \subseteq Instances
    /\ req \in [Requests -> ReqRecords]
    /\ shown \in [Requests -> SUBSET Requests]
    /\ counted \subseteq Requests
    /\ bets \in [Instances -> [RoundIds -> SUBSET Requests]]
    /\ queue \in [Instances -> [RoundIds -> SUBSET Requests]]
    /\ settle \in [Rounds -> SettleRecords]
    /\ stored \subseteq Requests /\ paid \subseteq Requests

\* Request b has saved a bet of its own, at instance i and in round r.
Made(b) == b \in Requests /\ req[b].into = b
MadeAt(b, i, r) == Made(b) /\ req[b].at = i /\ req[b].rid = r

\* The settlement of round r has cleared what instance i held for it.
Cleared(i, r) == r \in Rounds /\ settle[r].at = i /\ settle[r].pc = "done"

\* Instance i holds bet b for round r, unless it has died or has settled the round.
Holds(i, r, b) == i \in up => b \in bets[i][r] \/ Cleared(i, r)

\* Bet b is one for the command of request q, where it was served.
BetFor(q, b) ==
    /\ MadeAt(b, req[q].at, req[q].rid) /\ SameArea(q, b)
    /\ Holds(req[q].at, req[q].rid, b)

\* What holds of request q wherever it is.
RequestInv(q) ==
    /\ req[q].into # NoBet =>
         BetFor(q, req[q].into) /\ req[q].kind = "bet" /\ req[q].pc \in {"returned", "done"}
         /\ req[q].at \in Instances
    /\ req[q].pc = "looked" /\ req[q].found # NoBet => BetFor(q, req[q].found)
    /\ req[q].pc \in {"debited", "recorded", "looked"} => req[q].kind = "bet"
    /\ req[q].pc = "read" => req[q].kind # "bet"
    /\ req[q].pc \notin {"idle", "done"} => req[q].at \in up
    /\ req[q].kind = "bet" /\ (req[q].reply = "ok" \/ (req[q].pc = "returned" /\ req[q].code = "ok"))
         => req[q].into # NoBet

RequestsInv == \A q \in Requests : RequestInv(q)

\* Repositories hold bets made at their instance and in their round.
RepoInv ==
    \A i \in Instances, r \in RoundIds :
        \A b \in bets[i][r] \cup queue[i][r] : MadeAt(b, i, r)

\* A settlement belongs to one instance from the moment GMS pushed the result, has
\* only bets of it in hand, and pays what it has stored.
SettlementInv(r) ==
    /\ settle[r].pc = "idle" => settle[r].at = NoInstance
    /\ settle[r].pc # "idle" => told[r] # <<>> /\ settle[r].at \in Instances
    /\ \A b \in settle[r].held : MadeAt(b, settle[r].at, r)
    /\ settle[r].pc = "pay" => settle[r].held \subseteq stored

SettleInv == \A r \in Rounds : SettlementInv(r)

\* The orders are those of bets made where their round was settled.
StoredInv ==
    /\ paid \subseteq stored
    /\ \A b \in stored : Made(b) /\ req[b].rid \in Rounds /\ settle[req[b].rid].at = req[b].at
                         /\ req[b].at \in Instances

\* The inductive invariant of the cluster.
ClusterInv == TypeOK /\ RequestsInv /\ RepoInv /\ SettleInv /\ StoredInv

-----------------------------------------------------------------------------
(* Steps of requests.                                                      *)

\* The record of a request that ends with an error.
LEMMA EndRecord ==
    ASSUME NEW m \in ReqRecords, NEW n, n = [m EXCEPT !.pc = "done", !.reply = "error"]
    PROVE  /\ n \in ReqRecords /\ n.pc = "done" /\ n.reply = "error" /\ n.kind = m.kind
           /\ n.user = m.user /\ n.color = m.color /\ n.at = m.at
           /\ n.rid = m.rid /\ n.into = m.into
  BY DEF ReqRecords, Pcs, Codes

\* A request that goes on to record n: what n has to be for the invariant.  A request
\* that has made a bet, or added to one, may change nothing but its answer.
LEMMA RequestStep ==
    ASSUME ClusterInv, NEW q \in Requests, NEW n \in ReqRecords,
           req' = [req EXCEPT ![q] = n],
           UNCHANGED <<clockVars, up, repoVars, settleVars>>,
           shown' \in [Requests -> SUBSET Requests], counted' \subseteq Requests,
           n.into = req[q].into,
           n.into # NoBet => /\ n.user = req[q].user /\ n.color = req[q].color
                             /\ n.at = req[q].at /\ n.rid = req[q].rid /\ n.kind = req[q].kind
                             /\ n.pc \in {"returned", "done"},
           n.pc = "looked" /\ n.found # NoBet =>
               /\ MadeAt(n.found, n.at, n.rid) /\ Holds(n.at, n.rid, n.found)
               /\ req[n.found].user = n.user /\ req[n.found].color = n.color,
           n.pc \in {"debited", "recorded", "looked"} => n.kind = "bet",
           n.pc = "read" => n.kind # "bet",
           n.pc \notin {"idle", "done"} => n.at \in up,
           n.kind = "bet" /\ (n.reply = "ok" \/ (n.pc = "returned" /\ n.code = "ok"))
               => n.into # NoBet
    PROVE  ClusterInv'
<1>1. TypeOK /\ RequestsInv /\ RepoInv /\ SettleInv /\ StoredInv
  BY DEF ClusterInv
<1>2. req \in [Requests -> ReqRecords] /\ \A d \in Requests : req'[d] = IF d = q THEN n ELSE req[d]
  BY <1>1 DEF TypeOK
<1>3. TypeOK'
  BY <1>1, <1>2 DEF TypeOK, ClockTypeOK, clockVars, repoVars, settleVars
<1>4. \A b : Made(b) => Made(b)' /\ req'[b].user = req[b].user /\ req'[b].color = req[b].color
                        /\ req'[b].at = req[b].at /\ req'[b].rid = req[b].rid
  BY <1>2, ClusterNames DEF Made
<1>5. \A b, i, r : MadeAt(b, i, r) => MadeAt(b, i, r)'
  BY <1>4 DEF MadeAt
<1>6. \A b, i, r : Holds(i, r, b) => Holds(i, r, b)'
  BY DEF Holds, Cleared, repoVars, settleVars
<1>7. RequestsInv'
  <2> SUFFICES ASSUME NEW d \in Requests
               PROVE  RequestInv(d)'
    BY DEF RequestsInv
  <2>1. RequestInv(d)
    BY <1>1 DEF RequestsInv
  <2>2. CASE d # q
    <3>1. req'[d] = req[d]
      BY <1>2, <2>2
    <3>2. \A b : BetFor(d, b) => BetFor(d, b)'
      BY <1>4, <1>5, <1>6, <3>1 DEF BetFor, MadeAt, SameArea
    <3> QED
      BY <2>1, <3>1, <3>2 DEF RequestInv, BetFor, repoVars, settleVars
  <2>3. CASE d = q
    <3>1. req'[q] = n
      BY <1>2
    <3>2. n.into # NoBet => BetFor(q, n.into)' /\ n.kind = "bet" /\ n.at \in Instances
      <4>1. ASSUME n.into # NoBet
            PROVE  /\ MadeAt(n.into, n.at, n.rid) /\ Holds(n.at, n.rid, n.into)
                   /\ req[n.into].user = n.user /\ req[n.into].color = n.color
                   /\ n.kind = "bet" /\ n.at \in Instances
        BY <2>1, <2>3, <4>1 DEF RequestInv, BetFor, SameArea
      <4>2. n.into # NoBet =>
               /\ MadeAt(n.into, n.at, n.rid)' /\ Holds(n.at, n.rid, n.into)'
               /\ req'[n.into].user = n.user /\ req'[n.into].color = n.color
        BY <1>4, <1>5, <1>6, <4>1 DEF MadeAt
      <4> QED
        BY <3>1, <4>1, <4>2 DEF BetFor, SameArea
    <3>3. n.pc = "looked" /\ n.found # NoBet => BetFor(q, n.found)'
      <4>1. n.pc = "looked" /\ n.found # NoBet =>
               /\ MadeAt(n.found, n.at, n.rid)' /\ Holds(n.at, n.rid, n.found)'
               /\ req'[n.found].user = n.user /\ req'[n.found].color = n.color
        BY <1>4, <1>5, <1>6 DEF MadeAt
      <4> QED
        BY <3>1, <4>1 DEF BetFor, SameArea
    <3> QED
      BY <2>3, <3>1, <3>2, <3>3 DEF RequestInv
  <2> QED
    BY <2>2, <2>3
<1>8. RepoInv'
  BY <1>1, <1>5 DEF RepoInv, repoVars
<1>9. SettleInv'
  BY <1>1, <1>5 DEF SettleInv, SettlementInv, settleVars, clockVars
<1>10. StoredInv'
  BY <1>1, <1>4 DEF StoredInv, settleVars
<1> QED
  BY <1>3, <1>7, <1>8, <1>9, <1>10 DEF ClusterInv

\* The records a command starts with.
LEMMA CommandRecords ==
    /\ NoRequest \in ReqRecords /\ NoRequest.into = NoBet /\ NoRequest.reply = "none"
    /\ Refused \in ReqRecords /\ Refused.pc = "done" /\ Refused.into = NoBet
       /\ Refused.reply = "error"
    /\ \A k \in Kinds, u \in Users, c \in Colors \cup {NoColor} :
         /\ [NoRequest EXCEPT !.kind = k, !.user = u, !.color = c] \in ReqRecords
         /\ [NoRequest EXCEPT !.kind = k, !.user = u, !.color = c].into = NoBet
         /\ [NoRequest EXCEPT !.kind = k, !.user = u, !.color = c].reply = "none"
    /\ \A u \in Users :
         /\ OpsGetState(u) \in ReqRecords /\ OpsGetState(u).into = NoBet
         /\ OpsGetState(u).reply = "none"
<1>1. NoRequest.into = NoBet /\ NoRequest.reply = "none" /\ NoRequest \in ReqRecords
  BY MaxRoundsAssumption DEF NoRequest, ReqRecords, Pcs, Kinds, Codes, RoundIds
<1>2. Refused \in ReqRecords /\ Refused.pc = "done" /\ Refused.into = NoBet
      /\ Refused.reply = "error"
  BY <1>1 DEF Refused, ReqRecords, Pcs, Codes
<1>3. ASSUME NEW k \in Kinds, NEW u \in Users, NEW c \in Colors \cup {NoColor}
      PROVE  /\ [NoRequest EXCEPT !.kind = k, !.user = u, !.color = c] \in ReqRecords
             /\ [NoRequest EXCEPT !.kind = k, !.user = u, !.color = c].into = NoBet
             /\ [NoRequest EXCEPT !.kind = k, !.user = u, !.color = c].reply = "none"
  BY <1>1 DEF ReqRecords
<1>4. ASSUME NEW u \in Users
      PROVE  /\ OpsGetState(u) \in ReqRecords /\ OpsGetState(u).into = NoBet
             /\ OpsGetState(u).reply = "none"
  BY <1>1 DEF ReqRecords, OpsGetState
<1> QED
  BY <1>1, <1>2, <1>3, <1>4

\* A command m is served by a running instance, or refused.
LEMMA CallStep ==
    ASSUME ClusterInv, NEW q \in Requests, req[q].pc = "idle",
           NEW m \in ReqRecords, m.into = NoBet, m.reply = "none",
           CallGS(q, m) \/ req' = [req EXCEPT ![q] = Refused],
           UNCHANGED <<clockVars, up, repoVars, settleVars, shown, counted>>
    PROVE  ClusterInv'
<1>1. req[q].into = NoBet /\ up \subseteq Instances
      /\ shown \in [Requests -> SUBSET Requests] /\ counted \subseteq Requests
  BY DEF ClusterInv, TypeOK, RequestsInv, RequestInv
<1>2. CASE req' = [req EXCEPT ![q] = Refused]
  <2>1. PICK n : n = Refused
    OBVIOUS
  <2>2. n \in ReqRecords /\ n.pc = "done" /\ n.into = NoBet /\ n.reply = "error"
    BY <2>1, CommandRecords
  <2> QED
    BY <1>1, <1>2, <2>1, <2>2, RequestStep
<1>3. ASSUME NEW i \in up, req' = [req EXCEPT ![q] = [m EXCEPT !.pc = "started", !.at = i]]
      PROVE  ClusterInv'
  <2>1. PICK n : n = [m EXCEPT !.pc = "started", !.at = i]
    OBVIOUS
  <2>2. n \in ReqRecords /\ n.pc = "started" /\ n.at = i /\ n.into = NoBet /\ n.reply = "none"
    BY <1>1, <2>1 DEF ReqRecords, Pcs
  <2> QED
    BY <1>1, <1>3, <2>1, <2>2, RequestStep
<1> QED
  BY <1>2, <1>3 DEF CallGS, Remote, GetLBConn

\* The commands of players and of operators.
LEMMA StartStep ==
    ASSUME ClusterInv, NEW q \in Requests, HandleMessage(q) \/ GenericCall(q)
    PROVE  ClusterInv'
<1>1. UNCHANGED <<clockVars, up, repoVars, settleVars, shown, counted>> /\ req[q].pc = "idle"
  BY DEF HandleMessage, GenericCall, At
<1>2. CASE req' = [req EXCEPT ![q] = Refused]
  BY <1>1, <1>2, CallStep, CommandRecords
<1>3. ASSUME NEW k \in Kinds, NEW u \in Users, NEW c \in Colors \cup {NoColor},
             CallGS(q, [NoRequest EXCEPT !.kind = k, !.user = u, !.color = c])
      PROVE  ClusterInv'
  BY <1>1, <1>3, CallStep, CommandRecords
<1>4. ASSUME NEW u \in Users, CallGS(q, OpsGetState(u))
      PROVE  ClusterInv'
  BY <1>1, <1>4, CallStep, CommandRecords
<1> QED
  BY <1>2, <1>3, <1>4 DEF HandleMessage, GenericCall

\* The answer reaches the player: what has made no bet is forgotten.
LEMMA ReplyStep ==
    ASSUME ClusterInv, NEW q \in Requests, PlaceBetReply(q) \/ GetStateReply(q) \/ Disconnect(q)
    PROVE  ClusterInv'
<1>1. UNCHANGED <<clockVars, up, repoVars, settleVars>> /\ counted' = counted
  BY DEF PlaceBetReply, GetStateReply, Disconnect
<1>2. req \in [Requests -> ReqRecords] /\ req[q] \in ReqRecords /\ counted \subseteq Requests
      /\ shown \in [Requests -> SUBSET Requests] /\ RequestInv(q)
  BY DEF ClusterInv, TypeOK, RequestsInv
<1>3. shown' \in [Requests -> SUBSET Requests]
  BY <1>2 DEF PlaceBetReply, GetStateReply, Disconnect
<1>4. CASE Disconnect(q)
  <2>1. PICK n : n = [req[q] EXCEPT !.reply = "error"]
    OBVIOUS
  <2>2. req' = [req EXCEPT ![q] = n]
    BY <1>4, <2>1 DEF Disconnect
  <2>3. n \in ReqRecords /\ n.pc = req[q].pc /\ n.kind = req[q].kind /\ n.user = req[q].user
        /\ n.color = req[q].color /\ n.at = req[q].at /\ n.rid = req[q].rid
        /\ n.found = req[q].found /\ n.into = req[q].into /\ n.code = req[q].code
        /\ n.reply = "error"
    BY <1>2, <2>1 DEF ReqRecords, Codes
  <2> QED
    BY <1>1, <1>2, <1>3, <2>2, <2>3, RequestStep DEF RequestInv, BetFor, SameArea
<1>5. ASSUME NEW r \in Codes, Tell(q, r), req[q].kind = "bet" => r = req[q].code,
             req[q].pc = "returned"
      PROVE  ClusterInv'
  <2>1. PICK n \in ReqRecords :
          /\ req' = [req EXCEPT ![q] = n] /\ n.pc = "done" /\ n.kind = req[q].kind
          /\ n.into = req[q].into
          /\ n.into # NoBet => /\ n.user = req[q].user /\ n.color = req[q].color
                               /\ n.at = req[q].at /\ n.rid = req[q].rid
          /\ n.reply \in {r, req[q].reply}
    <3> DEFINE reply == IF Unanswered(q) THEN r ELSE req[q].reply
    <3>1. reply \in Codes /\ reply \in {r, req[q].reply}
      BY <1>2 DEF ReqRecords
    <3> HIDE DEF reply
    <3>2. CASE req[q].into = NoBet
      <4>1. PICK m : m = [[NoRequest EXCEPT !.kind = req[q].kind] EXCEPT !.pc = "done", !.reply = reply]
        OBVIOUS
      <4>2. req' = [req EXCEPT ![q] = m]
        BY <1>5, <3>2, <4>1 DEF Tell, reply
      <4>3. m \in ReqRecords /\ m.pc = "done" /\ m.kind = req[q].kind /\ m.into = NoBet
            /\ m.reply = reply
        <5>1. PICK o : o = [NoRequest EXCEPT !.kind = req[q].kind]
          OBVIOUS
        <5>2. o \in ReqRecords /\ o.kind = req[q].kind /\ o.into = NoBet
          BY <1>2, <5>1, CommandRecords DEF ReqRecords
        <5> QED
          BY <3>1, <4>1, <5>1, <5>2 DEF ReqRecords, Pcs
      <4> QED
        BY <3>1, <3>2, <4>2, <4>3
    <3>3. CASE req[q].into # NoBet
      <4>1. PICK m : m = [[req[q] EXCEPT !.code = "none"] EXCEPT !.pc = "done", !.reply = reply]
        OBVIOUS
      <4>2. req' = [req EXCEPT ![q] = m]
        BY <1>5, <3>3, <4>1 DEF Tell, reply
      <4>3. m \in ReqRecords /\ m.pc = "done" /\ m.kind = req[q].kind /\ m.into = req[q].into
            /\ m.user = req[q].user /\ m.color = req[q].color
            /\ m.at = req[q].at /\ m.rid = req[q].rid /\ m.reply = reply
        BY <1>2, <3>1, <4>1 DEF ReqRecords, Pcs, Codes
      <4> QED
        BY <3>1, <3>3, <4>2, <4>3
    <3> QED
      BY <3>2, <3>3
  <2>2. n.kind = "bet" /\ n.reply = "ok" => n.into # NoBet
    BY <1>2, <1>5, <2>1 DEF RequestInv
  <2> QED
    BY <1>1, <1>2, <1>3, <2>1, <2>2, RequestStep
<1>6. CASE PlaceBetReply(q)
  <2>1. req[q].code \in Codes
    BY <1>2 DEF ReqRecords
  <2>2. PICK r : r = req[q].code
    OBVIOUS
  <2>3. Tell(q, r) /\ req[q].pc = "returned"
    BY <1>6, <2>2 DEF PlaceBetReply, At
  <2> QED
    BY <1>5, <2>1, <2>2, <2>3
<1>7. CASE GetStateReply(q)
  <2>1. Tell(q, "ok") /\ req[q].pc = "returned" /\ req[q].kind # "bet" /\ "ok" \in Codes
    BY <1>7 DEF GetStateReply, At, Codes
  <2> QED
    BY <1>5, <2>1
<1> QED
  BY <1>4, <1>6, <1>7

\* PlaceBet and GetState up to the repository.
LEMMA ServeStep ==
    ASSUME ClusterInv, NEW q \in Requests,
           GetCurrentRound(q) \/ RecordBet(q) \/ GetUserBet(q) \/ GetUserBets(q)
    PROVE  ClusterInv'
<1>1. UNCHANGED <<clockVars, up, repoVars, settleVars>>
  BY DEF GetCurrentRound, RecordBet, GetUserBet, GetUserBets
<1>2. req \in [Requests -> ReqRecords] /\ req[q] \in ReqRecords /\ counted \subseteq Requests
      /\ shown \in [Requests -> SUBSET Requests] /\ RequestInv(q) /\ id \in RoundIds
  BY DEF ClusterInv, TypeOK, RequestsInv, ClockTypeOK, RoundIds
<1>3. counted' \subseteq Requests
  BY <1>2 DEF GetCurrentRound, RecordBet, GetUserBet, GetUserBets, Remote, Count
<1>4. req[q].pc \in {"started", "debited", "recorded", "read"}
  BY DEF GetCurrentRound, RecordBet, GetUserBet, GetUserBets, At
<1>5. req[q].into = NoBet /\ req[q].at \in up /\ req[q].at \in Instances
      /\ (req[q].kind = "bet" => req[q].reply # "ok")
  BY <1>2, <1>4 DEF RequestInv, ClusterInv, TypeOK
<1>6. shown' \in [Requests -> SUBSET Requests]
  <2>1. CASE GetUserBets(q)
    <3>1. UserBets(req[q].at, req[q].rid, req[q].user) \subseteq Requests
      BY <1>2, <1>5 DEF UserBets, ClusterInv, TypeOK, ReqRecords
    <3> QED
      BY <1>2, <2>1, <3>1 DEF GetUserBets, ReturnState
  <2> QED
    BY <1>2, <2>1 DEF GetCurrentRound, RecordBet, GetUserBet
<1>7. ASSUME NEW n \in ReqRecords, req' = [req EXCEPT ![q] = n],
             n.kind = req[q].kind, n.user = req[q].user, n.color = req[q].color,
             n.at = req[q].at, n.into = req[q].into, n.reply = req[q].reply,
             n.pc \in {"debited", "recorded", "looked"} => n.kind = "bet",
             n.pc = "read" => n.kind # "bet",
             n.pc = "looked" /\ n.found # NoBet =>
                 n.found \in bets[n.at][n.rid] /\ SameArea(q, n.found),
             n.kind = "bet" /\ n.pc = "returned" => n.code # "ok"
      PROVE  ClusterInv'
  <2>1. n.pc = "looked" /\ n.found # NoBet =>
               /\ MadeAt(n.found, n.at, n.rid) /\ Holds(n.at, n.rid, n.found)
               /\ req[n.found].user = n.user /\ req[n.found].color = n.color
    <3>1. n.at \in Instances /\ n.rid \in RoundIds
      BY <1>5, <1>7 DEF ReqRecords
    <3> QED
      BY <1>7, <3>1 DEF SameArea, Holds, ClusterInv, RepoInv
  <2>2. n.into = NoBet /\ n.at \in up
    BY <1>5, <1>7
  <2>3. ~(n.kind = "bet" /\ (n.reply = "ok" \/ (n.pc = "returned" /\ n.code = "ok")))
    BY <1>5, <1>7
  <2> QED
    BY <1>1, <1>3, <1>5, <1>6, <1>7, <2>1, <2>2, <2>3, RequestStep
<1>8. ASSUME NEW c \in Codes, Return(q, c), req[q].kind = "bet" => c # "ok"
      PROVE  ClusterInv'
  <2>1. PICK n : n = [req[q] EXCEPT !.pc = "returned", !.code = c]
    OBVIOUS
  <2>2. req' = [req EXCEPT ![q] = n]
    BY <1>2, <1>8, <2>1 DEF Return
  <2>3. n \in ReqRecords /\ n.kind = req[q].kind /\ n.user = req[q].user
        /\ n.color = req[q].color /\ n.at = req[q].at /\ n.into = req[q].into
        /\ n.reply = req[q].reply /\ n.pc = "returned" /\ n.code = c
    BY <1>2, <2>1 DEF ReqRecords, Pcs
  <2> QED
    BY <1>7, <1>8, <2>2, <2>3
<1>9. "error" \in Codes /\ "ok" \in Codes
  BY DEF Codes
<1>10. CASE GetCurrentRound(q)
  <2>1. CASE Return(q, "error")
    BY <1>8, <1>9, <2>1
  <2>2. ASSUME NEW l \in {"read", "debited", "returned"}, NEW c \in Codes,
               l = "read" => req[q].kind # "bet",
               l = "debited" => req[q].kind = "bet",
               l = "returned" => c # "ok",
               req' = [req EXCEPT ![q].pc = l, ![q].rid = CurrentRound, ![q].code = c]
        PROVE  ClusterInv'
    <3>1. PICK n : n = [req[q] EXCEPT !.pc = l, !.rid = CurrentRound, !.code = c]
      OBVIOUS
    <3>2. req' = [req EXCEPT ![q] = n]
      BY <1>2, <2>2, <3>1
    <3>3. n \in ReqRecords /\ n.kind = req[q].kind /\ n.user = req[q].user
          /\ n.color = req[q].color /\ n.at = req[q].at /\ n.into = req[q].into
          /\ n.reply = req[q].reply /\ n.pc = l /\ n.code = c
      BY <1>2, <3>1 DEF ReqRecords, Pcs, CurrentRound
    <3> QED
      BY <1>7, <2>2, <3>2, <3>3
  <2>3. req[q].code \in Codes
    BY <1>2 DEF ReqRecords
  <2>4. PICK l \in {"read", "debited", "returned"}, c \in Codes :
          /\ l = "read" => req[q].kind # "bet"
          /\ l = "debited" => req[q].kind = "bet"
          /\ l = "returned" => c # "ok"
          /\ \/ req' = [req EXCEPT ![q].pc = l, ![q].rid = CurrentRound, ![q].code = c]
             \/ Return(q, "error")
    <3> DEFINE l == IF req[q].kind # "bet" THEN "read"
                    ELSE IF req[q].color \in Colors THEN "debited" ELSE "returned"
               c == IF l = "returned" THEN "error" ELSE req[q].code
    <3>1. l \in {"read", "debited", "returned"} /\ c \in Codes
          /\ (l = "read" => req[q].kind # "bet") /\ (l = "debited" => req[q].kind = "bet")
          /\ (l = "returned" => c # "ok")
      BY <1>9, <2>3
    <3>2. \/ req' = [req EXCEPT ![q].pc = l, ![q].rid = CurrentRound, ![q].code = c]
          \/ Return(q, "error")
      BY <1>2, <1>10 DEF GetCurrentRound, Remote
    <3> HIDE DEF l, c
    <3> QED
      BY <3>1, <3>2
  <2> QED
    BY <2>1, <2>2, <2>4
<1>11. CASE RecordBet(q)
  <2>1. CASE Return(q, "error")
    BY <1>8, <1>9, <2>1
  <2>2. CASE req' = [req EXCEPT ![q].pc = "recorded"]
    <3>1. PICK n : n = [req[q] EXCEPT !.pc = "recorded"]
      OBVIOUS
    <3>2. req' = [req EXCEPT ![q] = n]
      BY <1>2, <2>2, <3>1
    <3>3. n \in ReqRecords /\ n.kind = req[q].kind /\ n.user = req[q].user
          /\ n.color = req[q].color /\ n.at = req[q].at /\ n.into = req[q].into
          /\ n.reply = req[q].reply /\ n.pc = "recorded"
      BY <1>2, <3>1 DEF ReqRecords, Pcs
    <3>4. req[q].kind = "bet"
      BY <1>2, <1>11 DEF RecordBet, At, RequestInv
    <3> QED
      BY <1>7, <3>2, <3>3, <3>4
  <2> QED
    BY <1>11, <2>1, <2>2 DEF RecordBet, Remote
<1>12. CASE GetUserBet(q)
  <2>1. req[q].rid \in RoundIds /\ req[q].pc = "recorded"
    BY <1>2, <1>12 DEF ReqRecords, GetUserBet, At
  <2>2. PICK f : /\ req' = [req EXCEPT ![q].pc = "looked", ![q].found = f]
                 /\ f = NoBet \/ (f \in bets[req[q].at][req[q].rid] /\ SameArea(q, f))
    BY <1>12 DEF GetUserBet
  <2>3. f \in Requests \cup {NoBet}
    BY <1>5, <2>1, <2>2 DEF ClusterInv, TypeOK
  <2>4. PICK n : n = [req[q] EXCEPT !.pc = "looked", !.found = f]
    OBVIOUS
  <2>5. req' = [req EXCEPT ![q] = n]
    BY <1>2, <2>2, <2>4
  <2>6. n \in ReqRecords /\ n.kind = req[q].kind /\ n.user = req[q].user
        /\ n.color = req[q].color /\ n.at = req[q].at /\ n.into = req[q].into
        /\ n.reply = req[q].reply /\ n.pc = "looked" /\ n.found = f /\ n.rid = req[q].rid
    BY <1>2, <2>3, <2>4 DEF ReqRecords, Pcs
  <2>7. req[q].kind = "bet"
    BY <1>2, <2>1 DEF RequestInv
  <2> QED
    BY <1>7, <2>2, <2>5, <2>6, <2>7
<1>13. CASE GetUserBets(q)
  <2>1. Return(q, "ok") /\ req[q].kind # "bet"
    BY <1>2, <1>13 DEF GetUserBets, ReturnState, At, RequestInv
  <2> QED
    BY <1>8, <1>9, <2>1
<1> QED
  BY <1>10, <1>11, <1>12, <1>13

\* A bet is saved, or the stake goes into a bet found: the instance runs, so it holds
\* the bet unless the settlement of the round is done with it.
LEMMA SaveStep ==
    ASSUME ClusterInv, NEW q \in Requests, SaveBet(q)
    PROVE  ClusterInv'
<1>1. TypeOK /\ RequestsInv /\ RepoInv /\ SettleInv /\ StoredInv /\ RequestInv(q)
  BY DEF ClusterInv, RequestsInv
<1>2. UNCHANGED <<clockVars, up, shown, counted, settleVars>> /\ req[q].pc = "looked"
  BY DEF SaveBet, At
<1>3. req \in [Requests -> ReqRecords] /\ req[q] \in ReqRecords /\ q # NoBet
      /\ req[q].into = NoBet /\ req[q].kind = "bet" /\ req[q].at \in up
      /\ req[q].at \in Instances /\ req[q].rid \in RoundIds
  BY <1>1, <1>2, ClusterNames DEF TypeOK, ReqRecords, RequestInv
<1>4. PICK b : b = IF req[q].found = NoBet THEN q ELSE req[q].found
  OBVIOUS
<1>5. (b = q <=> req[q].found = NoBet) /\ b \in Requests /\ b # NoBet
  BY <1>1, <1>2, <1>3, <1>4, ClusterNames DEF RequestInv, BetFor, MadeAt, Made, ReqRecords
<1>6. PICK n : n = [req[q] EXCEPT !.pc = "returned", !.code = "ok", !.into = b, !.found = NoBet]
  OBVIOUS
<1>7. req' = [req EXCEPT ![q] = n]
  BY <1>3, <1>4, <1>6 DEF SaveBet
<1>8. n \in ReqRecords /\ n.kind = req[q].kind /\ n.user = req[q].user /\ n.color = req[q].color
      /\ n.at = req[q].at /\ n.rid = req[q].rid /\ n.into = b /\ n.pc = "returned"
  <2>1. PICK m \in ReqRecords : m = req[q]
    BY <1>3
  <2>2. n = [m EXCEPT !.pc = "returned", !.code = "ok", !.into = b, !.found = NoBet]
    BY <1>6, <2>1
  <2>3. b \in Requests
    BY <1>5
  <2>4. /\ n \in ReqRecords /\ n.kind = m.kind /\ n.user = m.user /\ n.color = m.color
        /\ n.at = m.at /\ n.rid = m.rid /\ n.into = b /\ n.pc = "returned"
    BY <2>2, <2>3 DEF ReqRecords, Pcs, Codes
  <2> QED
    BY <2>1, <2>4
<1>9. \A d \in Requests : req'[d] = IF d = q THEN n ELSE req[d]
  BY <1>3, <1>7
<1>10. \A d : Made(d) => Made(d)' /\ req'[d] = req[d]
  BY <1>3, <1>9 DEF Made
<1>11. \A d, j, r : MadeAt(d, j, r) => MadeAt(d, j, r)'
  BY <1>10 DEF MadeAt
<1>12. /\ bets' \in [Instances -> [RoundIds -> SUBSET Requests]]
       /\ queue' \in [Instances -> [RoundIds -> SUBSET Requests]]
       /\ \A j \in Instances, r \in RoundIds :
            /\ bets'[j][r] = bets[j][r] \cup
                 (IF b = q /\ j = req[q].at /\ r = req[q].rid THEN {q} ELSE {})
            /\ queue'[j][r] = queue[j][r] \cup
                 (IF b = q /\ j = req[q].at /\ r = req[q].rid THEN {q} ELSE {})
  <2>1. CASE b = q
    <3>1. bets' = [bets EXCEPT ![req[q].at][req[q].rid] = @ \cup {q}]
      BY <1>4, <2>1 DEF SaveBet
    <3>2. queue' = [queue EXCEPT ![req[q].at][req[q].rid] = @ \cup {q}]
      BY <1>4, <2>1 DEF SaveBet
    <3>3. bets \in [Instances -> [RoundIds -> SUBSET Requests]]
          /\ queue \in [Instances -> [RoundIds -> SUBSET Requests]]
      BY <1>1 DEF TypeOK
    <3>4. bets' \in [Instances -> [RoundIds -> SUBSET Requests]]
          /\ \A j \in Instances, r \in RoundIds :
               bets'[j][r] = bets[j][r] \cup
                 (IF j = req[q].at /\ r = req[q].rid THEN {q} ELSE {})
      BY <1>3, <3>1, <3>3
    <3>5. queue' \in [Instances -> [RoundIds -> SUBSET Requests]]
          /\ \A j \in Instances, r \in RoundIds :
               queue'[j][r] = queue[j][r] \cup
                 (IF j = req[q].at /\ r = req[q].rid THEN {q} ELSE {})
      BY <1>3, <3>2, <3>3
    <3> QED
      BY <2>1, <3>4, <3>5
  <2>2. CASE b # q
    <3>1. bets' = bets /\ queue' = queue
      BY <1>4, <2>2 DEF SaveBet
    <3> QED
      BY <1>1, <2>2, <3>1 DEF TypeOK
  <2> QED
    BY <2>1, <2>2
<1>13. \A j \in Instances, r \in RoundIds : \A d : Holds(j, r, d) => Holds(j, r, d)'
  BY <1>2, <1>12 DEF Holds, Cleared, settleVars
<1>14. TypeOK'
  BY <1>1, <1>2, <1>7, <1>8, <1>12 DEF TypeOK, ClockTypeOK, clockVars, settleVars
<1>15. RequestsInv'
  <2> SUFFICES ASSUME NEW d \in Requests
               PROVE  RequestInv(d)'
    BY DEF RequestsInv
  <2>1. RequestInv(d)
    BY <1>1 DEF RequestsInv
  <2>2. CASE d # q
    <3>1. req'[d] = req[d] /\ req[d].rid \in RoundIds /\ up \subseteq Instances /\ up' = up
      BY <1>1, <1>2, <1>3, <1>9, <2>2 DEF ReqRecords, TypeOK
    <3>2. req[d].pc = "looked" => req[d].at \in Instances
      BY <2>1, <3>1 DEF RequestInv
    <3>3. \A e : req[d].at \in Instances /\ BetFor(d, e) => BetFor(d, e)'
      BY <1>10, <1>11, <1>13, <3>1 DEF BetFor, MadeAt, SameArea
    <3> QED
      BY <2>1, <3>1, <3>2, <3>3 DEF RequestInv
  <2>3. CASE d = q
    <3>1. req'[q] = n
      BY <1>9
    <3>2. BetFor(q, b)'
      <4>1. CASE b = q
        <5>1. MadeAt(q, n.at, n.rid)'
          BY <1>8, <3>1, <4>1 DEF MadeAt, Made
        <5>2. q \in bets'[n.at][n.rid]
          BY <1>3, <1>8, <1>12, <4>1
        <5> QED
          BY <3>1, <4>1, <5>1, <5>2 DEF BetFor, SameArea, Holds
      <4>2. CASE b # q
        <5>1. BetFor(q, b)
          BY <1>1, <1>2, <1>4, <1>5, <4>2 DEF RequestInv
        <5>2. MadeAt(b, n.at, n.rid) /\ Holds(n.at, n.rid, b) /\ req[b].user = n.user
              /\ req[b].color = n.color
          BY <1>8, <5>1 DEF BetFor, SameArea
        <5>3. MadeAt(b, n.at, n.rid)' /\ Holds(n.at, n.rid, b)' /\ req'[b] = req[b]
          BY <1>3, <1>8, <1>10, <1>11, <1>13, <5>2 DEF MadeAt
        <5> QED
          BY <3>1, <5>2, <5>3 DEF BetFor, SameArea
      <4> QED
        BY <4>1, <4>2
    <3> QED
      BY <1>2, <1>3, <1>5, <1>8, <2>3, <3>1, <3>2 DEF RequestInv
  <2> QED
    BY <2>2, <2>3
<1>16. RepoInv'
  <2>1. b = q => Made(q)' /\ req'[q].at = req[q].at /\ req'[q].rid = req[q].rid
    BY <1>8, <1>9 DEF Made
  <2>2. ASSUME NEW j \in Instances, NEW r \in RoundIds, NEW d \in bets'[j][r] \cup queue'[j][r]
        PROVE  MadeAt(d, j, r)'
    <3>1. CASE d \in bets[j][r] \cup queue[j][r]
      BY <1>1, <1>11, <3>1 DEF RepoInv
    <3>2. CASE d \notin bets[j][r] \cup queue[j][r]
      <4>1. b = q /\ j = req[q].at /\ r = req[q].rid /\ d = q
        BY <1>12, <2>2, <3>2
      <4> QED
        BY <2>1, <4>1 DEF MadeAt
    <3> QED
      BY <3>1, <3>2
  <2> QED
    BY <2>2 DEF RepoInv
<1>17. SettleInv'
  BY <1>1, <1>2, <1>11 DEF SettleInv, SettlementInv, settleVars, clockVars
<1>18. StoredInv'
  BY <1>1, <1>2, <1>10 DEF StoredInv, settleVars
<1> QED
  BY <1>14, <1>15, <1>16, <1>17, <1>18 DEF ClusterInv

-----------------------------------------------------------------------------
(* Steps of the settlement, of the clock and of a crash.                   *)

\* The settlement of round r goes on to record n: it stays at its instance, holds bets
\* of it, pays only what is stored, and empties the repository only when it is done.
LEMMA SettleStep ==
    ASSUME ClusterInv, NEW r \in Rounds, NEW n \in SettleRecords,
           settle' = [settle EXCEPT ![r] = n],
           UNCHANGED <<up, req, shown, counted>>,
           ClockTypeOK', \A d \in Rounds : told[d] # <<>> => told'[d] = told[d],
           bets' \in [Instances -> [RoundIds -> SUBSET Requests]],
           queue' \in [Instances -> [RoundIds -> SUBSET Requests]],
           \A j \in Instances, d \in RoundIds :
               /\ bets'[j][d] \subseteq bets[j][d] /\ queue'[j][d] \subseteq queue[j][d]
               /\ bets'[j][d] # bets[j][d] => j = n.at /\ d = r /\ n.pc = "done",
           settle[r].pc # "done", n.pc # "idle", told'[r] # <<>>,
           n.at \in Instances, settle[r].pc # "idle" => n.at = settle[r].at,
           \A b \in n.held : MadeAt(b, n.at, r),
           n.pc = "pay" => n.held \subseteq stored',
           stored \subseteq stored', paid' \subseteq stored',
           \A b \in stored' \ stored : MadeAt(b, n.at, r)
    PROVE  ClusterInv'
<1>1. TypeOK /\ RequestsInv /\ RepoInv /\ SettleInv /\ StoredInv
  BY DEF ClusterInv
<1>2. settle \in [Rounds -> SettleRecords]
      /\ \A d \in Rounds : settle'[d] = IF d = r THEN n ELSE settle[d]
  BY <1>1 DEF TypeOK
<1>3. TypeOK'
  <2>1. stored' \subseteq Requests /\ paid' \subseteq Requests
    BY <1>1 DEF TypeOK, MadeAt, Made
  <2> QED
    BY <1>1, <1>2, <2>1 DEF TypeOK
<1>4. \A b, j, d : MadeAt(b, j, d) <=> MadeAt(b, j, d)'
  BY DEF MadeAt, Made
<1>5. \A j \in Instances, d \in RoundIds : \A b : Holds(j, d, b) => Holds(j, d, b)'
  <2> SUFFICES ASSUME NEW j \in Instances, NEW d \in RoundIds, NEW b, Holds(j, d, b), j \in up
               PROVE  b \in bets'[j][d] \/ Cleared(j, d)'
    BY DEF Holds
  <2>1. CASE Cleared(j, d)
    BY <1>2, <2>1 DEF Cleared
  <2>2. CASE b \in bets[j][d]
    BY <1>2, <2>2 DEF Cleared
  <2> QED
    BY <2>1, <2>2 DEF Holds
<1>6. RequestsInv'
  <2> SUFFICES ASSUME NEW q \in Requests
               PROVE  RequestInv(q)'
    BY DEF RequestsInv
  <2>1. RequestInv(q) /\ req[q] \in ReqRecords /\ up \subseteq Instances
    BY <1>1 DEF RequestsInv, TypeOK
  <2>2. \A b : req[q].at \in Instances /\ BetFor(q, b) => BetFor(q, b)'
    BY <1>4, <1>5, <2>1 DEF BetFor, SameArea, ReqRecords
  <2>3. req[q].pc = "looked" => req[q].at \in Instances
    BY <2>1 DEF RequestInv
  <2> QED
    BY <2>1, <2>2, <2>3 DEF RequestInv
<1>7. RepoInv'
  BY <1>1, <1>4 DEF RepoInv
<1>8. SettleInv'
  <2> SUFFICES ASSUME NEW d \in Rounds
               PROVE  SettlementInv(d)'
    BY DEF SettleInv
  <2>1. CASE d = r
    BY <1>2, <2>1 DEF SettlementInv, MadeAt, Made
  <2>2. CASE d # r
    BY <1>1, <1>2, <2>2 DEF SettleInv, SettlementInv, MadeAt, Made
  <2> QED
    BY <2>1, <2>2
<1>9. StoredInv'
  <2> SUFFICES ASSUME NEW b \in stored'
               PROVE  Made(b)' /\ req'[b].rid \in Rounds
                      /\ settle'[req'[b].rid].at = req'[b].at /\ req'[b].at \in Instances
    BY DEF StoredInv
  <2>1. CASE b \in stored
    <3>1. Made(b) /\ req[b].rid \in Rounds /\ settle[req[b].rid].at = req[b].at
          /\ req[b].at \in Instances
      BY <1>1, <2>1 DEF StoredInv
    <3>2. settle'[req[b].rid].at = req[b].at
      BY <1>1, <1>2, <3>1, ClusterNames DEF SettleInv, SettlementInv
    <3> QED
      BY <3>1, <3>2 DEF Made
  <2>2. CASE b \notin stored
    <3>1. MadeAt(b, n.at, r)
      BY <2>2
    <3> QED
      BY <1>2, <3>1 DEF MadeAt, Made
  <2> QED
    BY <2>1, <2>2
<1> QED
  BY <1>3, <1>6, <1>7, <1>8, <1>9 DEF ClusterInv

\* GMS pushes a result: the settlement of a round begins once, at one instance.
LEMMA ResultStep ==
    ASSUME ClusterInv, NEW r \in Rounds, RoundResult(r)
    PROVE  ClusterInv'
<1>1. TypeOK /\ RequestsInv /\ RepoInv /\ SettleInv /\ StoredInv /\ SettlementInv(r)
  BY DEF ClusterInv, SettleInv
<1>2. [ClockNext]_clockVars /\ UNCHANGED <<up, req, shown, counted, bets, queue, stored, paid>>
  BY DEF RoundResult, ClockNext, repoVars
<1>3. ClockTypeOK' /\ \A d \in Rounds : told[d] # <<>> => told'[d] = told[d]
  BY <1>1, <1>2, ClockType, ToldStays DEF TypeOK
<1>4. settle[r].pc = "idle" /\ settle[r].at = NoInstance /\ told'[r] # <<>>
      /\ settle[r] \in SettleRecords /\ settle[r].held \subseteq Requests
  BY <1>1 DEF RoundResult, TellGS, SettlementInv, TypeOK, ClockTypeOK, SettleRecords
<1>5. CASE UNCHANGED settle
  <2>1. \A b, i, d : (MadeAt(b, i, d) <=> MadeAt(b, i, d)') /\ (Holds(i, d, b) <=> Holds(i, d, b)')
    BY <1>2, <1>5 DEF MadeAt, Made, Holds, Cleared
  <2>2. TypeOK' /\ RepoInv' /\ StoredInv'
    BY <1>1, <1>2, <1>3, <1>5 DEF TypeOK, RepoInv, StoredInv, MadeAt, Made
  <2>3. RequestsInv'
    BY <1>1, <1>2, <2>1 DEF RequestsInv, RequestInv, BetFor, SameArea
  <2>4. SettleInv'
    BY <1>1, <1>2, <1>3, <1>5 DEF SettleInv, SettlementInv, MadeAt, Made
  <2> QED
    BY <2>2, <2>3, <2>4 DEF ClusterInv
<1>6. ASSUME NEW i \in up, settle' = [settle EXCEPT ![r].pc = "pop", ![r].at = i]
      PROVE  ClusterInv'
  <2>1. PICK n : n = [settle[r] EXCEPT !.pc = "pop", !.at = i]
    OBVIOUS
  <2>2. settle' = [settle EXCEPT ![r] = n] /\ i \in Instances
    BY <1>1, <1>6, <2>1 DEF TypeOK
  <2>3. n \in SettleRecords /\ n.pc = "pop" /\ n.at = i /\ n.held = settle[r].held
    BY <1>4, <2>1, <2>2 DEF SettleRecords
  <2>4. n.held = {}
    <3>1. \A b \in settle[r].held : req[b].at = NoInstance /\ req[b].into = b /\ b \in Requests
      BY <1>1, <1>4 DEF SettlementInv, MadeAt, Made
    <3>2. \A b \in settle[r].held : req[b].at \in Instances
      BY <1>1, <3>1, ClusterNames DEF RequestsInv, RequestInv
    <3> QED
      BY <2>3, <3>1, <3>2, ClusterNames
  <2>5. bets \in [Instances -> [RoundIds -> SUBSET Requests]]
        /\ queue \in [Instances -> [RoundIds -> SUBSET Requests]] /\ paid \subseteq stored
    BY <1>1 DEF TypeOK, StoredInv
  <2> QED
    BY <1>2, <1>3, <1>4, <2>2, <2>3, <2>4, <2>5, SettleStep
<1> QED
  BY <1>5, <1>6 DEF RoundResult, Remote, GetLBConn

\* The steps of SettleRound.
LEMMA SettleRoundStep ==
    ASSUME ClusterInv, NEW r \in Rounds, Settle(r)
    PROVE  ClusterInv'
<1>1. TypeOK /\ RepoInv /\ StoredInv /\ SettlementInv(r)
  BY DEF ClusterInv, SettleInv
<1>2. UNCHANGED <<up, req, shown, counted, clockVars>> /\ told' = told
  BY DEF Settle, GetBetsForSettlement, BatchCreate, AddBalance, ClearBets, clockVars
<1>3. settle[r].pc \notin {"idle", "done", "failed"}
  BY DEF Settle, GetBetsForSettlement, BatchCreate, AddBalance, ClearBets
<1>4. settle \in [Rounds -> SettleRecords] /\ settle[r] \in SettleRecords
      /\ settle[r].at \in Instances /\ told[r] # <<>> /\ r \in RoundIds
      /\ bets \in [Instances -> [RoundIds -> SUBSET Requests]]
      /\ queue \in [Instances -> [RoundIds -> SUBSET Requests]] /\ paid \subseteq stored
  <2>1. r \in RoundIds
    BY MaxRoundsAssumption DEF RoundIds, Rounds
  <2> QED
    BY <1>1, <1>3, <2>1 DEF TypeOK, SettlementInv, StoredInv
<1>5. ClockTypeOK'
  BY <1>1, <1>2 DEF TypeOK, ClockTypeOK, clockVars
<1>6. ASSUME NEW n \in SettleRecords, settle' = [settle EXCEPT ![r] = n],
             n.at = settle[r].at, n.pc # "idle", \A b \in n.held : MadeAt(b, n.at, r),
             n.pc = "pay" => n.held \subseteq stored', UNCHANGED <<bets, queue>>,
             stored \subseteq stored', paid' \subseteq stored',
             \A b \in stored' \ stored : MadeAt(b, n.at, r)
      PROVE  ClusterInv'
  BY <1>2, <1>3, <1>4, <1>5, <1>6, SettleStep
<1>7. \A h \in {"done", "failed"} :
         /\ Ended(r, h) \in SettleRecords /\ Ended(r, h).pc = h
         /\ Ended(r, h).at = settle[r].at /\ Ended(r, h).held = {}
  BY <1>4, MaxRoundsAssumption DEF Ended, NoSettlement, SettleRecords
<1>8. CASE GetBetsForSettlement(r)
  <2>1. PICK l \in {"clear", "persist"} :
          settle' = [settle EXCEPT ![r].pc = l, ![r].held = queue[settle[r].at][r]]
    BY <1>8 DEF GetBetsForSettlement
  <2>2. PICK n : n = [settle[r] EXCEPT !.pc = l, !.held = queue[settle[r].at][r]]
    OBVIOUS
  <2>3. settle' = [settle EXCEPT ![r] = n] /\ UNCHANGED <<bets, stored, paid>>
    BY <1>4, <1>8, <2>1, <2>2 DEF GetBetsForSettlement
  <2>4. n \in SettleRecords /\ n.pc = l /\ n.at = settle[r].at /\ n.held = queue[settle[r].at][r]
    <3>1. queue[settle[r].at][r] \in SUBSET Requests
      BY <1>4
    <3> QED
      BY <1>4, <2>2, <3>1 DEF SettleRecords
  <2>5. queue' = [queue EXCEPT ![settle[r].at][r] = {}]
    BY <1>8 DEF GetBetsForSettlement
  <2>6. queue' \in [Instances -> [RoundIds -> SUBSET Requests]]
        /\ \A j \in Instances, d \in RoundIds : queue'[j][d] \subseteq queue[j][d]
    BY <1>4, <2>5
  <2>7. \A b \in n.held : MadeAt(b, n.at, r)
    BY <1>1, <1>4, <2>4 DEF RepoInv
  <2> QED
    BY <1>2, <1>3, <1>4, <1>5, <2>3, <2>4, <2>6, <2>7, SettleStep
<1>9. CASE BatchCreate(r)
  <2>1. CASE settle' = [settle EXCEPT ![r].pc = "pay"] /\ stored' = stored \cup settle[r].held
    <3>1. PICK n : n = [settle[r] EXCEPT !.pc = "pay"]
      OBVIOUS
    <3>2. settle' = [settle EXCEPT ![r] = n] /\ UNCHANGED <<bets, queue, paid>>
      BY <1>4, <1>9, <2>1, <3>1 DEF BatchCreate, repoVars
    <3>3. n \in SettleRecords /\ n.pc = "pay" /\ n.at = settle[r].at
          /\ n.held = settle[r].held
      BY <1>4, <3>1 DEF SettleRecords
    <3> QED
      BY <1>1, <1>4, <1>6, <2>1, <3>2, <3>3 DEF SettlementInv
  <2>2. CASE settle' = [settle EXCEPT ![r] = Ended(r, "failed")] /\ UNCHANGED stored
    <3>1. PICK n : n = Ended(r, "failed")
      OBVIOUS
    <3>2. n \in SettleRecords /\ n.pc = "failed" /\ n.at = settle[r].at /\ n.held = {}
      BY <1>7, <3>1
    <3>3. UNCHANGED <<bets, queue, paid>>
      BY <1>9 DEF BatchCreate, repoVars
    <3> QED
      BY <1>4, <1>6, <2>2, <3>1, <3>2, <3>3
  <2> QED
    BY <1>9, <2>1, <2>2 DEF BatchCreate
<1>10. CASE AddBalance(r)
  <2>1. PICK n : n = [settle[r] EXCEPT !.pc = "pop", !.held = {}]
    OBVIOUS
  <2>2. settle' = [settle EXCEPT ![r] = n] /\ UNCHANGED <<bets, queue, stored>>
    BY <1>4, <1>10, <2>1 DEF AddBalance, repoVars
  <2>3. n \in SettleRecords /\ n.pc = "pop" /\ n.at = settle[r].at /\ n.held = {}
    BY <1>4, <2>1 DEF SettleRecords
  <2>4. paid' \subseteq stored
    BY <1>1, <1>4, <1>10 DEF AddBalance, SettlementInv
  <2> QED
    BY <1>6, <2>2, <2>3, <2>4
<1>11. CASE ClearBets(r)
  <2>1. PICK n : n = Ended(r, "done")
    OBVIOUS
  <2>2. settle' = [settle EXCEPT ![r] = n] /\ UNCHANGED <<stored, paid>>
    BY <1>11, <2>1 DEF ClearBets
  <2>3. n \in SettleRecords /\ n.pc = "done" /\ n.at = settle[r].at /\ n.held = {}
    BY <1>7, <2>1
  <2>4. bets' = [bets EXCEPT ![settle[r].at][r] = {}]
        /\ queue' = [queue EXCEPT ![settle[r].at][r] = {}]
    BY <1>11 DEF ClearBets
  <2>5. queue' \in [Instances -> [RoundIds -> SUBSET Requests]]
        /\ \A j \in Instances, d \in RoundIds : queue'[j][d] \subseteq queue[j][d]
    BY <1>4, <2>4
  <2>6. bets' \in [Instances -> [RoundIds -> SUBSET Requests]]
        /\ \A j \in Instances, d \in RoundIds :
             /\ bets'[j][d] \subseteq bets[j][d]
             /\ bets'[j][d] # bets[j][d] => j = n.at /\ d = r
    <3>1. bets' \in [Instances -> [RoundIds -> SUBSET Requests]]
      BY <1>4, <2>4
    <3>2. \A j \in Instances, d \in RoundIds :
            bets'[j][d] = IF j = settle[r].at /\ d = r THEN {} ELSE bets[j][d]
      BY <1>4, <2>4
    <3> QED
      BY <2>3, <3>1, <3>2
  <2>7. \A j \in Instances, d \in RoundIds :
          /\ bets'[j][d] \subseteq bets[j][d] /\ queue'[j][d] \subseteq queue[j][d]
          /\ bets'[j][d] # bets[j][d] => j = n.at /\ d = r /\ n.pc = "done"
    BY <2>3, <2>5, <2>6
  <2>8. paid' \subseteq stored' /\ stored \subseteq stored' /\ \A b \in stored' \ stored : FALSE
    BY <1>4, <2>2
  <2>9. bets' \in [Instances -> [RoundIds -> SUBSET Requests]]
        /\ queue' \in [Instances -> [RoundIds -> SUBSET Requests]]
    BY <2>5, <2>6
  <2>10. n \in SettleRecords /\ n.at \in Instances /\ n.at = settle[r].at /\ n.held = {}
         /\ n.pc \notin {"idle", "pay"} /\ settle[r].pc # "done" /\ told'[r] # <<>>
    BY <1>2, <1>3, <1>4, <2>3
  <2>11. /\ \A b \in n.held : MadeAt(b, n.at, r)
         /\ \A b \in stored' \ stored : MadeAt(b, n.at, r)
         /\ n.pc = "pay" => n.held \subseteq stored'
         /\ settle[r].pc # "idle" => n.at = settle[r].at
         /\ n.pc # "idle" /\ UNCHANGED <<up, req, shown, counted>>
         /\ \A d \in Rounds : told[d] # <<>> => told'[d] = told[d]
    BY <1>2, <2>8, <2>10
  <2>12. settle[r].pc # "done" /\ n \in SettleRecords /\ n.at \in Instances /\ told'[r] # <<>>
    BY <2>10
  <2> HIDE DEF ClusterInv
  <2> QED
    BY <1>5, <2>2, <2>7, <2>8, <2>9, <2>11, <2>12, SettleStep
<1> QED
  BY <1>8, <1>9, <1>10, <1>11 DEF Settle

\* An instance dies: its requests end with an error, its settlements fail where they are.
LEMMA CrashStep ==
    ASSUME ClusterInv, NEW i \in Instances, Crash(i)
    PROVE  ClusterInv'
<1>1. TypeOK /\ RequestsInv /\ RepoInv /\ SettleInv /\ StoredInv
  BY DEF ClusterInv
<1>2. UNCHANGED <<clockVars, shown, counted, stored, paid>> /\ up' = up \ {i}
  BY DEF Crash
<1>3. req \in [Requests -> ReqRecords] /\ settle \in [Rounds -> SettleRecords]
      /\ bets \in [Instances -> [RoundIds -> SUBSET Requests]]
      /\ queue \in [Instances -> [RoundIds -> SUBSET Requests]]
  BY <1>1 DEF TypeOK
<1>4. ASSUME NEW q \in Requests
      PROVE  /\ req'[q] \in ReqRecords
             /\ \/ req'[q] = req[q] /\ (req[q].pc \notin {"idle", "done"} => req[q].at # i)
                \/ req'[q].pc = "done" /\ req'[q].reply = "error"
             /\ req'[q].kind = req[q].kind /\ req'[q].user = req[q].user
             /\ req'[q].color = req[q].color /\ req'[q].at = req[q].at
             /\ req'[q].rid = req[q].rid /\ req'[q].into = req[q].into
  <2>1. PICK n : n = [req[q] EXCEPT !.pc = "done", !.reply = "error"]
    OBVIOUS
  <2>2. req'[q] = IF req[q].at = i /\ req[q].pc \notin {"idle", "done"} THEN n ELSE req[q]
    BY <2>1 DEF Crash
  <2>3. n \in ReqRecords /\ n.pc = "done" /\ n.reply = "error" /\ n.kind = req[q].kind
        /\ n.user = req[q].user /\ n.color = req[q].color /\ n.at = req[q].at
        /\ n.rid = req[q].rid /\ n.into = req[q].into
    <3>1. PICK m \in ReqRecords : m = req[q]
      BY <1>3
    <3>2. n = [m EXCEPT !.pc = "done", !.reply = "error"]
      BY <2>1, <3>1
    <3>3. /\ n \in ReqRecords /\ n.pc = "done" /\ n.reply = "error" /\ n.kind = m.kind
          /\ n.user = m.user /\ n.color = m.color /\ n.at = m.at
          /\ n.rid = m.rid /\ n.into = m.into
      BY <3>2, EndRecord
    <3> QED
      BY <3>1, <3>3
  <2> QED
    BY <1>3, <2>2, <2>3
<1>5. ASSUME NEW r \in Rounds
      PROVE  /\ settle'[r] \in SettleRecords /\ settle'[r].at = settle[r].at
             /\ \/ settle'[r] = settle[r]
                \/ settle[r].at = i /\ settle'[r].pc = "failed" /\ settle'[r].held = {}
  <2>1. PICK n : n = Ended(r, "failed")
    OBVIOUS
  <2>2. settle'[r] = IF settle[r].at = i /\ settle[r].pc # "done" THEN n ELSE settle[r]
    BY <2>1 DEF Crash
  <2>3. settle[r].at \in Instances \cup {NoInstance}
    BY <1>3 DEF SettleRecords
  <2>4. n \in SettleRecords /\ n.pc = "failed" /\ n.at = settle[r].at /\ n.held = {}
    BY <2>1, <2>3 DEF Ended, NoSettlement, SettleRecords
  <2> QED
    BY <1>3, <2>2, <2>4
<1>6. /\ bets' \in [Instances -> [RoundIds -> SUBSET Requests]]
      /\ \A j \in Instances : j # i => bets'[j] = bets[j]
      /\ \A r \in RoundIds : bets'[i][r] = {}
  BY <1>3 DEF Crash
<1>7. /\ queue' \in [Instances -> [RoundIds -> SUBSET Requests]]
      /\ \A j \in Instances : j # i => queue'[j] = queue[j]
      /\ \A r \in RoundIds : queue'[i][r] = {}
  BY <1>3 DEF Crash
<1>8. TypeOK'
  <2>1. req' \in [Requests -> ReqRecords]
    BY <1>4 DEF Crash
  <2>2. settle' \in [Rounds -> SettleRecords]
    BY <1>5 DEF Crash
  <2> QED
    BY <1>1, <1>2, <1>6, <1>7, <2>1, <2>2 DEF TypeOK, ClockTypeOK, clockVars
<1>9. \A b, j, r : MadeAt(b, j, r) => MadeAt(b, j, r)'
  BY <1>4 DEF MadeAt, Made
<1>10. \A j \in Instances, r \in RoundIds : \A b : Holds(j, r, b) => Holds(j, r, b)'
  <2> SUFFICES ASSUME NEW j \in Instances, NEW r, NEW b, Holds(j, r, b), j \in up'
               PROVE  b \in bets'[j][r] \/ Cleared(j, r)'
    BY DEF Holds
  <2>1. j \in up /\ j # i
    BY <1>2
  <2> QED
    BY <1>5, <1>6, <2>1 DEF Holds, Cleared
<1>11. RequestsInv'
  <2> SUFFICES ASSUME NEW q \in Requests
               PROVE  RequestInv(q)'
    BY DEF RequestsInv
  <2>1. RequestInv(q) /\ up \subseteq Instances
    BY <1>1 DEF RequestsInv, TypeOK
  <2>2. ASSUME NEW b, BetFor(q, b), req[q].at \in Instances
        PROVE  BetFor(q, b)'
    <3>1. MadeAt(b, req[q].at, req[q].rid) /\ SameArea(q, b) /\ Holds(req[q].at, req[q].rid, b)
          /\ b \in Requests
      BY <2>2 DEF BetFor, MadeAt, Made
    <3>2. PICK j \in Instances, r \in RoundIds : j = req[q].at /\ r = req[q].rid
      BY <1>1, <2>2 DEF TypeOK, ReqRecords
    <3>3. MadeAt(b, j, r)' /\ Holds(j, r, b)'
      BY <1>9, <1>10, <3>1, <3>2
    <3> QED
      BY <1>4, <3>1, <3>2, <3>3 DEF BetFor, SameArea
  <2>3. CASE req'[q] = req[q] /\ (req[q].pc \notin {"idle", "done"} => req[q].at # i)
    <3>1. req[q].pc = "looked" => req[q].at \in Instances
      BY <2>1 DEF RequestInv
    <3> QED
      BY <1>2, <2>1, <2>2, <2>3, <3>1 DEF RequestInv
  <2>4. CASE req'[q].pc = "done" /\ req'[q].reply = "error"
    BY <1>4, <2>1, <2>2, <2>4 DEF RequestInv
  <2> QED
    BY <1>4, <2>3, <2>4
<1>12. RepoInv'
  BY <1>1, <1>6, <1>7, <1>9 DEF RepoInv
<1>13. SettleInv'
  <2> SUFFICES ASSUME NEW r \in Rounds
               PROVE  SettlementInv(r)'
    BY DEF SettleInv
  <2>1. SettlementInv(r) /\ told' = told /\ stored' = stored
    BY <1>1, <1>2 DEF SettleInv, clockVars
  <2>2. CASE settle'[r] = settle[r]
    BY <1>4, <2>1, <2>2 DEF SettlementInv, MadeAt, Made
  <2>3. CASE settle[r].at = i /\ settle'[r].pc = "failed" /\ settle'[r].held = {}
    BY <1>5, <2>1, <2>3, ClusterNames DEF SettlementInv
  <2> QED
    BY <1>5, <2>2, <2>3
<1>14. StoredInv'
  BY <1>1, <1>2, <1>4, <1>5 DEF StoredInv, Made
<1> QED
  BY <1>8, <1>11, <1>12, <1>13, <1>14 DEF ClusterInv

\* The clock of GMS moves, or nothing does.
LEMMA TickStep ==
    ASSUME ClusterInv, Tick \/ UNCHANGED vars
    PROVE  ClusterInv'
<1>1. TypeOK /\ RequestsInv /\ RepoInv /\ SettleInv /\ StoredInv
  BY DEF ClusterInv
<1>2. [ClockNext]_clockVars
      /\ UNCHANGED <<up, req, shown, counted, bets, queue, settle, stored, paid>>
  BY DEF Tick, vars, ClockNext, repoVars, settleVars
<1>3. ClockTypeOK' /\ \A d \in Rounds : told[d] # <<>> => told'[d] = told[d]
  BY <1>1, <1>2, ClockType, ToldStays DEF TypeOK
<1>4. \A b, i, d : (MadeAt(b, i, d) <=> MadeAt(b, i, d)') /\ (Holds(i, d, b) <=> Holds(i, d, b)')
  BY <1>2 DEF MadeAt, Made, Holds, Cleared
<1>5. TypeOK' /\ RepoInv' /\ StoredInv'
  BY <1>1, <1>2, <1>3 DEF TypeOK, RepoInv, StoredInv, MadeAt, Made
<1>6. RequestsInv'
  BY <1>1, <1>2, <1>4 DEF RequestsInv, RequestInv, BetFor, SameArea
<1>7. SettleInv'
  BY <1>1, <1>2, <1>3 DEF SettleInv, SettlementInv, MadeAt, Made
<1> QED
  BY <1>5, <1>6, <1>7 DEF ClusterInv

\* Nothing has been asked, held, settled or stored at the start.
LEMMA ClusterInit == Init => ClusterInv
<1> SUFFICES ASSUME Init PROVE ClusterInv
  OBVIOUS
<1>1. \A q \in Requests : req[q] = NoRequest
  BY DEF Init
<1>2. \A r \in Rounds : settle[r] = NoSettlement
  BY DEF Init
<1>3. NoSettlement \in SettleRecords /\ NoSettlement.pc = "idle"
      /\ NoSettlement.at = NoInstance /\ NoSettlement.held = {}
  BY DEF NoSettlement, SettleRecords
<1>4. TypeOK
  <2>1. ClockTypeOK
    BY MaxRoundsAssumption DEF Init, ClockInit, ClockTypeOK, Phases
  <2> QED
    BY <1>3, <2>1, CommandRecords DEF Init, TypeOK
<1>5. NoRequest.pc = "idle" /\ NoRequest.into = NoBet /\ NoRequest.reply = "none"
  BY DEF NoRequest
<1>6. RequestsInv
  BY <1>1, <1>5 DEF RequestsInv, RequestInv
<1>7. RepoInv
  BY DEF Init, RepoInv
<1>8. SettleInv
  BY <1>2, <1>3 DEF SettleInv, SettlementInv
<1>9. StoredInv
  BY DEF Init, StoredInv
<1> QED
  BY <1>4, <1>6, <1>7, <1>8, <1>9 DEF ClusterInv

\* ClusterInv is inductive.
LEMMA ClusterStep == ClusterInv /\ [Next]_vars => ClusterInv'
<1> SUFFICES ASSUME ClusterInv, [Next]_vars PROVE ClusterInv'
  OBVIOUS
<1>1. ASSUME NEW q \in Requests,
             HandleMessage(q) \/ GenericCall(q) \/ Disconnect(q) \/ Serve(q)
      PROVE  ClusterInv'
  BY <1>1, StartStep, ReplyStep, ServeStep, SaveStep DEF Serve
<1>2. ASSUME NEW r \in Rounds, RoundResult(r) \/ Settle(r)
      PROVE  ClusterInv'
  BY <1>2, ResultStep, SettleRoundStep
<1> QED
  BY <1>1, <1>2, CrashStep, TickStep DEF Next

-----------------------------------------------------------------------------
(* The theorems.                                                           *)

\* Requests, repositories, settlements and orders of the cluster stay consistent with
\* each other, whatever is lost, fails or dies (PlaceBet, SettleRound, Crash).
THEOREM ClusterInvariant == Spec => []ClusterInv
BY ClusterInit, ClusterStep, PTL DEF Spec

\* A player who is told that PlaceBet succeeded has a bet on that area and in that
\* round, at the instance that served the command.
THEOREM ConfirmedBetsExist == Spec => []SuccessHasBet
<1>1. ClusterInv => SuccessHasBet
  BY DEF ClusterInv, RequestsInv, RequestInv, SuccessHasBet, BetFor, MadeAt
<1> QED
  BY <1>1, ClusterInvariant, PTL

\* SettleRound pays no bet without its order, and all orders of a round are those of
\* the one instance that RoundResult reached.
THEOREM PaidBetsPersisted == Spec => []PayoutsPersisted
<1>1. ClusterInv => PayoutsPersisted
  BY MaxRoundsAssumption DEF ClusterInv, StoredInv, PayoutsPersisted, Rounds
<1> QED
  BY <1>1, ClusterInvariant, PTL

\* GetState at the instance that took a confirmed bet shows it until the settlement of
\* the round has cleared the repository.
THEOREM ConfirmedBetsShown == Spec => ReadYourWrites
<1> DEFINE Step ==
      \A q, b \in Requests :
         /\ req[q].pc = "read" /\ req'[q].pc = "returned" /\ req'[q].code = "ok"
         /\ req[b].kind = "bet" /\ req[b].reply = "ok"
         /\ req[b].user = req[q].user /\ req[b].at = req[q].at /\ req[b].rid = req[q].rid
         /\ \A r \in Rounds : r = req[b].rid /\ settle[r].at = req[b].at => settle[r].pc # "done"
         => req[b].into \in shown'[q]
<1>1. ASSUME ClusterInv, [Next]_vars PROVE [Step]_vars
  <2> SUFFICES ASSUME Next,
                 NEW q \in Requests, NEW b \in Requests,
                 req[q].pc = "read", req'[q].pc = "returned", req'[q].code = "ok",
                 req[b].kind = "bet", req[b].reply = "ok",
                 req[b].user = req[q].user, req[b].at = req[q].at, req[b].rid = req[q].rid,
                 \A r \in Rounds : r = req[b].rid /\ settle[r].at = req[b].at
                                   => settle[r].pc # "done"
               PROVE  req[b].into \in shown'[q]
    BY <1>1
  <2>1. TypeOK /\ RequestInv(q) /\ RequestInv(b) /\ req \in [Requests -> ReqRecords]
    BY <1>1 DEF ClusterInv, RequestsInv, TypeOK
  <2>2. BetFor(b, req[b].into) /\ req[q].at \in up
    BY <2>1 DEF RequestInv
  <2>3. GetUserBets(q)
    <3>1. req'[q] # req[q]
      OBVIOUS
    <3>2. ASSUME NEW d \in Requests,
                 HandleMessage(d) \/ GenericCall(d) \/ Disconnect(d) \/ Serve(d)
          PROVE  GetUserBets(q)
      <4>1. d = q
        <5> SUFFICES ASSUME d # q
                     PROVE  req'[q] = req[q]
          BY <3>1
        <5>1. CASE HandleMessage(d) \/ GenericCall(d)
          BY <2>1, <5>1 DEF HandleMessage, GenericCall, CallGS, Remote
        <5>2. CASE Disconnect(d)
          BY <2>1, <5>2 DEF Disconnect
        <5>3. CASE PlaceBetReply(d) \/ GetStateReply(d)
          BY <2>1, <5>3 DEF PlaceBetReply, GetStateReply, Tell
        <5>4. CASE GetCurrentRound(d) \/ RecordBet(d)
          BY <2>1, <5>4 DEF GetCurrentRound, RecordBet, Remote, Return
        <5>5. CASE GetUserBet(d) \/ GetUserBets(d)
          BY <2>1, <5>5 DEF GetUserBet, GetUserBets, ReturnState, Return
        <5>6. CASE SaveBet(d)
          BY <2>1, <5>6 DEF SaveBet
        <5> QED
          BY <3>2, <5>1, <5>2, <5>3, <5>4, <5>5, <5>6 DEF Serve
      <4>2. ~Disconnect(q)
        BY <2>1 DEF Disconnect, ReqRecords
      <4> QED
        BY <3>2, <4>1, <4>2 DEF HandleMessage, GenericCall, Serve, GetCurrentRound, RecordBet,
             GetUserBet, SaveBet, PlaceBetReply, GetStateReply, At
    <3>3. ASSUME NEW i \in Instances, Crash(i)
          PROVE  FALSE
      <4>1. PICK n : n = [req[q] EXCEPT !.pc = "done", !.reply = "error"]
        OBVIOUS
      <4>2. req'[q] = n
        BY <3>1, <3>3, <4>1 DEF Crash
      <4>3. n.pc = "done"
        BY <2>1, <4>1 DEF ReqRecords
      <4> QED
        BY <4>2, <4>3
    <3>4. ASSUME NEW r \in Rounds, RoundResult(r) \/ Settle(r)
          PROVE  FALSE
      BY <3>1, <3>4 DEF RoundResult, Settle, GetBetsForSettlement, BatchCreate,
           AddBalance, ClearBets
    <3> QED
      BY <3>1, <3>2, <3>3, <3>4 DEF Next, Tick
  <2>4. req[b].into \in UserBets(req[q].at, req[q].rid, req[q].user)
    BY <2>2 DEF BetFor, Holds, Cleared, SameArea, UserBets
  <2> QED
    BY <2>1, <2>3, <2>4 DEF GetUserBets, ReturnState, TypeOK
<1> QED
  BY <1>1, ClusterInvariant, PTL DEF Spec, ReadYourWrites

=============================================================================
