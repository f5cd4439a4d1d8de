----------------------------- MODULE RoundClock -----------------------------
(***************************************************************************)
(* What the Game Manager Service promises the rest of the platform about   *)
(* rounds, without the loop, the worker pool and the handlers that provide *)
(* it: rounds follow one another, a round takes bets only between          *)
(* StartBetting and its deadline, its result is drawn once, after the      *)
(* deadline, and the Game Service is told each result at most once, after  *)
(* the round has shown it.                                                 *)
(*                                                                         *)
(* GameMachine is shown to implement this specification; BettingService    *)
(* is built on top of it.                                                  *)
(***************************************************************************)
EXTENDS Naturals, Sequences

CONSTANTS Colors,       \* the rewards drawResult picks from
          NoColor,      \* REWARD_UNSPECIFIED: no result yet
          MaxRounds     \* bound: rounds played in one behaviour

ASSUME ColorAssumption == NoColor \notin Colors
ASSUME MaxRoundsAssumption == MaxRounds \in Nat

VARIABLES id,           \* number of the current round, 0 before the first
          phase,        \* what the current round is doing
          results,      \* results[r]: the colour drawn in round r
          told          \* told[r]: the results pushed to GS for round r

clockVars == <<id, phase, results, told>>

Rounds == 1 .. MaxRounds

Phases == {"none", "started", "betting", "closed", "drawing", "result"}

ClockTypeOK ==
    /\ id \in 0 .. MaxRounds
    /\ phase \in Phases
    /\ results \in [Rounds -> Colors \cup {NoColor}]
    /\ told \in [Rounds -> Seq(Colors \cup {NoColor})]

ClockInit ==
    /\ id = 0
    /\ phase = "none"
    /\ results = [r \in Rounds |-> NoColor]
    /\ told = [r \in Rounds |-> <<>>]

\* A bet on round r is acceptable now.
Accepting(r) == id = r /\ phase = "betting"

NewRound ==
    /\ phase \in {"none", "result"}
    /\ id < MaxRounds
    /\ id' = id + 1
    /\ phase' = "started"
    /\ UNCHANGED <<results, told>>

StartBetting ==
    /\ phase = "started"
    /\ phase' = "betting"
    /\ UNCHANGED <<id, results, told>>

\* The clock passes BettingEnd: CanAcceptBet turns false before Draw runs.
BettingEnd ==
    /\ phase = "betting"
    /\ phase' = "closed"
    /\ UNCHANGED <<id, results, told>>

Draw ==
    /\ phase = "closed"
    /\ phase' = "drawing"
    /\ \E c \in Colors : results' = [results EXCEPT ![id] = c]
    /\ UNCHANGED <<id, told>>

ShowResult ==
    /\ phase = "drawing"
    /\ phase' = "result"
    /\ UNCHANGED <<id, results, told>>

\* Round r has reached its RESULT phase.
Shown(r) == r < id \/ (r = id /\ phase = "result")

\* GMS calls RoundResult on GS. The call may come late, after later rounds
\* have started, but never twice and never before the round shows its result.
TellGS(r) ==
    /\ Shown(r)
    /\ told[r] = <<>>
    /\ told' = [told EXCEPT ![r] = <<results[r]>>]
    /\ UNCHANGED <<id, phase, results>>

ClockStep == NewRound \/ StartBetting \/ BettingEnd \/ Draw \/ ShowResult

ClockNext == ClockStep \/ \E r \in Rounds : TellGS(r)

ClockSpec == ClockInit /\ [][ClockNext]_clockVars
=============================================================================
