-------------------------- MODULE RedisBetsProofs --------------------------
(***************************************************************************)
(* The Redis repository settles no bet twice, leaves none behind that was  *)
(* queued in time, and shows every confirmed bet, for any number of        *)
(* players, requests, rounds and shards, with calls and settlements that   *)
(* may end anywhere. The argument is that a bet's ID is pushed once, under *)
(* its own round and shard, that what leaves a queue is in one hand only,  *)
(* and that a saved bet keeps its data until the round is cleared. The     *)
(* amount of a bet never counts a stake twice (StakesInv).                 *)
(***************************************************************************)
EXTENDS RedisBets, FiniteSetTheorems, TLAPS

USE DEF Rounds

-----------------------------------------------------------------------------
(* RoundClock: its types, and what GMS has pushed is final.                *)

\* The clock actions of RoundClock keep its variables in their domains.
LEMMA ClockType == ClockTypeOK /\ [ClockNext]_clockVars => ClockTypeOK'
<1> SUFFICES ASSUME ClockTypeOK, [ClockNext]_clockVars PROVE ClockTypeOK'
  OBVIOUS
<1> USE MaxRoundsAssumption DEF ClockTypeOK, Phases
<1>1. CASE NewRound
  BY <1>1 DEF NewRound
<1>2. CASE StartBetting
  BY <1>2 DEF StartBetting
<1>3. CASE BettingEnd
  BY <1>3 DEF BettingEnd
<1>4. CASE Draw
  BY <1>4 DEF Draw
<1>5. CASE ShowResult
  BY <1>5 DEF ShowResult
<1>6. ASSUME NEW r \in Rounds, TellGS(r) PROVE ClockTypeOK'
  <2>1. results[r] \in Colors \cup {NoColor}
    OBVIOUS
  <2>2. <<results[r]>> \in Seq(Colors \cup {NoColor})
    BY <2>1
  <2>3. told' \in [Rounds -> Seq(Colors \cup {NoColor})]
    BY <1>6, <2>2 DEF TellGS
  <2> QED
    BY <1>6, <2>3 DEF TellGS
<1>7. CASE UNCHANGED clockVars
  BY <1>7 DEF clockVars
<1> QED
  BY <1>1, <1>2, <1>3, <1>4, <1>5, <1>6, <1>7 DEF ClockNext, ClockStep

\* What GMS has pushed for a round is never pushed again.
LEMMA ToldStays ==
    ASSUME ClockTypeOK, [ClockNext]_clockVars, NEW r \in Rounds, told[r] # <<>>
    PROVE  told'[r] = told[r]
<1> USE DEF ClockTypeOK
<1>1. CASE ClockStep
  BY <1>1 DEF ClockStep, NewRound, StartBetting, BettingEnd, ShowResult, Draw
<1>2. ASSUME NEW r2 \in Rounds, TellGS(r2) PROVE told'[r] = told[r]
  BY <1>2 DEF TellGS
<1>3. CASE UNCHANGED clockVars
  BY <1>3 DEF clockVars
<1> QED
  BY <1>1, <1>2, <1>3 DEF ClockNext

-----------------------------------------------------------------------------
(* Sums over finite sets.                                                  *)

\* A set of subsets of a finite set has a smallest member: what induction over
\* finite sets comes down to.
LEMMA SmallestSet ==
    ASSUME NEW S, IsFiniteSet(S), NEW T, T \subseteq SUBSET S, T # {}
    PROVE  \E A \in T : \A B \in T : B \subseteq A => B = A
<1>1. IsWellFoundedOn(StrictSubsetOrdering(S), SUBSET S)
  BY FS_StrictSubsetOrderingWellFounded, FS_FiniteSubsetsOfFinite
<1>2. PICK A \in T : \A B \in T : <<B, A>> \notin StrictSubsetOrdering(S)
  BY <1>1, WFMin
<1>3. ASSUME NEW B \in T, B \subseteq A PROVE B = A
  <2>1. <<B, A>> \in (SUBSET S) \X (SUBSET S)
    OBVIOUS
  <2> QED
    BY <1>2, <1>3, <2>1 DEF StrictSubsetOrdering
<1> QED
  BY <1>3

\* The element that a fold over s takes first, and the sums it makes of f.
First(s) == CHOOSE x \in s : TRUE

SumBy(f, g, s) == IF s = {} THEN 0 ELSE f[First(s)] + g[s \ {First(s)}]

Sums(f, S, g) == g = [s \in SUBSET S |-> SumBy(f, g, s)]

\* Two such functions agree on the sets on which both are defined.
LEMMA SumsAgree ==
    ASSUME NEW S, IsFiniteSet(S), NEW T \in SUBSET S, NEW f, NEW h, \A x \in T : f[x] = h[x],
           NEW g, NEW k, Sums(f, S, g), Sums(h, T, k)
    PROVE  g[T] = k[T]
<1> DEFINE Bad == {s \in SUBSET T : g[s] # k[s]}
<1>1. SUFFICES ASSUME Bad # {} PROVE FALSE
  OBVIOUS
<1>2. PICK A \in Bad : \A B \in Bad : B \subseteq A => B = A
  <2>1. IsFiniteSet(T) /\ Bad \subseteq SUBSET T
    BY FS_Subset
  <2> HIDE DEF Bad
  <2> QED
    BY <1>1, <2>1, SmallestSet
<1>3. A \subseteq T /\ g[A] = SumBy(f, g, A) /\ k[A] = SumBy(h, k, A) /\ g[A] # k[A]
  BY DEF Sums
<1>4. A # {} /\ First(A) \in A
  BY <1>3 DEF SumBy, First
<1>5. A \ {First(A)} \notin Bad
  <2> HIDE DEF Bad
  <2> QED
    BY <1>2, <1>4
<1>6. g[A \ {First(A)}] = k[A \ {First(A)}] /\ f[First(A)] = h[First(A)]
  BY <1>3, <1>4, <1>5
<1> QED
  BY <1>3, <1>4, <1>6 DEF SumBy

\* The recursive definition inside SumFunctionOnSet has a solution.
LEMMA SumsExist ==
    ASSUME NEW S, IsFiniteSet(S), NEW f
    PROVE  \E g : Sums(f, S, g)
<1> DEFINE Bad == {T \in SUBSET S : ~\E g : Sums(f, T, g)}
<1>1. SUFFICES ASSUME Bad # {} PROVE FALSE
  OBVIOUS
<1>2. PICK A \in Bad : \A B \in Bad : B \subseteq A => B = A
  <2> HIDE DEF Bad
  <2>1. Bad \subseteq SUBSET S
    BY DEF Bad
  <2> QED
    BY <1>1, <2>1, SmallestSet
<1>3. \A s \in SUBSET A : IsFiniteSet(s) /\ (s # A => \E g : Sums(f, s, g))
  <2>1. ASSUME NEW s \in SUBSET A PROVE s \in SUBSET S /\ IsFiniteSet(s)
    BY FS_Subset
  <2> QED
    BY <1>2, <2>1
<1> DEFINE Of(s) == CHOOSE g : Sums(f, s, g)
           below == [s \in SUBSET A |-> IF s = A THEN 0 ELSE Of(s)[s]]
           all == [s \in SUBSET A |-> SumBy(f, below, s)]
<1>4. \A s \in SUBSET A : s # A => Sums(f, s, Of(s))
  BY <1>3
<1> HIDE DEF Of
<1>5. \A s \in SUBSET A : s # {} => s \ {First(s)} \in SUBSET A /\ s \ {First(s)} # A
  BY DEF First
<1>6. ASSUME NEW s \in SUBSET A, s # A PROVE below[s] = SumBy(f, below, s)
  <2>1. CASE s = {}
    BY <1>4, <1>6, <2>1 DEF Sums, SumBy
  <2>2. CASE s # {}
    <3> DEFINE t == s \ {First(s)}
    <3>1. t \in SUBSET s /\ t \in SUBSET A /\ t # A
      BY <1>5, <2>2
    <3> HIDE DEF t
    <3>2. Of(s)[t] = Of(t)[t]
      <4>1. IsFiniteSet(s) /\ Sums(f, s, Of(s)) /\ Sums(f, t, Of(t))
        BY <1>3, <1>4, <1>6, <3>1
      <4> HIDE DEF Bad
      <4> QED
        BY <3>1, <4>1, SumsAgree
    <3>3. Of(s)[s] = f[First(s)] + Of(s)[t]
      BY <1>4, <1>6, <2>2 DEF Sums, SumBy, t
    <3> QED
      BY <1>6, <2>2, <3>1, <3>2, <3>3 DEF SumBy, t
  <2> QED
    BY <2>1, <2>2
<1>7. \A s \in SUBSET A : SumBy(f, all, s) = SumBy(f, below, s)
  <2> HIDE DEF below
  <2> QED
    BY <1>5, <1>6 DEF SumBy
<1>8. Sums(f, A, all)
  <2> HIDE DEF below
  <2> QED
    BY <1>7 DEF Sums
<1> QED
  BY <1>8

\* The sum over a set is the value of such a function.
LEMMA SumFound ==
    ASSUME NEW S, IsFiniteSet(S), NEW f
    PROVE  \E g : Sums(f, S, g) /\ SumFunctionOnSet(f, S) = g[S]
<1> DEFINE g == CHOOSE h : Sums(f, S, h)
<1>1. SumFunctionOnSet(f, S) = g[S]
  BY DEF SumFunctionOnSet, FoldFunctionOnSet, MapThenFoldSet, Sums, SumBy, First
<1> QED
  BY <1>1, SumsExist

\* A sum over no element.
LEMMA SumEmpty == ASSUME NEW f PROVE SumFunctionOnSet(f, {}) = 0
<1>1. PICK g : Sums(f, {}, g) /\ SumFunctionOnSet(f, {}) = g[{}]
  BY SumFound, FS_EmptySet
<1> QED
  BY <1>1 DEF Sums, SumBy

\* The first element of the fold can be taken out ...
LEMMA SumFirst ==
    ASSUME NEW S, IsFiniteSet(S), S # {}, NEW f
    PROVE  /\ First(S) \in S /\ IsFiniteSet(S \ {First(S)})
           /\ SumFunctionOnSet(f, S) = f[First(S)] + SumFunctionOnSet(f, S \ {First(S)})
<1> DEFINE T == S \ {First(S)}
<1>1. First(S) \in S /\ T \in SUBSET S /\ IsFiniteSet(T)
  BY FS_Subset DEF First
<1>2. PICK g : Sums(f, S, g) /\ SumFunctionOnSet(f, S) = g[S]
  BY SumFound
<1>3. PICK k : Sums(f, T, k) /\ SumFunctionOnSet(f, T) = k[T]
  BY <1>1, SumFound
<1>4. g[S] = f[First(S)] + g[T]
  BY <1>2 DEF Sums, SumBy
<1>5. g[T] = k[T]
  <2> HIDE DEF T
  <2> QED
    BY <1>1, <1>2, <1>3, SumsAgree
<1> QED
  BY <1>1, <1>2, <1>3, <1>4, <1>5

\* ... so a sum of integers is an integer ...
LEMMA SumInt ==
    ASSUME NEW S, IsFiniteSet(S), NEW f, \A x \in S : f[x] \in Int
    PROVE  SumFunctionOnSet(f, S) \in Int
<1> DEFINE Bad == {s \in SUBSET S : SumFunctionOnSet(f, s) \notin Int}
<1>1. SUFFICES ASSUME Bad # {} PROVE FALSE
  OBVIOUS
<1>2. PICK A \in Bad : \A B \in Bad : B \subseteq A => B = A
  <2> HIDE DEF Bad
  <2>1. Bad \subseteq SUBSET S
    BY DEF Bad
  <2> QED
    BY <1>1, <2>1, SmallestSet
<1>3. A \in SUBSET S /\ SumFunctionOnSet(f, A) \notin Int
  OBVIOUS
<1>4. A # {} /\ IsFiniteSet(A)
  <2> HIDE DEF Bad
  <2>1. IsFiniteSet(A)
    BY <1>3, FS_Subset
  <2>2. A # {}
    BY <1>3, SumEmpty
  <2> QED
    BY <2>1, <2>2
<1>5. /\ First(A) \in A
      /\ SumFunctionOnSet(f, A) = f[First(A)] + SumFunctionOnSet(f, A \ {First(A)})
  BY <1>4, SumFirst
<1>6. A \ {First(A)} \notin Bad
  <2> HIDE DEF Bad
  <2> QED
    BY <1>2, <1>5
<1> QED
  BY <1>3, <1>5, <1>6

\* ... and the order in which the elements are taken does not matter.
LEMMA SumRemove ==
    ASSUME NEW S, IsFiniteSet(S), NEW f, \A x \in S : f[x] \in Int, NEW a \in S
    PROVE  SumFunctionOnSet(f, S) = f[a] + SumFunctionOnSet(f, S \ {a})
<1> DEFINE Sum(s) == SumFunctionOnSet(f, s)
           Bad == {s \in SUBSET S : \E x \in s : Sum(s) # f[x] + Sum(s \ {x})}
<1>1. SUFFICES ASSUME Bad # {} PROVE FALSE
  OBVIOUS
<1>2. PICK A \in Bad : \A B \in Bad : B \subseteq A => B = A
  <2> HIDE DEF Bad
  <2>1. Bad \subseteq SUBSET S
    BY DEF Bad
  <2> QED
    BY <1>1, <2>1, SmallestSet
<1>3. PICK x \in A : Sum(A) # f[x] + Sum(A \ {x})
  OBVIOUS
<1> DEFINE y == First(A)
           rest == Sum((A \ {x}) \ {y})
<1>4. A \in SUBSET S /\ IsFiniteSet(A)
  BY FS_Subset
<1>5. y \in A /\ Sum(A) = f[y] + Sum(A \ {y})
  BY <1>3, <1>4, SumFirst
<1> HIDE DEF y
<1>6. x # y
  BY <1>3, <1>5
<1>7. A \ {x} \notin Bad /\ A \ {y} \notin Bad
  <2> HIDE DEF Bad
  <2> QED
    BY <1>2, <1>3, <1>5
<1>8. Sum(A \ {x}) = f[y] + rest /\ Sum(A \ {y}) = f[x] + Sum((A \ {y}) \ {x})
  <2> HIDE DEF Sum
  <2> QED
    BY <1>3, <1>4, <1>5, <1>6, <1>7
<1>9. (A \ {y}) \ {x} = (A \ {x}) \ {y}
  OBVIOUS
<1>10. f[x] \in Int /\ f[y] \in Int /\ rest \in Int
  <2>1. IsFiniteSet((A \ {x}) \ {y})
    BY <1>4, FS_Subset
  <2> QED
    BY <1>3, <1>4, <1>5, <2>1, SumInt
<1>11. Sum(A) = f[y] + (f[x] + rest) /\ f[x] + Sum(A \ {x}) = f[x] + (f[y] + rest)
  BY <1>5, <1>8, <1>9
<1> HIDE DEF Sum, Bad, rest
<1> QED
  BY <1>3, <1>10, <1>11

\* One element more.
LEMMA SumInsert ==
    ASSUME NEW S, IsFiniteSet(S), NEW f, \A x \in S : f[x] \in Int, NEW a, a \notin S, f[a] \in Int
    PROVE  SumFunctionOnSet(f, S \cup {a}) = f[a] + SumFunctionOnSet(f, S)
<1>1. IsFiniteSet(S \cup {a}) /\ (S \cup {a}) \ {a} = S
  BY FS_AddElement
<1>2. a \in S \cup {a} /\ \A x \in S \cup {a} : f[x] \in Int
  OBVIOUS
<1> QED
  BY <1>1, <1>2, SumRemove

-----------------------------------------------------------------------------
(* The bets.                                                               *)

\* A step of a PlaceBet call keeps the invariant.
LEMMA RequestStep ==
    ASSUME RedisInv, NEW q \in Requests, RecordBet(q) \/ PlaceBet(q) \/ GiveUp(q)
    PROVE  RedisInv'
<1> USE RBNames, RBBounds DEF RedisInv, TypeOK
<1>1. UNCHANGED <<clockVars, args, settleVars>>
  BY DEF RecordBet, PlaceBet, ReadIndex, ReadBet, UpdateBetAmount, SaveData, PushQueue, SetIndex,
         GiveUp
<1>2. ClockTypeOK'
  BY <1>1 DEF ClockTypeOK, clockVars
<1>3. CASE RecordBet(q)
  <2>1. PICK r \in Rounds : rid' = [rid EXCEPT ![q] = r]
    BY <1>3 DEF RecordBet
  <2>2. TypeOK'
    BY <1>1, <1>2, <1>3, <2>1, MaxRoundsAssumption
    DEF RecordBet, To, RequestPcs, args, storeVars, settleVars
  <2>3. NotYetPushed'
    BY <1>3, <2>1 DEF RecordBet, To, NotYetPushed, storeVars, settleVars
  <2>4. AmountsKnown'
    BY <1>3 DEF RecordBet, To, AmountsKnown, settleVars
  <2>5. SettledOnce'
    <3>1. \A r1 \in Rounds : q \notin hand[r1] /\ \A s \in Shards : q \notin queue[r1][s]
      BY <1>3 DEF RecordBet, NotYetPushed
    <3> QED
      BY <1>3, <2>1, <3>1 DEF RecordBet, SettledOnce, args, storeVars, settleVars
  <2> QED
    BY <2>2, <2>3, <2>4, <2>5
<1>4. CASE ReadIndex(q)
  <2>1. rid[q] \in Rounds /\ index[rid[q]][user[q]][color[q]] \in Requests \cup {NoBet}
    BY <1>4 DEF ReadIndex, NotYetPushed
  <2>2. TypeOK'
    BY <1>1, <1>2, <1>4, <2>1 DEF ReadIndex, To, RequestPcs, args, storeVars, settleVars
  <2>3. NotYetPushed' /\ SettledOnce'
    BY <1>1, <1>4 DEF ReadIndex, To, NotYetPushed, SettledOnce, args, storeVars, settleVars
  <2>4. AmountsKnown'
    BY <1>1, <1>4, <2>1 DEF ReadIndex, To, AmountsKnown, settleVars
  <2> QED
    BY <2>2, <2>3, <2>4
<1>5. CASE ReadBet(q)
  <2>1. found[q] \in Requests
    BY <1>5 DEF ReadBet, AmountsKnown
  <2>2. TypeOK'
    BY <1>1, <1>2, <1>5, <2>1 DEF ReadBet, To, RequestPcs, args, storeVars, settleVars
  <2> QED
    BY <1>1, <1>5, <2>1, <2>2
    DEF ReadBet, To, NotYetPushed, AmountsKnown, SettledOnce, args, storeVars, settleVars
<1>6. CASE UpdateBetAmount(q)
  <2>1. found[q] \in Requests /\ copy[q] \in Int /\ amount[q] \in Int
    BY <1>6 DEF UpdateBetAmount, AmountsKnown
  <2>2. TypeOK'
    BY <1>1, <1>2, <1>6, <2>1 DEF UpdateBetAmount, Write, To, RequestPcs, args, storeVars, settleVars
  <2> QED
    BY <1>1, <1>6, <2>2
    DEF UpdateBetAmount, To, NotYetPushed, AmountsKnown, SettledOnce, args, settleVars
<1>7. CASE SaveData(q)
  <2>1. TypeOK'
    BY <1>1, <1>2, <1>7 DEF SaveData, To, RequestPcs, args, storeVars, settleVars
  <2>2. NotYetPushed' /\ SettledOnce'
    BY <1>1, <1>7 DEF SaveData, To, NotYetPushed, SettledOnce, args, settleVars
  <2>3. AmountsKnown'
    BY <1>1, <1>7 DEF SaveData, To, AmountsKnown, settleVars
  <2> QED
    BY <2>1, <2>2, <2>3
<1>8. CASE PushQueue(q)
  <2>1. rid[q] \in Rounds /\ ShardOf[user[q]] \in Shards
    BY <1>8 DEF PushQueue, NotYetPushed, Shards
  <2>2. \A r \in Rounds, s \in Shards :
            queue'[r][s] = IF r = rid[q] /\ s = ShardOf[user[q]] THEN queue[r][s] \cup {q}
                                                                 ELSE queue[r][s]
    BY <1>8, <2>1 DEF PushQueue
  <2>3. TypeOK'
    BY <1>1, <1>2, <1>8, <2>1 DEF PushQueue, To, RequestPcs, args, settleVars
  <2>4. NotYetPushed'
    BY <1>1, <1>8, <2>2 DEF PushQueue, To, NotYetPushed, settleVars
  <2>5. SettledOnce'
    BY <1>1, <1>8, <2>1, <2>2 DEF PushQueue, SettledOnce, NotYetPushed, args, settleVars
  <2> QED
    BY <1>1, <1>8, <2>3, <2>4, <2>5 DEF PushQueue, To, AmountsKnown, settleVars
<1>9. CASE SetIndex(q)
  <2>1. rid[q] \in Rounds
    BY <1>9 DEF SetIndex, NotYetPushed
  <2>2. TypeOK'
    BY <1>1, <1>2, <1>9, <2>1 DEF SetIndex, To, RequestPcs, args, settleVars
  <2> QED
    BY <1>1, <1>9, <2>2
    DEF SetIndex, To, NotYetPushed, AmountsKnown, SettledOnce, args, settleVars
<1>10. CASE GiveUp(q)
  <2>1. TypeOK'
    BY <1>1, <1>2, <1>10 DEF GiveUp, To, RequestPcs, args, storeVars, settleVars
  <2> QED
    BY <1>1, <1>10, <2>1
    DEF GiveUp, InProgress, To, NotYetPushed, AmountsKnown, SettledOnce, args, storeVars, settleVars
<1> QED
  BY <1>3, <1>4, <1>5, <1>6, <1>7, <1>8, <1>9, <1>10 DEF PlaceBet

\* A step of a GetState call writes nothing but its own view.
LEMMA GetStateStep ==
    ASSUME RedisInv, NEW q \in Requests, GetState(q)
    PROVE  RedisInv'
<1> USE DEF RedisInv, TypeOK
<1>1. UNCHANGED <<clockVars, user, color, amount, found, copy, wrote, raced, storeVars, settleVars>>
  BY DEF GetState, GetCurrentRound, GetUserBets, ReadBets, args
<1>2. ClockTypeOK'
  BY <1>1 DEF ClockTypeOK, clockVars
<1>3. CASE GetCurrentRound(q)
  <2>1. id \in Rounds /\ UNCHANGED view /\ rid' \in [Requests -> 0 .. MaxRounds]
    BY <1>3, MaxRoundsAssumption DEF GetCurrentRound, args
  <2>2. pc' \in [Requests -> RequestPcs] /\ pc'[q] = "asked"
        /\ \A b \in Requests \ {q} : pc'[b] = pc[b]
    BY <1>3 DEF GetCurrentRound, To, RequestPcs
  <2>3. rid'[q] \in Rounds /\ \A b \in Requests \ {q} : rid'[b] = rid[b]
    BY <1>3, <2>1 DEF GetCurrentRound
  <2>4. NotYetPushed'
    BY <1>1, <2>2, <2>3 DEF NotYetPushed, storeVars, settleVars
  <2>5. SettledOnce'
    <3>1. \A r1 \in Rounds : q \notin hand[r1] /\ \A s \in Shards : q \notin queue[r1][s]
      BY <1>3 DEF GetCurrentRound, NotYetPushed
    <3> QED
      BY <1>1, <2>3, <3>1 DEF SettledOnce, storeVars, settleVars
  <2> QED
    BY <1>1, <1>2, <2>1, <2>2, <2>4, <2>5 DEF AmountsKnown, storeVars, settleVars
<1>4. CASE GetUserBets(q)
  <2> DEFINE ids == {index[rid[q]][user[q]][c] : c \in Colors} \ {NoBet}
  <2>1. pc[q] = "asked" /\ UNCHANGED rid
    BY <1>4 DEF GetUserBets
  <2>2. rid[q] \in Rounds /\ ids \subseteq Requests
    BY <2>1 DEF NotYetPushed
  <2>3. view' \in [Requests -> SUBSET Requests]
    BY <1>4, <2>2 DEF GetUserBets
  <2>4. pc' \in [Requests -> RequestPcs] /\ pc'[q] \in {"ids", "shown"}
        /\ \A b \in Requests \ {q} : pc'[b] = pc[b]
    BY <1>4 DEF GetUserBets, To, RequestPcs
  <2>5. NotYetPushed' /\ AmountsKnown' /\ SettledOnce'
    BY <1>1, <2>1, <2>4 DEF NotYetPushed, AmountsKnown, SettledOnce, storeVars, settleVars
  <2> QED
    BY <1>1, <1>2, <2>1, <2>3, <2>4, <2>5 DEF storeVars, settleVars
<1>5. CASE ReadBets(q)
  <2>1. view' \in [Requests -> SUBSET Requests] /\ UNCHANGED rid
    BY <1>5 DEF ReadBets
  <2>2. pc' \in [Requests -> RequestPcs] /\ pc'[q] = "shown" /\ pc[q] = "ids"
        /\ \A b \in Requests \ {q} : pc'[b] = pc[b]
    BY <1>5 DEF ReadBets, To, RequestPcs
  <2>3. TypeOK'
    BY <1>1, <1>2, <2>1, <2>2 DEF storeVars, settleVars
  <2>4. NotYetPushed' /\ AmountsKnown'
    BY <1>1, <2>1, <2>2 DEF NotYetPushed, AmountsKnown, storeVars, settleVars
  <2>5. SettledOnce'
    BY <1>1, <2>1 DEF SettledOnce, storeVars, settleVars
  <2> QED
    BY <2>3, <2>4, <2>5
<1> QED
  BY <1>3, <1>4, <1>5 DEF GetState

\* GMS pushes a result: nothing is popped yet.
LEMMA RoundResultStep ==
    ASSUME RedisInv, NEW r \in Rounds, RoundResult(r)
    PROVE  RedisInv'
<1> USE DEF RedisInv, TypeOK
<1>1. ClockTypeOK'
  BY ClockType DEF RoundResult, ClockNext
<1>2. UNCHANGED <<callVars, storeVars, hand, fetched, orders>>
  BY DEF RoundResult
<1>3. TypeOK'
  <2>1. spc' \in [Rounds -> SettlePcs] /\ left' \in [Rounds -> SUBSET Shards]
    BY DEF RoundResult, Scan, SettleTo, SettlePcs
  <2>2. before' \in [Rounds -> SUBSET Requests]
    BY DEF RoundResult, Pushed
  <2> QED
    BY <1>1, <1>2, <2>1, <2>2 DEF callVars, args, storeVars
<1>4. NotYetPushed' /\ SettledOnce'
  BY <1>2 DEF NotYetPushed, SettledOnce, callVars, args, storeVars
<1>5. AmountsKnown'
  BY <1>2 DEF RoundResult, Scan, SettleTo, AmountsKnown, callVars, args
<1> QED
  BY <1>3, <1>4, <1>5

\* A popped bet leaves its queue for the hands of the settlement.
LEMMA PopShardStep ==
    ASSUME RedisInv, NEW r \in Rounds, NEW s \in Shards, PopShard(r, s)
    PROVE  RedisInv'
<1> USE DEF RedisInv, TypeOK
<1>1. UNCHANGED <<clockVars, callVars, data, index, fetched, orders, before>> /\ spc[r] = "scan"
  BY DEF PopShard
<1>2. ClockTypeOK'
  BY <1>1 DEF ClockTypeOK, clockVars
<1>3. CASE UNCHANGED <<queue, hand>> /\ left' = [left EXCEPT ![r] = @ \ {s}]
           /\ SettleTo(r, AfterEmpty(r, s))
  <2>1. spc' = [spc EXCEPT ![r] = "clear"] \/ spc' = [spc EXCEPT ![r] = "scan"]
    BY <1>3 DEF SettleTo, AfterEmpty
  <2>2. TypeOK'
    BY <1>1, <1>2, <1>3, <2>1 DEF SettlePcs, callVars, args
  <2>3. NotYetPushed' /\ SettledOnce'
    BY <1>1, <1>3 DEF NotYetPushed, SettledOnce, callVars, args
  <2>4. AmountsKnown'
    BY <1>1, <1>3, <2>1 DEF AmountsKnown, callVars, args
  <2> QED
    BY <2>2, <2>3, <2>4
<1>4. ASSUME NEW B \in SUBSET queue[r][s], hand' = [hand EXCEPT ![r] = B], Pop(r, s, B),
             SettleTo(r, "fetch"), UNCHANGED left
      PROVE  RedisInv'
  <2>0. queue[r][s] \subseteq Requests /\ B \subseteq queue[r][s] /\ B \subseteq Requests
    <3>1. queue[r] \in [Shards -> SUBSET Requests]
      OBVIOUS
    <3> QED
      BY <1>4, <3>1
  <2>1. \A x \in Rounds, y \in Shards :
            queue'[x][y] = IF x = r /\ y = s THEN queue[x][y] \ B ELSE queue[x][y]
    BY <1>4 DEF Pop
  <2>2. \A x \in Rounds : hand'[x] = IF x = r THEN B ELSE hand[x]
    BY <1>4
  <2>3. TypeOK'
    <3>1. queue' \in [Rounds -> [Shards -> SUBSET Requests]]
      <4>1. queue[r][s] \ B \in SUBSET Requests
        BY <2>0
      <4> QED
        BY <1>4, <4>1 DEF Pop
    <3>2. hand' \in [Rounds -> SUBSET Requests]
      BY <1>4, <2>0
    <3> QED
      BY <1>1, <1>2, <1>4, <3>1, <3>2 DEF SettleTo, SettlePcs, callVars, args
  <2>4. NotYetPushed'
    <3> SUFFICES ASSUME NEW b \in Requests
                 PROVE  /\ pc'[b] # "idle" => rid'[b] \in Rounds
                        /\ pc'[b] \in {"idle", "recorded", "indexed", "found", "data", "push"} =>
                              /\ orders'[b] = <<>>
                              /\ \A x \in Rounds :
                                    b \notin hand'[x] /\ \A y \in Shards : b \notin queue'[x][y]
      BY DEF NotYetPushed
    <3>1. ASSUME \A x \in Rounds : b \notin hand[x] /\ \A y \in Shards : b \notin queue[x][y]
          PROVE  \A x \in Rounds : b \notin hand'[x] /\ \A y \in Shards : b \notin queue'[x][y]
      <4>1. b \notin B
        BY <2>0, <3>1
      <4>2. ASSUME NEW x \in Rounds PROVE b \notin hand'[x]
        BY <2>2, <3>1, <4>1
      <4>3. ASSUME NEW x \in Rounds, NEW y \in Shards PROVE b \notin queue'[x][y]
        <5>1. b \notin queue[x][y]
          BY <3>1
        <5> QED
          BY <2>1, <5>1
      <4> QED
        BY <4>2, <4>3
    <3> QED
      BY <1>1, <3>1 DEF NotYetPushed, callVars
  <2>5. SettledOnce'
    <3> HIDE DEF RedisInv, TypeOK
    <3> SUFFICES ASSUME NEW b \in Requests
                 PROVE  /\ Len(orders'[b]) <= 1
                        /\ \A x \in Rounds, y \in Shards : b \in queue'[x][y] =>
                              /\ rid'[b] = x /\ y = ShardOf[user'[b]]
                              /\ b \notin hand'[x] /\ orders'[b] = <<>>
                        /\ \A x \in Rounds : b \in hand'[x] => rid'[b] = x /\ orders'[b] = <<>>
      BY DEF SettledOnce
    <3> USE DEF RedisInv, TypeOK
    <3>1. b \in B => rid[b] = r /\ s = ShardOf[user[b]] /\ orders[b] = <<>>
      BY <2>0 DEF SettledOnce
    <3>2. ASSUME NEW x \in Rounds, b \in hand'[x]
          PROVE  rid[b] = x /\ orders[b] = <<>>
      <4>1. \/ x = r /\ b \in B
            \/ b \in hand[x]
        BY <2>2, <3>2
      <4>2. b \in hand[x] => rid[b] = x /\ orders[b] = <<>>
        BY DEF SettledOnce
      <4> QED
        BY <3>1, <4>1, <4>2
    <3>3. \A x \in Rounds, y \in Shards : b \in queue'[x][y] =>
              rid[b] = x /\ y = ShardOf[user[b]] /\ b \notin hand'[x] /\ orders[b] = <<>>
      <4> SUFFICES ASSUME NEW x \in Rounds, NEW y \in Shards, b \in queue'[x][y]
                   PROVE  rid[b] = x /\ y = ShardOf[user[b]] /\ b \notin hand'[x]
                          /\ orders[b] = <<>>
        OBVIOUS
      <4>1. b \in queue[x][y]
        BY <2>1
      <4>2. rid[b] = x /\ y = ShardOf[user[b]] /\ b \notin hand[x] /\ orders[b] = <<>>
        BY <4>1 DEF SettledOnce
      <4>3. b \notin hand'[x]
        BY <2>1, <2>2, <3>1, <4>2
      <4> QED
        BY <4>2, <4>3
    <3> QED
      BY <1>1, <3>2, <3>3 DEF SettledOnce, callVars, args
  <2>6. AmountsKnown'
    BY <1>1, <1>4, <2>2 DEF AmountsKnown, SettleTo, callVars, args
  <2> QED
    BY <2>3, <2>4, <2>5, <2>6
<1> QED
  BY <1>3, <1>4 DEF PopShard

\* Reading the popped bets: their amounts are known afterwards.
LEMMA FetchBetsStep ==
    ASSUME RedisInv, NEW r \in Rounds, FetchBets(r)
    PROVE  RedisInv'
<1> USE DEF RedisInv, TypeOK
<1> DEFINE known == {b \in hand[r] : data[b] # NoBet}
<1>1. UNCHANGED <<clockVars, callVars, storeVars, left, orders, before>>
  BY DEF FetchBets
<1>2. ClockTypeOK'
  BY <1>1 DEF ClockTypeOK, clockVars
<1>3. \A x \in Rounds : hand'[x] = IF x = r THEN known ELSE hand[x]
  BY DEF FetchBets
<1>4. \A b \in Requests : fetched'[b] = IF b \in hand[r] THEN data[b] ELSE fetched[b]
  BY DEF FetchBets
<1>9. \A x \in Rounds : \A b \in hand'[x] : b \in hand[x]
  BY <1>3
<1>5. spc' = [spc EXCEPT ![r] = "clear"] \/ spc' = [spc EXCEPT ![r] = "order"]
  BY DEF FetchBets, SettleTo
<1>6. TypeOK'
  <2>1. fetched' \in [Requests -> Int \cup {NoBet}] /\ hand' \in [Rounds -> SUBSET Requests]
    BY DEF FetchBets
  <2> QED
    BY <1>1, <1>2, <1>5, <2>1 DEF SettlePcs, callVars, args, storeVars
<1>7. NotYetPushed' /\ SettledOnce'
  BY <1>1, <1>9 DEF NotYetPushed, SettledOnce, callVars, args, storeVars
<1>8. AmountsKnown'
  <2>1. ASSUME NEW x \in Rounds, spc'[x] = "order", NEW b \in hand'[x] PROVE fetched'[b] \in Int
    <3>1. b \in Requests /\ b \in hand[x]
      BY <1>3, <2>1
    <3>2. CASE x = r
      BY <1>3, <1>4, <2>1, <3>1, <3>2
    <3>3. CASE x # r
      <4>1. b \notin hand[r]
        <5> HIDE DEF TypeOK
        <5>1. \A z \in Rounds : b \in hand[z] => rid[b] = z
          BY <3>1 DEF SettledOnce
        <5> QED
          BY <3>1, <3>3, <5>1
      <4>2. spc[x] = "order"
        BY <1>5, <2>1, <3>3
      <4>3. fetched[b] \in Int
        BY <3>1, <4>2 DEF AmountsKnown
      <4>4. fetched'[b] = fetched[b]
        BY <1>4, <3>1, <4>1
      <4> QED
        BY <4>3, <4>4
    <3> QED
      BY <3>2, <3>3
  <2> QED
    BY <1>1, <2>1 DEF AmountsKnown, callVars, args
<1> QED
  BY <1>6, <1>7, <1>8

\* The orders of the bets in hand are written, once each.
LEMMA ProcessBatchStep ==
    ASSUME RedisInv, NEW r \in Rounds, ProcessBatch(r)
    PROVE  RedisInv'
<1> USE DEF RedisInv, TypeOK
<1>1. UNCHANGED <<clockVars, callVars, storeVars, fetched>> /\ spc[r] = "order"
  BY DEF ProcessBatch
<1>2. ClockTypeOK'
  BY <1>1 DEF ClockTypeOK, clockVars
<1>3. hand' = [hand EXCEPT ![r] = {}]
  BY DEF ProcessBatch
<1>4. \A b \in hand[r] : b \in Requests /\ fetched[b] \in Int /\ orders[b] = <<>> /\ rid[b] = r
  BY <1>1 DEF AmountsKnown, SettledOnce
<1>5. CASE orders' = [b \in Requests |-> IF b \in hand[r] THEN Append(orders[b], fetched[b])
                                                          ELSE orders[b]]
           /\ Scan(r) /\ before' = [before EXCEPT ![r] = Pushed(r) \cup hand[r]]
  <2>1. \A b \in Requests : b \in hand[r] => orders'[b] \in Seq(Int) /\ Len(orders'[b]) = 1
    BY <1>4, <1>5
  <2>2. TypeOK'
    <3>1. orders' \in [Requests -> Seq(Int)]
      BY <1>4, <1>5, <2>1
    <3>2. spc' \in [Rounds -> SettlePcs] /\ left' \in [Rounds -> SUBSET Shards]
      BY <1>5 DEF Scan, SettleTo, SettlePcs
    <3>3. before' \in [Rounds -> SUBSET Requests]
      BY <1>5 DEF Pushed
    <3> QED
      BY <1>1, <1>2, <1>3, <3>1, <3>2, <3>3 DEF callVars, args, storeVars
  <2>3. NotYetPushed'
    BY <1>1, <1>3, <1>5 DEF NotYetPushed, callVars, storeVars
  <2>4. SettledOnce'
    BY <1>1, <1>3, <1>4, <1>5, <2>1 DEF SettledOnce, callVars, args, storeVars
  <2>5. AmountsKnown'
    BY <1>1, <1>3, <1>5 DEF AmountsKnown, Scan, SettleTo, callVars, args
  <2> QED
    BY <2>2, <2>3, <2>4, <2>5
<1>6. CASE SettleTo(r, "failed") /\ UNCHANGED <<orders, left, before>>
  <2>1. TypeOK'
    BY <1>1, <1>2, <1>3, <1>6 DEF SettleTo, SettlePcs, callVars, args, storeVars
  <2>2. NotYetPushed' /\ SettledOnce'
    BY <1>1, <1>3, <1>6 DEF NotYetPushed, SettledOnce, callVars, args, storeVars
  <2>3. AmountsKnown'
    BY <1>1, <1>3, <1>6 DEF AmountsKnown, SettleTo, callVars, args
  <2> QED
    BY <2>1, <2>2, <2>3
<1> QED
  BY <1>5, <1>6 DEF ProcessBatch

\* ClearBets and the death of a settlement only take bets away.
LEMMA DropStep ==
    ASSUME RedisInv, NEW r \in Rounds,
           ClearData(r) \/ (\E s \in Shards : ClearQueue(r, s)) \/ Crash(r)
    PROVE  RedisInv'
<1> USE DEF RedisInv, TypeOK
<1>1. UNCHANGED <<clockVars, callVars, index, fetched, orders, before>>
  BY DEF ClearData, ClearQueue, Crash, storeVars
<1>2. ClockTypeOK'
  BY <1>1 DEF ClockTypeOK, clockVars
<1>3. /\ data' \in [Requests -> Int \cup {NoBet}] /\ left' \in [Rounds -> SUBSET Shards]
      /\ queue' \in [Rounds -> [Shards -> SUBSET Requests]] /\ hand' \in [Rounds -> SUBSET Requests]
      /\ spc' \in [Rounds -> SettlePcs]
  <2>1. CASE ClearData(r)
    BY <2>1 DEF ClearData, SettleTo, SettlePcs
  <2>2. ASSUME NEW s \in Shards, ClearQueue(r, s)
        PROVE  /\ data' \in [Requests -> Int \cup {NoBet}] /\ left' \in [Rounds -> SUBSET Shards]
               /\ queue' \in [Rounds -> [Shards -> SUBSET Requests]]
               /\ hand' \in [Rounds -> SUBSET Requests] /\ spc' \in [Rounds -> SettlePcs]
    BY <2>2 DEF ClearQueue, SettleTo, SettlePcs
  <2>3. CASE Crash(r)
    BY <2>3 DEF Crash, SettleTo, SettlePcs, storeVars
  <2> QED
    BY <2>1, <2>2, <2>3
<1>4. \A x \in Rounds : /\ hand'[x] \subseteq hand[x]
                        /\ \A y \in Shards : queue'[x][y] \subseteq queue[x][y]
                        /\ spc'[x] = "order" => spc[x] = "order"
  <2>1. CASE ClearData(r)
    BY <2>1 DEF ClearData, SettleTo
  <2>2. ASSUME NEW s \in Shards, ClearQueue(r, s)
        PROVE  \A x \in Rounds : /\ hand'[x] \subseteq hand[x]
                                 /\ \A y \in Shards : queue'[x][y] \subseteq queue[x][y]
                                 /\ spc'[x] = "order" => spc[x] = "order"
    BY <2>2 DEF ClearQueue, SettleTo
  <2>3. CASE Crash(r)
    BY <2>3 DEF Crash, SettleTo, storeVars
  <2> QED
    BY <2>1, <2>2, <2>3
<1>5. TypeOK'
  <2>1. UNCHANGED <<user, color, amount, view, pc, rid, found, copy, wrote, raced>>
    BY <1>1 DEF callVars, args
  <2>2. /\ user' \in [Requests -> Users] /\ color' \in [Requests -> Colors]
        /\ amount' \in [Requests -> Amounts] /\ view' \in [Requests -> SUBSET Requests]
        /\ pc' \in [Requests -> RequestPcs] /\ rid' \in [Requests -> 0 .. MaxRounds]
        /\ found' \in [Requests -> Requests \cup {NoBet}]
        /\ copy' \in [Requests -> Int \cup {NoBet}]
        /\ wrote' \subseteq Requests /\ raced' \subseteq Requests
    BY <2>1
  <2>3. /\ index' \in [Rounds -> [Users -> [Colors -> Requests \cup {NoBet}]]]
        /\ fetched' \in [Requests -> Int \cup {NoBet}]
        /\ orders' \in [Requests -> Seq(Int)] /\ before' \in [Rounds -> SUBSET Requests]
    BY <1>1
  <2> QED
    BY <1>2, <1>3, <2>2, <2>3
<1>6. NotYetPushed' /\ SettledOnce'
  BY <1>1, <1>4 DEF NotYetPushed, SettledOnce, callVars, args
<1>7. AmountsKnown'
  BY <1>1, <1>4 DEF AmountsKnown, callVars, args
<1> QED
  BY <1>5, <1>6, <1>7

\* RedisInv is inductive.
LEMMA RedisInvStep == RedisInv /\ [Next]_vars => RedisInv'
<1> SUFFICES ASSUME RedisInv, [Next]_vars PROVE RedisInv'
  OBVIOUS
<1>1. CASE Tick
  <2>1. ClockTypeOK'
    BY <1>1, ClockType DEF Tick, ClockNext, RedisInv, TypeOK
  <2> QED
    BY <1>1, <2>1
    DEF Tick, RedisInv, TypeOK, NotYetPushed, AmountsKnown, SettledOnce, callVars, args, storeVars,
        settleVars
<1>2. ASSUME NEW r \in Rounds, SettleRound(r) \/ Crash(r) PROVE RedisInv'
  BY <1>2, PopShardStep, FetchBetsStep, ProcessBatchStep, DropStep DEF SettleRound
<1>3. CASE UNCHANGED vars
  BY <1>3
  DEF vars, RedisInv, TypeOK, NotYetPushed, AmountsKnown, SettledOnce, clockVars, callVars, args,
      storeVars, settleVars, ClockTypeOK
<1> QED
  BY <1>1, <1>2, <1>3, RequestStep, GetStateStep, RoundResultStep DEF Next

\* It holds initially.
LEMMA RedisInvInit == Init => RedisInv
<1> SUFFICES ASSUME Init PROVE RedisInv
  OBVIOUS
<1>1. ClockTypeOK
  BY MaxRoundsAssumption DEF Init, ClockInit, ClockTypeOK, Phases
<1>2. TypeOK
  BY <1>1, MaxRoundsAssumption DEF Init, TypeOK, RequestPcs, SettlePcs
<1> QED
  BY <1>2 DEF Init, RedisInv, NotYetPushed, AmountsKnown, SettledOnce

\* Every variable of the Redis model stays in its domain; in particular no amount
\* is added to or ordered before it has been read.
THEOREM TypeCorrect == Spec => []TypeOK
<1>1. RedisInv => TypeOK
  BY DEF RedisInv
<1> QED
  BY <1>1, RedisInvInit, RedisInvStep, PTL DEF Spec

\* With the Redis repository a bet is never in two queues or hands and never ordered
\* twice, whatever PlaceBet calls, settlements and crashes do (LPOP of the bet IDs).
THEOREM NeverSettledTwice == Spec => []SettledOnce
<1>1. RedisInv => SettledOnce
  BY DEF RedisInv
<1> QED
  BY <1>1, RedisInvInit, RedisInvStep, PTL DEF Spec

-----------------------------------------------------------------------------
(* Nothing is left behind, and GetState shows every confirmed bet.         *)
(*                                                                         *)
(* What was saved keeps its data until ClearData, and only such bets are   *)
(* indexed, pushed or popped.  So FetchBets never comes back empty-handed, *)
(* the loop ends only after a call that found every shard empty, and that  *)
(* call has visited a shard after all bets pushed before it began.         *)

\* Request b has saved a bet of its own.
Saved(b) ==
    /\ b \in Requests /\ b \in wrote /\ found[b] = NoBet /\ rid[b] \in Rounds
    /\ pc[b] \notin {"idle", "recorded", "indexed", "found", "data"}

\* The index leads to a saved bet of that round, player and colour.
IndexInv ==
    \A r \in Rounds, u \in Users, c \in Colors : index[r][u][c] # NoBet =>
        /\ Saved(index[r][u][c]) /\ rid[index[r][u][c]] = r
        /\ user[index[r][u][c]] = u /\ color[index[r][u][c]] = c

\* What a call knows of the index and of the bets it has found.
CallInv(q) ==
    /\ pc[q] \in {"indexed", "found", "ok"} => index[rid[q]][user[q]][color[q]] # NoBet
    /\ pc[q] \in {"push", "index"} => Saved(q)
    /\ pc[q] = "data" => found[q] = NoBet
    /\ pc[q] \in {"idle", "recorded", "indexed", "found", "data"} => q \notin wrote
    /\ pc[q] = "ids" => \A b \in view[q] : Saved(b) /\ rid[b] = rid[q]

CallsInv == \A q \in Requests : CallInv(q)

\* Only saved bets are pushed and popped, and a saved bet has its data until the
\* settlement of its round clears it.
QueuedInv ==
    /\ \A r \in Rounds : \A b \in hand[r] : Saved(b)
    /\ \A r \in Rounds, s \in Shards : \A b \in queue[r][s] : Saved(b)

DataInv == \A b \in Requests : Saved(b) /\ ~Cleared(rid[b]) => data[b] # NoBet

\* A bet pushed before the current call of GetBetsForSettlement has an order or waits
\* in a shard the call has not visited; a settlement leaves its loop only from there.
ScanInv(r) ==
    /\ spc[r] # "idle" => told[r] # <<>>
    /\ spc[r] = "scan" =>
         \A b \in before[r] : orders[b] # <<>> \/ \E s \in left[r] : b \in queue[r][s]
    /\ spc[r] = "fetch" => hand[r] # {}
    /\ spc[r] \in {"clear", "queues", "done"} => \A b \in before[r] : orders[b] # <<>>

ScansInv == \A r \in Rounds : ScanInv(r)

StoreInv == IndexInv /\ CallsInv /\ QueuedInv /\ DataInv /\ ScansInv

\* A PlaceBet or GetState call takes a step: no other call changes, and what is saved
\* stays so.
LEMMA CallFrame ==
    ASSUME RedisInv, NEW q \in Requests,
           RecordBet(q) \/ PlaceBet(q) \/ GiveUp(q) \/ GetState(q)
    PROVE  /\ UNCHANGED <<clockVars, user, color, amount, settleVars>>
           /\ \A d \in Requests \ {q} :
                pc'[d] = pc[d] /\ rid'[d] = rid[d] /\ found'[d] = found[d] /\ view'[d] = view[d]
           /\ pc[q] # "idle" => rid'[q] = rid[q]
           /\ \A b : Saved(b) => Saved(b)' /\ rid'[b] = rid[b]
<1> USE DEF RedisInv, TypeOK
<1>1. UNCHANGED <<clockVars, user, color, amount, settleVars>>
  BY DEF RecordBet, PlaceBet, ReadIndex, ReadBet, UpdateBetAmount, SaveData, PushQueue, SetIndex,
         GiveUp, GetState, GetCurrentRound, GetUserBets, ReadBets, args
<1>2. CASE RecordBet(q)
  BY <1>1, <1>2 DEF RecordBet, To, Saved, args
<1>3. CASE ReadIndex(q)
  BY <1>1, <1>3 DEF ReadIndex, To, Saved, args
<1>4. CASE ReadBet(q)
  BY <1>1, <1>4 DEF ReadBet, To, Saved, args
<1>5. CASE UpdateBetAmount(q)
  BY <1>1, <1>5 DEF UpdateBetAmount, Write, To, Saved, args
<1>6. CASE SaveData(q)
  BY <1>1, <1>6 DEF SaveData, To, Saved, args
<1>7. CASE PushQueue(q)
  BY <1>1, <1>7 DEF PushQueue, To, Saved, args
<1>8. CASE SetIndex(q)
  BY <1>1, <1>8 DEF SetIndex, To, Saved, args
<1>9. CASE GiveUp(q)
  BY <1>1, <1>9 DEF GiveUp, To, Saved, args
<1>10. CASE GetUserBets(q)
  BY <1>1, <1>10 DEF GetUserBets, To, Saved
<1>11. CASE ReadBets(q)
  BY <1>1, <1>11 DEF ReadBets, To, Saved
<1>12. CASE GetCurrentRound(q)
  BY <1>1, <1>12 DEF GetCurrentRound, To, Saved, args
<1> QED
  BY <1>2, <1>3, <1>4, <1>5, <1>6, <1>7, <1>8, <1>9, <1>10, <1>11, <1>12 DEF PlaceBet, GetState

\* The parts of StoreInv that a step of call q leaves to show: what is new in the index,
\* in the queue and in the data, and where q is now.
LEMMA CallStoreStep ==
    ASSUME RedisInv, RedisInv', StoreInv, NEW q \in Requests,
           RecordBet(q) \/ PlaceBet(q) \/ GiveUp(q) \/ GetState(q),
           \A r \in Rounds, u \in Users, c \in Colors : index'[r][u][c] # index[r][u][c] =>
               /\ index'[r][u][c] = q /\ Saved(q)
               /\ r = rid[q] /\ u = user[q] /\ c = color[q],
           \A r \in Rounds, s \in Shards : queue[r][s] \subseteq queue'[r][s]
                /\ \A b \in queue'[r][s] \ queue[r][s] : Saved(b),
           \A b \in Requests : data[b] # NoBet => data'[b] # NoBet,
           Saved(q)' /\ ~Saved(q) => data'[q] # NoBet,
           CallInv(q)'
    PROVE  StoreInv'
<1>1. IndexInv /\ CallsInv /\ QueuedInv /\ DataInv /\ ScansInv /\ TypeOK /\ TypeOK'
  BY DEF StoreInv, RedisInv
<1>2. UNCHANGED <<clockVars, user, color, amount, settleVars>>
      /\ \A b : Saved(b) => Saved(b)' /\ rid'[b] = rid[b]
  BY CallFrame
<1>3. \A r \in Rounds, u \in Users, c \in Colors : index[r][u][c] # NoBet => index'[r][u][c] # NoBet
  BY RBNames
<1>4. IndexInv'
  <2> SUFFICES ASSUME NEW r \in Rounds, NEW u \in Users, NEW c \in Colors, index'[r][u][c] # NoBet
               PROVE  /\ Saved(index[r][u][c])' /\ rid'[index'[r][u][c]] = r
                      /\ user'[index'[r][u][c]] = u /\ color'[index'[r][u][c]] = c
    BY DEF IndexInv
  <2>1. PICK b : b = index'[r][u][c]
    OBVIOUS
  <2>2. Saved(b) /\ rid[b] = r /\ user[b] = u /\ color[b] = c
    BY <1>1, <2>1 DEF IndexInv
  <2>3. Saved(b)' /\ rid'[b] = r /\ user'[b] = u /\ color'[b] = c
    BY <1>2, <2>2
  <2> QED
    BY <2>1, <2>3 DEF Saved
<1>5. CallsInv'
  <2> SUFFICES ASSUME NEW d \in Requests, d # q
               PROVE  CallInv(d)'
    BY DEF CallsInv
  <2>1. pc'[d] = pc[d] /\ rid'[d] = rid[d] /\ found'[d] = found[d] /\ view'[d] = view[d]
    BY CallFrame
  <2>2. CallInv(d)
    BY <1>1 DEF CallsInv
  <2>3. pc[d] \in {"indexed", "found", "ok"} => rid[d] \in Rounds /\ user[d] \in Users
                                                /\ color[d] \in Colors
    BY <1>1 DEF RedisInv, NotYetPushed, TypeOK
  <2>4. pc'[d] \in {"indexed", "found", "ok"} => index'[rid'[d]][user'[d]][color'[d]] # NoBet
    BY <1>2, <1>3, <2>1, <2>2, <2>3 DEF CallInv
  <2>5. pc'[d] = "ids" => \A b \in view'[d] : Saved(b)' /\ rid'[b] = rid'[d]
    BY <1>2, <2>1, <2>2 DEF CallInv
  <2>6. d \in wrote' => d \in wrote
    <3>1. UpdateBetAmount(q) \/ SaveData(q) => wrote' \subseteq wrote \cup {q}
      BY DEF UpdateBetAmount, SaveData, Write
    <3>2. UpdateBetAmount(q) \/ SaveData(q) \/ wrote' = wrote
      BY DEF RecordBet, PlaceBet, ReadIndex, ReadBet, PushQueue, SetIndex, GiveUp, GetState, GetCurrentRound,
             GetUserBets, ReadBets
    <3> QED
      BY <3>1, <3>2
  <2> QED
    BY <1>2, <2>1, <2>2, <2>4, <2>5, <2>6 DEF CallInv
<1>6. QueuedInv'
  BY <1>1, <1>2 DEF QueuedInv, settleVars
<1>7. DataInv'
  <2> SUFFICES ASSUME NEW b \in Requests, Saved(b)', ~Cleared(rid[b])'
               PROVE  data'[b] # NoBet
    BY DEF DataInv
  <2>1. CASE Saved(b)
    <3>1. ~Cleared(rid[b])
      BY <1>2, <2>1 DEF Cleared, settleVars
    <3> QED
      BY <1>1, <2>1, <3>1 DEF DataInv
  <2>2. CASE ~Saved(b)
    <3>1. b = q
      <4> SUFFICES ASSUME b # q PROVE FALSE
        OBVIOUS
      <4>1. pc'[b] = pc[b] /\ rid'[b] = rid[b] /\ found'[b] = found[b]
        BY CallFrame
      <4>2. wrote' \subseteq wrote \cup {q}
        BY DEF RecordBet, PlaceBet, ReadIndex, ReadBet, UpdateBetAmount, Write, SaveData, PushQueue,
               SetIndex, GiveUp, GetState, GetCurrentRound, GetUserBets, ReadBets
      <4> QED
        BY <2>2, <4>1, <4>2 DEF Saved
    <3> QED
      BY <2>2, <3>1
  <2> QED
    BY <2>1, <2>2
<1>8. ScansInv'
  <2> SUFFICES ASSUME NEW r \in Rounds
               PROVE  ScanInv(r)'
    BY DEF ScansInv
  <2>1. ScanInv(r) /\ left[r] \subseteq Shards
    BY <1>1 DEF ScansInv, TypeOK
  <2>2. \A b, s : s \in left[r] /\ b \in queue[r][s] => b \in queue'[r][s]
    BY <2>1
  <2> QED
    BY <1>2, <2>1, <2>2 DEF ScanInv, settleVars, clockVars
<1> QED
  BY <1>4, <1>5, <1>6, <1>7, <1>8 DEF StoreInv

\* The commands of PlaceBet and of GetState keep StoreInv.
LEMMA CallKeepsStore ==
    ASSUME RedisInv, RedisInv', StoreInv, NEW q \in Requests,
           RecordBet(q) \/ PlaceBet(q) \/ GiveUp(q) \/ GetState(q)
    PROVE  StoreInv'
<1>1. TypeOK /\ NotYetPushed /\ AmountsKnown /\ CallInv(q) /\ IndexInv
  BY DEF RedisInv, StoreInv, CallsInv
<1>2. UNCHANGED <<user, color, amount>> /\ \A b : Saved(b) => Saved(b)' /\ rid'[b] = rid[b]
  BY CallFrame
<1>3. ASSUME NEW r \in Rounds, rid'[q] = r
      PROVE  user[q] \in Users /\ color[q] \in Colors
  BY <1>1 DEF TypeOK
<1>4. CASE RecordBet(q)
  <2>1. UNCHANGED <<storeVars, wrote>> /\ pc[q] = "idle" /\ pc'[q] = "recorded"
    BY <1>1, <1>4 DEF RecordBet, To, TypeOK
  <2>2. CallInv(q)' /\ ~Saved(q)'
    BY <1>1, <2>1 DEF CallInv, Saved
  <2> QED
    BY <1>4, <2>1, <2>2, CallStoreStep DEF storeVars
<1>5. CASE ReadIndex(q)
  <2>1. UNCHANGED <<storeVars, rid, wrote>> /\ pc[q] = "recorded"
        /\ pc'[q] \in {"data", "indexed"} /\ (pc'[q] = "data" => found'[q] = NoBet)
        /\ (pc'[q] = "indexed" => index[rid[q]][user[q]][color[q]] # NoBet)
    BY <1>1, <1>5 DEF ReadIndex, To, TypeOK
  <2>2. CallInv(q)' /\ ~Saved(q)'
    BY <1>1, <1>2, <2>1 DEF CallInv, Saved, storeVars
  <2> QED
    BY <1>5, <2>1, <2>2, CallStoreStep DEF storeVars
<1>6. CASE ReadBet(q)
  <2>1. UNCHANGED <<storeVars, rid, found, wrote>> /\ pc[q] = "indexed"
        /\ pc'[q] \in {"missing", "found"} /\ found[q] \in Requests
    BY <1>1, <1>6 DEF ReadBet, To, TypeOK, AmountsKnown
  <2>2. CallInv(q)' /\ ~Saved(q)'
    BY <1>1, <1>2, <2>1, RBNames DEF CallInv, Saved, storeVars
  <2> QED
    BY <1>6, <2>1, <2>2, CallStoreStep DEF storeVars
<1>7. CASE UpdateBetAmount(q)
  <2>1. UNCHANGED <<queue, index, rid, found>> /\ pc[q] = "found" /\ pc'[q] = "ok"
        /\ found[q] \in Requests /\ copy[q] \in Int /\ amount[q] \in Int
    BY <1>1, <1>7, RBBounds DEF UpdateBetAmount, To, TypeOK, AmountsKnown
  <2>2. CallInv(q)' /\ ~Saved(q)'
    BY <1>1, <1>2, <2>1, RBNames DEF CallInv, Saved
  <2>3. copy[q] + amount[q] # NoBet
    BY <2>1, RBNames
  <2>4. \A b \in Requests : data[b] # NoBet => data'[b] # NoBet
    BY <1>1, <1>7, <2>3 DEF UpdateBetAmount, TypeOK
  <2> QED
    BY <1>7, <2>1, <2>2, <2>4, CallStoreStep
<1>8. CASE SaveData(q)
  <2>1. UNCHANGED <<queue, index, rid, found>> /\ pc[q] = "data" /\ pc'[q] = "push"
        /\ q \in wrote' /\ amount[q] \in Int
    BY <1>1, <1>8, RBBounds DEF SaveData, To, TypeOK
  <2>2. CallInv(q)'
    BY <1>1, <2>1 DEF CallInv, Saved, NotYetPushed
  <2>3. \A b \in Requests : data'[b] = IF b = q THEN amount[q] ELSE data[b]
    BY <1>1, <1>8 DEF SaveData, TypeOK
  <2>4. amount[q] # NoBet
    BY <2>1, RBNames
  <2>5. data'[q] # NoBet /\ \A b \in Requests : data[b] # NoBet => data'[b] # NoBet
    BY <2>3, <2>4
  <2> QED
    BY <1>8, <2>1, <2>2, <2>5, CallStoreStep
<1>9. CASE PushQueue(q)
  <2>1. UNCHANGED <<data, index, rid, found, wrote>> /\ pc[q] = "push" /\ pc'[q] = "index"
        /\ Saved(q)
    BY <1>1, <1>9 DEF PushQueue, To, TypeOK, CallInv
  <2>2. CallInv(q)'
    BY <1>2, <2>1 DEF CallInv
  <2>3. rid[q] \in Rounds /\ ShardOf[user[q]] \in Shards
    BY <1>1, <2>1 DEF Saved, Shards, TypeOK
  <2>4. \A r \in Rounds, s \in Shards :
            queue'[r][s] = IF r = rid[q] /\ s = ShardOf[user[q]] THEN queue[r][s] \cup {q}
                                                                 ELSE queue[r][s]
    BY <1>1, <1>9, <2>3 DEF PushQueue, TypeOK
  <2>5. \A r \in Rounds, s \in Shards : queue[r][s] \subseteq queue'[r][s]
                /\ \A b \in queue'[r][s] \ queue[r][s] : Saved(b)
    <3>1. \A r \in Rounds, s \in Shards : queue[r][s] \subseteq queue'[r][s]
      BY <2>4
    <3>2. ASSUME NEW r \in Rounds, NEW s \in Shards, NEW b \in queue'[r][s], b \notin queue[r][s]
          PROVE  b = q
      <4>1. queue'[r][s] = queue[r][s] \/ queue'[r][s] = queue[r][s] \cup {q}
        BY <2>4
      <4> QED
        BY <3>2, <4>1
    <3> QED
      BY <2>1, <3>1, <3>2
  <2> QED
    BY <1>9, <2>1, <2>2, <2>5, CallStoreStep
<1>10. CASE SetIndex(q)
  <2>1. UNCHANGED <<data, queue, rid, found, wrote>> /\ pc[q] = "index" /\ pc'[q] = "ok"
        /\ Saved(q)
    BY <1>1, <1>10 DEF SetIndex, To, TypeOK, CallInv
  <2>2. rid[q] \in Rounds /\ user[q] \in Users /\ color[q] \in Colors
    BY <1>1, <2>1 DEF Saved, TypeOK
  <2>3. \A r \in Rounds, u \in Users, c \in Colors :
            index'[r][u][c] = IF r = rid[q] /\ u = user[q] /\ c = color[q] THEN q
                                                                          ELSE index[r][u][c]
    BY <1>1, <1>10, <2>2 DEF SetIndex, TypeOK
  <2>4. CallInv(q)'
    BY <1>2, <2>1, <2>2, <2>3, RBNames DEF CallInv
  <2> QED
    BY <1>10, <2>1, <2>3, <2>4, CallStoreStep
<1>11. CASE GiveUp(q)
  <2>1. UNCHANGED <<storeVars, rid, found, wrote>> /\ pc[q] \in InProgress /\ pc'[q] = "stopped"
    BY <1>1, <1>11 DEF GiveUp, To, TypeOK
  <2>2. CallInv(q)'
    BY <2>1 DEF CallInv
  <2>3. Saved(q)' => Saved(q)
    BY <1>1, <2>1 DEF Saved, CallInv, InProgress
  <2> QED
    BY <1>11, <2>1, <2>2, <2>3, CallStoreStep DEF storeVars
<1>12. CASE GetUserBets(q)
  <2>1. UNCHANGED <<storeVars, rid, found, wrote>> /\ pc[q] = "asked" /\ pc'[q] \in {"ids", "shown"}
        /\ view'[q] = {index[rid[q]][user[q]][c] : c \in Colors} \ {NoBet}
    BY <1>1, <1>12 DEF GetUserBets, To, TypeOK
  <2>2. CallInv(q)'
    <3>1. rid[q] \in Rounds /\ user[q] \in Users
      BY <1>1, <2>1 DEF NotYetPushed, TypeOK
    <3>2. \A b \in view'[q] : Saved(b) /\ rid[b] = rid[q]
      BY <1>1, <2>1, <3>1 DEF IndexInv
    <3>3. \A b \in view'[q] : Saved(b)' /\ rid'[b] = rid'[q]
      BY <1>2, <2>1, <3>2
    <3> QED
      BY <2>1, <3>3 DEF CallInv
  <2>3. Saved(q)' => Saved(q)
    BY <2>1 DEF Saved
  <2> QED
    BY <1>12, <2>1, <2>2, <2>3, CallStoreStep DEF storeVars
<1>13. CASE ReadBets(q)
  <2>1. UNCHANGED <<storeVars, rid, found, wrote>> /\ pc[q] = "ids" /\ pc'[q] = "shown"
    BY <1>1, <1>13 DEF ReadBets, To, TypeOK
  <2>2. CallInv(q)'
    BY <2>1 DEF CallInv
  <2>3. Saved(q)' => Saved(q)
    BY <2>1 DEF Saved
  <2> QED
    BY <1>13, <2>1, <2>2, <2>3, CallStoreStep DEF storeVars
<1>14. CASE GetCurrentRound(q)
  <2>1. UNCHANGED <<storeVars, found, wrote>> /\ pc[q] = "idle" /\ pc'[q] = "asked"
    BY <1>1, <1>14 DEF GetCurrentRound, To, TypeOK
  <2>2. CallInv(q)' /\ ~Saved(q)'
    BY <1>1, <2>1 DEF CallInv, Saved
  <2> QED
    BY <1>14, <2>1, <2>2, CallStoreStep DEF storeVars
<1> QED
  BY <1>4, <1>5, <1>6, <1>7, <1>8, <1>9, <1>10, <1>11, <1>12, <1>13, <1>14 DEF PlaceBet, GetState

\* A step of the settlement of round r leaves the calls alone: what is left to show is
\* where it is now, and that it takes data away only from a round it has cleared.
LEMMA SettleStoreStep ==
    ASSUME RedisInv, StoreInv, NEW r \in Rounds,
           UNCHANGED <<callVars, index>>,
           \A x \in Rounds : told[x] # <<>> => told'[x] # <<>>,
           \A x \in Rounds \ {r} :
               /\ spc'[x] = spc[x] /\ left'[x] = left[x] /\ hand'[x] = hand[x]
               /\ before'[x] = before[x] /\ \A s \in Shards : queue'[x][s] = queue[x][s],
           \A s \in Shards : queue'[r][s] \subseteq queue[r][s],
           \A b \in hand'[r] : Saved(b),
           \A b \in Requests : orders[b] # <<>> => orders'[b] # <<>>,
           \A b \in Requests : rid[b] # r \/ spc'[r] # "queues" => data'[b] = data[b],
           Cleared(r) => Cleared(r)',
           ScanInv(r)'
    PROVE  StoreInv'
<1>1. IndexInv /\ CallsInv /\ QueuedInv /\ DataInv /\ ScansInv /\ TypeOK
  BY DEF StoreInv, RedisInv
<1>2. UNCHANGED <<user, color, amount, view, pc, rid, found, copy, wrote, index>>
  BY DEF callVars, args
<1>3. \A b : Saved(b) <=> Saved(b)'
  BY <1>2 DEF Saved
<1>4. IndexInv'
  BY <1>1, <1>2 DEF IndexInv, Saved
<1>5. CallsInv'
  BY <1>1, <1>2, <1>3 DEF CallsInv, CallInv
<1>6. QueuedInv'
  <2>1. ASSUME NEW x \in Rounds, NEW b \in hand'[x] PROVE Saved(b)
    BY <1>1, <2>1 DEF QueuedInv
  <2>2. ASSUME NEW x \in Rounds, NEW s \in Shards, NEW b \in queue'[x][s] PROVE Saved(b)
    <3>1. b \in queue[x][s]
      BY <2>2
    <3> QED
      BY <1>1, <3>1 DEF QueuedInv
  <2> QED
    BY <1>3, <2>1, <2>2 DEF QueuedInv
<1>7. DataInv'
  <2> SUFFICES ASSUME NEW b \in Requests, Saved(b), ~Cleared(rid[b])'
               PROVE  data'[b] # NoBet
    BY <1>3 DEF DataInv
  <2>1. rid[b] \in Rounds /\ rid'[b] = rid[b]
    BY <1>2 DEF Saved
  <2>2. ~Cleared(rid[b])
    BY <2>1 DEF Cleared
  <2>3. data'[b] = data[b]
    BY <2>1 DEF Cleared
  <2> QED
    BY <1>1, <2>2, <2>3 DEF DataInv
<1>8. ScansInv'
  <2> SUFFICES ASSUME NEW x \in Rounds, x # r
               PROVE  ScanInv(x)'
    BY DEF ScansInv
  <2>1. ScanInv(x) /\ left[x] \subseteq Shards /\ before[x] \subseteq Requests
    BY <1>1 DEF ScansInv, TypeOK
  <2>2. spc'[x] = spc[x] /\ left'[x] = left[x] /\ hand'[x] = hand[x] /\ before'[x] = before[x]
    OBVIOUS
  <2>3. \A s \in left[x] : queue'[x][s] = queue[x][s]
    BY <2>1
  <2> QED
    BY <2>1, <2>2, <2>3 DEF ScanInv
<1> QED
  BY <1>4, <1>5, <1>6, <1>7, <1>8 DEF StoreInv

\* At the start of GetBetsForSettlement no shard has been visited.
LEMMA ScanStart ==
    ASSUME RedisInv, NEW r \in Rounds, Scan(r), told'[r] # <<>>, UNCHANGED queue,
           \A b \in before'[r] : (\E s \in Shards : b \in queue[r][s]) \/ orders'[b] # <<>>
    PROVE  ScanInv(r)' /\ spc'[r] = "scan" /\ \A x \in Rounds \ {r} : spc'[x] = spc[x] /\ left'[x] = left[x]
<1>1. spc'[r] = "scan" /\ left'[r] = Shards
      /\ \A x \in Rounds \ {r} : spc'[x] = spc[x] /\ left'[x] = left[x]
  BY DEF Scan, SettleTo, RedisInv, TypeOK
<1> QED
  BY <1>1 DEF ScanInv

\* A settlement begins, pops, reads, orders, clears or dies.
LEMMA SettleKeepsStore ==
    ASSUME RedisInv, StoreInv, NEW r \in Rounds, RoundResult(r) \/ SettleRound(r) \/ Crash(r)
    PROVE  StoreInv'
<1>1. TypeOK /\ ScanInv(r) /\ QueuedInv /\ DataInv
  BY DEF RedisInv, StoreInv, ScansInv
<1>2. hand[r] \subseteq Requests /\ before[r] \subseteq Requests /\ left[r] \subseteq Shards
      /\ \A b \in hand[r] : Saved(b)
  BY <1>1 DEF TypeOK, QueuedInv
<1>3. CASE RoundResult(r)
  <2>1. UNCHANGED <<callVars, storeVars, hand, fetched, orders>> /\ spc[r] = "idle"
        /\ told'[r] # <<>> /\ \A x \in Rounds : told[x] # <<>> => told'[x] # <<>>
    BY <1>1, <1>3 DEF RoundResult, TellGS, ScanInv, TypeOK, ClockTypeOK
  <2>2. before' = [before EXCEPT ![r] = Pushed(r)] /\ Scan(r)
    BY <1>3 DEF RoundResult
  <2>3. \A b \in before'[r] : (\E s \in Shards : b \in queue[r][s]) \/ orders'[b] # <<>>
    BY <1>1, <2>1, <2>2 DEF Pushed, TypeOK
  <2>4. ScanInv(r)' /\ spc'[r] = "scan"
        /\ \A x \in Rounds \ {r} : spc'[x] = spc[x] /\ left'[x] = left[x]
    BY <2>1, <2>2, <2>3, ScanStart DEF storeVars
  <2>5. ~Cleared(r)
    BY <2>1 DEF Cleared
  <2>6. \A x \in Rounds \ {r} : before'[x] = before[x]
    BY <1>1, <2>2 DEF TypeOK
  <2> QED
    BY <1>2, <2>1, <2>4, <2>5, <2>6, SettleStoreStep DEF storeVars
<1>4. ASSUME NEW s \in Shards, PopShard(r, s)
      PROVE  StoreInv'
  <2>1. UNCHANGED <<clockVars, callVars, data, index, fetched, orders, before>> /\ spc[r] = "scan"
        /\ s \in left[r] /\ told' = told
    BY <1>4 DEF PopShard, clockVars
  <2>2. CASE queue[r][s] = {} /\ UNCHANGED <<queue, hand>> /\ left' = [left EXCEPT ![r] = @ \ {s}]
             /\ SettleTo(r, AfterEmpty(r, s))
    <3>1. left'[r] = left[r] \ {s} /\ \A x \in Rounds \ {r} : left'[x] = left[x] /\ spc'[x] = spc[x]
      BY <1>1, <2>2 DEF TypeOK, SettleTo
    <3>2. (spc'[r] = "clear" /\ left[r] = {s}) \/ spc'[r] = "scan"
      BY <1>1, <2>2 DEF TypeOK, SettleTo, AfterEmpty
    <3>3. \A b \in before[r] : orders[b] # <<>> \/ \E y \in left'[r] : b \in queue[r][y]
      BY <1>1, <2>1, <2>2, <3>1 DEF ScanInv
    <3>4. ScanInv(r)'
      BY <1>1, <2>1, <2>2, <3>1, <3>2, <3>3 DEF ScanInv
    <3>5. ~Cleared(r)
      BY <2>1 DEF Cleared
    <3> QED
      BY <1>2, <2>1, <2>2, <3>1, <3>4, <3>5, SettleStoreStep
  <2>3. ASSUME NEW B \in SUBSET queue[r][s], B # {},
               hand' = [hand EXCEPT ![r] = B], Pop(r, s, B), SettleTo(r, "fetch"), UNCHANGED left
        PROVE  StoreInv'
    <3>2. hand'[r] = B /\ spc'[r] = "fetch"
          /\ \A x \in Rounds \ {r} : hand'[x] = hand[x] /\ spc'[x] = spc[x]
      BY <1>1, <2>3 DEF TypeOK, SettleTo
    <3>3. \A x \in Rounds, y \in Shards :
            queue'[x][y] = IF x = r /\ y = s THEN queue[x][y] \ B ELSE queue[x][y]
      BY <1>1, <2>3 DEF Pop, TypeOK
    <3>4. ScanInv(r)'
      BY <1>1, <2>1, <2>3, <3>2 DEF ScanInv
    <3>5. \A b \in B : Saved(b)
      BY <1>1 DEF QueuedInv
    <3>6. ~Cleared(r)
      BY <2>1 DEF Cleared
    <3> QED
      BY <2>1, <2>3, <3>2, <3>3, <3>4, <3>5, <3>6, SettleStoreStep
  <2> QED
    BY <1>4, <2>2, <2>3 DEF PopShard
<1>5. CASE FetchBets(r)
  <2>1. UNCHANGED <<clockVars, callVars, storeVars, left, orders, before>> /\ spc[r] = "fetch"
        /\ told' = told
    BY <1>5 DEF FetchBets, clockVars
  <2>2. ~Cleared(r)
    BY <2>1 DEF Cleared
  <2>3. \A b \in hand[r] : data[b] # NoBet
    <3>1. \A b \in hand[r] : rid[b] = r
      BY <1>2 DEF RedisInv, SettledOnce
    <3> QED
      BY <1>1, <1>2, <2>2, <3>1 DEF DataInv
  <2>4. {b \in hand[r] : data[b] # NoBet} = hand[r] /\ hand[r] # {}
    BY <1>1, <2>1, <2>3 DEF ScanInv
  <2>5. hand' = [hand EXCEPT ![r] = hand[r]] /\ spc' = [spc EXCEPT ![r] = "order"]
    BY <1>5, <2>4 DEF FetchBets, SettleTo
  <2>6. hand' = hand /\ spc'[r] = "order" /\ \A x \in Rounds \ {r} : spc'[x] = spc[x]
    BY <1>1, <2>5 DEF TypeOK
  <2>7. ScanInv(r)'
    BY <1>1, <2>1, <2>6 DEF ScanInv
  <2> QED
    BY <1>2, <2>1, <2>2, <2>6, <2>7, SettleStoreStep DEF storeVars
<1>6. CASE ProcessBatch(r)
  <2>1. UNCHANGED <<clockVars, callVars, storeVars, fetched>> /\ spc[r] = "order"
        /\ hand' = [hand EXCEPT ![r] = {}] /\ told' = told
    BY <1>6 DEF ProcessBatch, clockVars
  <2>2. hand'[r] = {} /\ \A x \in Rounds \ {r} : hand'[x] = hand[x]
    BY <1>1, <2>1 DEF TypeOK
  <2>3. ~Cleared(r) /\ told[r] # <<>>
    BY <1>1, <2>1 DEF Cleared, ScanInv
  <2>4. CASE orders' = [b \in Requests |-> IF b \in hand[r] THEN Append(orders[b], fetched[b])
                                                            ELSE orders[b]]
             /\ Scan(r) /\ before' = [before EXCEPT ![r] = Pushed(r) \cup hand[r]]
    <3>1. \A b \in hand[r] : orders'[b] # <<>>
      <4>1. \A b \in hand[r] : orders[b] = <<>> /\ fetched[b] \in Int
        BY <1>2, <2>1 DEF RedisInv, AmountsKnown, SettledOnce
      <4>2. hand[r] \subseteq Requests
        BY <1>1 DEF TypeOK
      <4>3. \A b \in hand[r] : orders'[b] = Append(<<>>, fetched[b])
        BY <2>4, <4>1, <4>2
      <4>4. \A x \in Int : Append(<<>>, x) # <<>>
        OBVIOUS
      <4> QED
        BY <4>1, <4>3, <4>4
    <3>2. \A b \in Requests : orders[b] # <<>> => orders'[b] # <<>>
      BY <2>4, <3>1
    <3>3. before'[r] = Pushed(r) \cup hand[r] /\ \A x \in Rounds \ {r} : before'[x] = before[x]
      BY <1>1, <2>4 DEF TypeOK
    <3>4. \A b \in before'[r] : (\E s \in Shards : b \in queue[r][s]) \/ orders'[b] # <<>>
      BY <3>1, <3>2, <3>3 DEF Pushed
    <3>5. ScanInv(r)' /\ spc'[r] = "scan"
          /\ \A x \in Rounds \ {r} : spc'[x] = spc[x] /\ left'[x] = left[x]
      BY <2>1, <2>3, <2>4, <3>4, ScanStart DEF storeVars
    <3> QED
      BY <2>1, <2>2, <2>3, <3>2, <3>3, <3>5, SettleStoreStep DEF storeVars
  <2>5. CASE SettleTo(r, "failed") /\ UNCHANGED <<orders, left, before>>
    <3>1. spc'[r] = "failed" /\ \A x \in Rounds \ {r} : spc'[x] = spc[x]
      BY <1>1, <2>5 DEF SettleTo, TypeOK
    <3>2. ScanInv(r)'
      BY <2>1, <2>3, <3>1 DEF ScanInv
    <3> QED
      BY <2>1, <2>2, <2>3, <2>5, <3>1, <3>2, SettleStoreStep DEF storeVars
  <2> QED
    BY <1>6, <2>4, <2>5 DEF ProcessBatch
<1>7. CASE ClearData(r)
  <2>1. UNCHANGED <<clockVars, callVars, queue, index, hand, fetched, orders, before>>
        /\ spc[r] = "clear" /\ told' = told
    BY <1>7 DEF ClearData, clockVars
  <2>2. spc'[r] = "queues" /\ \A x \in Rounds \ {r} : spc'[x] = spc[x] /\ left'[x] = left[x]
    BY <1>1, <1>7 DEF ClearData, SettleTo, TypeOK
  <2>3. \A b \in Requests : rid[b] # r => data'[b] = data[b]
    BY <1>7 DEF ClearData
  <2>4. ScanInv(r)' /\ ~Cleared(r)
    BY <1>1, <2>1, <2>2 DEF ScanInv, Cleared
  <2> QED
    BY <1>2, <2>1, <2>2, <2>3, <2>4, SettleStoreStep
<1>8. ASSUME NEW s \in Shards, ClearQueue(r, s)
      PROVE  StoreInv'
  <2>1. UNCHANGED <<clockVars, callVars, data, index, hand, fetched, orders, before>>
        /\ spc[r] = "queues" /\ told' = told
    BY <1>8 DEF ClearQueue, clockVars
  <2>2. spc'[r] \in {"queues", "done"}
        /\ \A x \in Rounds \ {r} : spc'[x] = spc[x] /\ left'[x] = left[x]
    BY <1>1, <1>8 DEF ClearQueue, SettleTo, TypeOK
  <2>3. \A x \in Rounds, y \in Shards :
            queue'[x][y] = IF x = r /\ y = s THEN {} ELSE queue[x][y]
    BY <1>1, <1>8 DEF ClearQueue, TypeOK
  <2>4. ScanInv(r)' /\ Cleared(r)'
    BY <1>1, <2>1, <2>2 DEF ScanInv, Cleared
  <2> QED
    BY <1>2, <2>1, <2>2, <2>3, <2>4, SettleStoreStep
<1>9. CASE Crash(r)
  <2>1. UNCHANGED <<clockVars, callVars, storeVars, left, fetched, orders, before>>
        /\ spc[r] # "idle" /\ told' = told
    BY <1>9 DEF Crash, clockVars
  <2>2. spc'[r] = "failed" /\ hand'[r] = {}
        /\ \A x \in Rounds \ {r} : spc'[x] = spc[x] /\ hand'[x] = hand[x]
    BY <1>1, <1>9 DEF Crash, SettleTo, TypeOK
  <2>3. ScanInv(r)' /\ Cleared(r)'
    BY <1>1, <2>1, <2>2 DEF ScanInv, Cleared
  <2> QED
    BY <2>1, <2>2, <2>3, SettleStoreStep DEF storeVars
<1> QED
  BY <1>3, <1>4, <1>5, <1>6, <1>7, <1>8, <1>9 DEF SettleRound

\* StoreInv is inductive on top of RedisInv.
LEMMA StoreInvStep == RedisInv /\ RedisInv' /\ StoreInv /\ [Next]_vars => StoreInv'
<1> SUFFICES ASSUME RedisInv, RedisInv', StoreInv, [Next]_vars PROVE StoreInv'
  OBVIOUS
<1>1. CASE Tick \/ UNCHANGED vars
  <2>1. [ClockNext]_clockVars /\ UNCHANGED <<callVars, storeVars, settleVars>>
    BY <1>1 DEF Tick, ClockNext, vars
  <2>2. \A r \in Rounds : told[r] # <<>> => told'[r] = told[r]
    BY <2>1, ToldStays DEF RedisInv, TypeOK
  <2>3. \A b : Saved(b) <=> Saved(b)'
    BY <2>1 DEF Saved, callVars, args
  <2>4. IndexInv' /\ CallsInv'
    BY <2>1, <2>3 DEF StoreInv, IndexInv, CallsInv, CallInv, Saved, callVars, args, storeVars
  <2>5. QueuedInv' /\ DataInv'
    BY <2>1, <2>3 DEF StoreInv, QueuedInv, DataInv, Cleared, callVars, storeVars, settleVars
  <2>6. ScansInv'
    BY <2>1, <2>2 DEF StoreInv, ScansInv, ScanInv, storeVars, settleVars
  <2> QED
    BY <2>4, <2>5, <2>6 DEF StoreInv
<1> QED
  BY <1>1, CallKeepsStore, SettleKeepsStore DEF Next

\* It holds initially.
LEMMA StoreInvInit == Init => StoreInv
<1> SUFFICES ASSUME Init PROVE StoreInv
  OBVIOUS
<1>1. IndexInv /\ CallsInv /\ QueuedInv
  BY DEF Init, IndexInv, CallsInv, CallInv, QueuedInv
<1>2. DataInv /\ ScansInv
  BY DEF Init, DataInv, Saved, ScansInv, ScanInv
<1> QED
  BY <1>1, <1>2 DEF StoreInv

\* Index, data, queues and settlements of the Redis repository stay consistent: only
\* saved bets are indexed, pushed or popped, and they have their data until ClearBets.
THEOREM StoreInvariant == Spec => [](RedisInv /\ StoreInv)
BY RedisInvInit, RedisInvStep, StoreInvInit, StoreInvStep, PTL DEF Spec

\* SettleRound leaves its loop only when every bet that was in a queue as its last
\* GetBetsForSettlement began has an order.
THEOREM SettlementLeavesNothing == Spec => []NothingLeftBehind
<1>1. RedisInv /\ StoreInv => NothingLeftBehind
  BY DEF StoreInv, ScansInv, ScanInv, NothingLeftBehind
<1> QED
  BY <1>1, StoreInvariant, PTL

\* GetState shows a bet for every area with a confirmed bet, and drops none between its
\* two commands unless the settlement clears the round.
THEOREM StateShowsConfirmedBets == Spec => GetStateComplete
<1> DEFINE Step ==
      \A q \in Requests :
         /\ pc[q] = "asked" /\ pc'[q] \in {"ids", "shown"} =>
              \A p \in Requests :
                pc[p] = "ok" /\ rid[p] = rid[q] /\ user[p] = user[q] =>
                  \E b \in view'[q] : color[b] = color[p] /\ user[b] = user[p]
         /\ pc[q] = "ids" /\ pc'[q] = "shown" /\ ~Cleared(rid[q]) => view'[q] = view[q]
<1>1. ASSUME RedisInv, StoreInv, [Next]_vars PROVE [Step]_vars
  <2> SUFFICES ASSUME Next, NEW q \in Requests
               PROVE  /\ pc[q] = "asked" /\ pc'[q] \in {"ids", "shown"} =>
                           \A p \in Requests :
                             pc[p] = "ok" /\ rid[p] = rid[q] /\ user[p] = user[q] =>
                               \E b \in view'[q] : color[b] = color[p] /\ user[b] = user[p]
                      /\ pc[q] = "ids" /\ pc'[q] = "shown" /\ ~Cleared(rid[q]) => view'[q] = view[q]
    BY <1>1
  <2>1. TypeOK /\ CallInv(q) /\ IndexInv /\ DataInv /\ CallsInv
    BY <1>1 DEF RedisInv, StoreInv, CallsInv
  <2>2. pc[q] \in {"asked", "ids"} /\ pc'[q] \in {"ids", "shown"} /\ pc'[q] # pc[q] => GetState(q)
    <3> SUFFICES ASSUME pc[q] \in {"asked", "ids"}, pc'[q] \in {"ids", "shown"}, pc'[q] # pc[q]
                 PROVE  GetState(q)
      OBVIOUS
    <3>1. ASSUME NEW d \in Requests, RecordBet(d) \/ PlaceBet(d) \/ GiveUp(d) \/ GetState(d)
          PROVE  GetState(q)
      <4>1. d = q
        BY <1>1, <3>1, CallFrame
      <4>2. ~RecordBet(q)
        BY <2>1 DEF RecordBet, To, TypeOK
      <4> QED
        BY <3>1, <4>1, <4>2 DEF PlaceBet, ReadIndex, ReadBet, UpdateBetAmount, SaveData, PushQueue,
             SetIndex, GiveUp, InProgress
    <3>2. ASSUME NEW r \in Rounds, RoundResult(r) \/ SettleRound(r) \/ Crash(r)
          PROVE  UNCHANGED pc
      BY <3>2 DEF RoundResult, SettleRound, PopShard, FetchBets, ProcessBatch, ClearData,
           ClearQueue, Crash, callVars
    <3>3. CASE Tick
      BY <3>3 DEF Tick, callVars
    <3> QED
      BY <3>1, <3>2, <3>3 DEF Next
  <2>3. ASSUME pc[q] = "asked", pc'[q] \in {"ids", "shown"}, NEW p \in Requests,
               pc[p] = "ok", rid[p] = rid[q], user[p] = user[q]
        PROVE  \E b \in view'[q] : color[b] = color[p] /\ user[b] = user[p]
    <3>1. GetUserBets(q)
      BY <2>2, <2>3 DEF GetState, GetCurrentRound, ReadBets
    <3>2. rid[q] \in Rounds /\ view'[q] = {index[rid[q]][user[q]][c] : c \in Colors} \ {NoBet}
      BY <1>1, <2>1, <2>3, <3>1 DEF GetUserBets, RedisInv, NotYetPushed, TypeOK
    <3>3. PICK b : b = index[rid[q]][user[q]][color[p]]
      OBVIOUS
    <3>4. user[q] \in Users /\ color[p] \in Colors
      BY <2>1 DEF TypeOK
    <3>5. b # NoBet
      BY <2>1, <2>3, <3>3 DEF CallsInv, CallInv
    <3>6. user[b] = user[q] /\ color[b] = color[p]
      BY <2>1, <3>2, <3>3, <3>4, <3>5 DEF IndexInv
    <3> QED
      BY <2>3, <3>2, <3>3, <3>4, <3>5, <3>6
  <2>4. ASSUME pc[q] = "ids", pc'[q] = "shown", ~Cleared(rid[q])
        PROVE  view'[q] = view[q]
    <3>1. ReadBets(q)
      BY <2>2, <2>4 DEF GetState, GetCurrentRound, GetUserBets
    <3>2. view'[q] = {b \in view[q] : data[b] # NoBet}
      BY <2>1, <3>1 DEF ReadBets, TypeOK
    <3>3. \A b \in view[q] : data[b] # NoBet
      BY <2>1, <2>4 DEF CallInv, DataInv, Saved
    <3> QED
      BY <3>2, <3>3
  <2> QED
    BY <2>3, <2>4
<1> QED
  BY <1>1, StoreInvariant, PTL DEF Spec, GetStateComplete

----------------------------------------------------------------------------
\* Stakes: no interleaving counts one twice, and none loses one that did not race.

\* The amounts of a bet are whole ones of the stakes it is sure of and may have.
LEMMA WholesSame ==
    ASSUME amount' = amount, NEW b, Added(b) \subseteq Added(b)', Sure(b)' = Sure(b)
    PROVE  WholeAmounts(b) \subseteq WholeAmounts(b)'
<1> SUFFICES ASSUME NEW a \in WholeAmounts(b) PROVE a \in WholeAmounts(b)'
  OBVIOUS
<1>1. PICK S \in {T \in SUBSET Added(b) : Sure(b) \subseteq T} :
         a = amount[b] + SumFunctionOnSet(amount, S)
  BY DEF WholeAmounts
<1>2. S \in {T \in SUBSET (Added(b)') : Sure(b)' \subseteq T}
  OBVIOUS
<1> QED
  BY <1>1, <1>2 DEF WholeAmounts

\* A first stake is whole ...
LEMMA WholeFirst ==
    ASSUME NEW b \in Requests, amount[b] \in Int, Sure(b) = {}
    PROVE  amount[b] \in WholeAmounts(b)
<1>1. SumFunctionOnSet(amount, {}) = 0 /\ {} \in {T \in SUBSET Added(b) : Sure(b) \subseteq T}
  BY SumEmpty
<1>2. amount[b] = amount[b] + SumFunctionOnSet(amount, {})
  BY <1>1
<1> QED
  BY <1>1, <1>2 DEF WholeAmounts

\* ... and so is a whole amount with one more stake.
LEMMA WholeMore ==
    ASSUME TypeOK, NEW b \in Requests, NEW a \in WholeAmounts(b), NEW q \in Requests, q \notin wrote,
           amount' = amount, found' = found, found[q] = b, wrote' = wrote \cup {q},
           raced \subseteq raced'
    PROVE  a + amount[q] \in WholeAmounts(b)'
<1>1. PICK S \in {T \in SUBSET Added(b) : Sure(b) \subseteq T} :
         a = amount[b] + SumFunctionOnSet(amount, S)
  BY DEF WholeAmounts
<1>2. S \cup {q} \in {T \in SUBSET (Added(b)') : Sure(b)' \subseteq T}
      /\ q \notin S /\ S \in SUBSET Requests
  BY DEF Added, Sure, TypeOK
<1>3. IsFiniteSet(S) /\ amount[q] \in Int /\ amount[b] \in Int /\ \A x \in S : amount[x] \in Int
  BY <1>2, RBRequests, RBBounds, FS_Subset DEF TypeOK
<1>4. SumFunctionOnSet(amount, S \cup {q}) = amount[q] + SumFunctionOnSet(amount, S)
  BY <1>2, <1>3, SumInsert
<1>5. SumFunctionOnSet(amount, S) \in Int
  BY <1>3, SumInt
<1>6. a + amount[q] = amount[b] + SumFunctionOnSet(amount, S \cup {q})
  BY <1>1, <1>3, <1>4, <1>5
<1> QED
  BY <1>2, <1>6 DEF WholeAmounts

\* A step of a call keeps the amounts whole.
LEMMA CallStakes ==
    ASSUME RedisInv, StoreInv, StakesInv, NEW q \in Requests,
           RecordBet(q) \/ PlaceBet(q) \/ GiveUp(q) \/ GetState(q)
    PROVE  StakesInv'
<1> USE DEF RedisInv, TypeOK
<1>0. CallInv(q) /\ IndexInv
  BY DEF StoreInv, CallsInv
<1>1. UNCHANGED <<amount, spc, hand, fetched, orders>>
  BY DEF RecordBet, PlaceBet, ReadIndex, ReadBet, UpdateBetAmount, SaveData, PushQueue, SetIndex,
         GiveUp, GetState, GetCurrentRound, GetUserBets, ReadBets, args, settleVars
<1>2. /\ pc[q] \notin {"ok", "stopped"}
      /\ pc[q] \in {"push", "index"} => pc'[q] \in {"push", "index", "ok", "stopped"}
      /\ \A x \in Requests : x # q => pc'[x] = pc[x] /\ found'[x] = found[x] /\ copy'[x] = copy[x]
  BY DEF RecordBet, PlaceBet, ReadIndex, ReadBet, UpdateBetAmount, SaveData, PushQueue, SetIndex,
         GiveUp, GetState, GetCurrentRound, GetUserBets, ReadBets, To, InProgress
<1>3. \/ UNCHANGED <<wrote, raced, data>>
      \/ UpdateBetAmount(q) \/ SaveData(q)
  BY DEF RecordBet, PlaceBet, ReadIndex, ReadBet, PushQueue, SetIndex,
         GiveUp, GetState, GetCurrentRound, GetUserBets, ReadBets, storeVars
<1>4. wrote' = wrote \/ (wrote' = wrote \cup {q} /\ pc'[q] \in {"push", "ok"} /\ q \notin wrote)
  BY <1>3 DEF UpdateBetAmount, SaveData, Write, To, StakesInv
<1>5. \A x \in wrote : x \in wrote' /\ found'[x] = found[x]
  <2>1. q \in wrote => pc[q] \in {"push", "index"}
    BY <1>2 DEF StakesInv
  <2>2. pc[q] \in {"push", "index"} => found'[q] = found[q]
    BY DEF RecordBet, PlaceBet, ReadIndex, ReadBet, UpdateBetAmount, SaveData, PushQueue, SetIndex,
           GiveUp, GetState, GetCurrentRound, GetUserBets, ReadBets
  <2> QED
    BY <1>2, <1>4, <2>1, <2>2
<1>6. \A x \in wrote' : pc'[x] \in {"push", "index", "ok", "stopped"}
  <2>1. ASSUME NEW x \in wrote PROVE pc'[x] \in {"push", "index", "ok", "stopped"}
    <3>1. x \in Requests /\ pc[x] \in {"push", "index", "ok", "stopped"}
      BY DEF StakesInv
    <3> QED
      BY <1>2, <3>1
  <2> QED
    BY <1>4, <2>1
<1>7. \A x, b \in Requests : found'[x] = b => b \in wrote'
  <2>1. ASSUME NEW b \in Requests, found'[q] = b, found'[q] # found[q] PROVE b \in wrote
    <3>1. ReadIndex(q)
      BY <2>1 DEF RecordBet, PlaceBet, ReadBet, UpdateBetAmount, SaveData, PushQueue, SetIndex,
                  GiveUp, GetState, GetCurrentRound, GetUserBets, ReadBets
    <3>2. rid[q] \in Rounds /\ b = index[rid[q]][user[q]][color[q]] /\ b # NoBet
      BY <2>1, <3>1, RBNames DEF ReadIndex, NotYetPushed
    <3> QED
      BY <1>0, <3>2 DEF IndexInv, Saved
  <2> QED
    BY <1>2, <1>4, <2>1 DEF StakesInv
\* What there is left to show about the amounts.
<1>8. ASSUME \A b \in Requests : data'[b] # NoBet => data'[b] \in WholeAmounts(b)',
             \A x, b \in Requests : pc'[x] = "found" /\ found'[x] = b => copy'[x] \in WholeAmounts(b)',
             \A b \in Requests : fetched[b] # NoBet => WholeAmounts(b) \subseteq WholeAmounts(b)'
      PROVE  StakesInv'
  <2>1. \A b \in Requests : orders'[b] # <<>> => orders'[b][1] \in WholeAmounts(b)'
    BY <1>1, <1>8 DEF StakesInv, StakesWhole
  <2>2. ASSUME NEW r \in Rounds, spc'[r] = "order", NEW b \in hand'[r]
        PROVE  fetched'[b] \in WholeAmounts(b)'
    <3>1. spc[r] = "order" /\ b \in hand[r] /\ b \in Requests
      BY <1>1, <2>2
    <3>2. fetched[b] \in WholeAmounts(b)
      BY <3>1 DEF StakesInv
    <3>3. fetched[b] # NoBet
      BY <3>1, RBNames DEF AmountsKnown
    <3> QED
      BY <1>1, <1>8, <3>1, <3>2, <3>3
  <2>3. \A b \in Requests : orders'[b] # <<>> => fetched'[b] # NoBet
    BY <1>1 DEF StakesInv
  <2> QED
    BY <1>6, <1>7, <1>8, <2>1, <2>2, <2>3 DEF StakesInv, StakesWhole
<1>9. CASE UpdateBetAmount(q)
  <2>0. PICK f \in Requests : f = found[q]
    BY <1>9 DEF UpdateBetAmount, AmountsKnown
  <2>1. /\ pc[q] = "found" /\ pc'[q] = "ok" /\ q \notin wrote /\ found' = found /\ copy' = copy
        /\ wrote' = wrote \cup {q} /\ raced' = (IF InCopy(f, q) THEN raced \cup {q} ELSE raced)
        /\ data'[f] = copy[q] + amount[q] /\ \A b \in Requests : b # f => data'[b] = data[b]
    BY <1>9, <2>0 DEF UpdateBetAmount, Write, To, StakesInv
  <2>2. ASSUME NEW b \in Requests, b # f \/ InCopy(f, q)
        PROVE  WholeAmounts(b) \subseteq WholeAmounts(b)'
    <3>1. Added(b) \subseteq Added(b)' /\ Sure(b)' = Sure(b)
      BY <2>0, <2>1, <2>2 DEF Added, Sure
    <3> QED
      BY <1>1, <3>1, WholesSame
  <2>3. data'[f] \in WholeAmounts(f)'
    <3>1. copy[q] \in WholeAmounts(f) /\ raced \subseteq raced'
      BY <2>0, <2>1 DEF StakesInv
    <3> HIDE DEF TypeOK
    <3> QED
      BY <1>1, <2>0, <2>1, <3>1, WholeMore DEF RedisInv
  <2>4. ASSUME NEW b \in Requests, data'[b] # NoBet PROVE data'[b] \in WholeAmounts(b)'
    <3>1. CASE b = f
      BY <2>3, <3>1
    <3>2. CASE b # f
      BY <2>1, <2>2, <2>4, <3>2 DEF StakesInv, StakesWhole
    <3> QED
      BY <3>1, <3>2
  <2>5. ASSUME NEW x \in Requests, NEW b \in Requests, pc'[x] = "found", found'[x] = b
        PROVE  copy'[x] \in WholeAmounts(b)'
    <3>1. x # q /\ pc[x] = "found" /\ found[x] = b /\ copy'[x] = copy[x]
      BY <1>2, <2>1, <2>5
    <3>2. b = f => InCopy(f, q)
      BY <3>1 DEF InCopy
    <3> QED
      BY <2>2, <3>1, <3>2 DEF StakesInv
  <2>6. \A b \in Requests : fetched[b] # NoBet => WholeAmounts(b) \subseteq WholeAmounts(b)'
    BY <2>2 DEF InCopy
  <2> QED
    BY <1>8, <2>4, <2>5, <2>6
<1>10. CASE SaveData(q)
  <2>1. /\ q \notin wrote /\ found[q] = NoBet /\ found' = found /\ copy' = copy /\ pc'[q] = "push"
        /\ wrote' = wrote \cup {q} /\ raced' = raced
        /\ data'[q] = amount[q] /\ \A b \in Requests : b # q => data'[b] = data[b]
    BY <1>0, <1>10 DEF SaveData, To, CallInv
  <2>2. \A b \in Requests : Added(b)' = Added(b) /\ Sure(b)' = Sure(b)
    BY <2>1, RBNames DEF Added, Sure
  <2>3. \A b \in Requests : WholeAmounts(b) \subseteq WholeAmounts(b)'
    BY <1>1, <2>2, WholesSame
  <2>4. amount[q] \in WholeAmounts(q)
    <3>1. Sure(q) = {}
      BY <2>1 DEF Sure, Added, StakesInv
    <3> QED
      BY <3>1, WholeFirst, RBBounds
  <2>5. \A b \in Requests : data'[b] # NoBet => data'[b] \in WholeAmounts(b)'
    BY <2>1, <2>3, <2>4 DEF StakesInv, StakesWhole
  <2>6. \A x, b \in Requests : pc'[x] = "found" /\ found'[x] = b => copy'[x] \in WholeAmounts(b)'
    BY <1>2, <2>1, <2>3 DEF StakesInv
  <2> QED
    BY <1>8, <2>3, <2>5, <2>6
<1>11. CASE UNCHANGED <<wrote, raced, data>>
  <2>1. \A b \in Requests : Added(b)' = Added(b) /\ Sure(b)' = Sure(b)
    BY <1>5, <1>11 DEF Added, Sure
  <2>2. \A b \in Requests : WholeAmounts(b) \subseteq WholeAmounts(b)'
    BY <1>1, <2>1, WholesSame
  <2>3. \A b \in Requests : data'[b] # NoBet => data'[b] \in WholeAmounts(b)'
    BY <1>11, <2>2 DEF StakesInv, StakesWhole
  <2>4. ASSUME NEW x \in Requests, NEW b \in Requests, pc'[x] = "found", found'[x] = b
        PROVE  copy'[x] \in WholeAmounts(b)'
    <3>1. CASE x # q
      BY <1>2, <2>2, <2>4, <3>1 DEF StakesInv
    <3>2. CASE x = q
      <4>0. ReadBet(q)
        BY <2>4, <3>2 DEF RecordBet, PlaceBet, ReadIndex, UpdateBetAmount, SaveData,
             PushQueue, SetIndex, GiveUp, GetState, GetCurrentRound, GetUserBets, ReadBets, To
      <4>1. data[b] # NoBet /\ copy'[q] = data[b]
        BY <2>4, <3>2, <4>0 DEF ReadBet, To
      <4> QED
        BY <2>2, <3>2, <4>1 DEF StakesInv, StakesWhole
    <3> QED
      BY <3>1, <3>2
  <2> QED
    BY <1>8, <2>2, <2>3, <2>4
<1> QED
  BY <1>3, <1>9, <1>10, <1>11

\* A step of a settlement keeps the amounts whole.
LEMMA SettleStakes ==
    ASSUME RedisInv, StakesInv, NEW r \in Rounds, RoundResult(r) \/ SettleRound(r) \/ Crash(r)
    PROVE  StakesInv'
<1> USE DEF RedisInv, TypeOK
<1>1. UNCHANGED <<amount, pc, found, copy, wrote, raced>>
  BY DEF RoundResult, SettleRound, PopShard, ClearQueue, FetchBets, ProcessBatch, ClearData, Crash,
         callVars, args
<1>2. \A b : WholeAmounts(b)' = WholeAmounts(b)
  BY <1>1 DEF WholeAmounts, Added, Sure
<1>3. /\ \A x \in wrote' : pc'[x] \in {"push", "index", "ok", "stopped"}
      /\ \A x, b \in Requests : pc'[x] = "found" /\ found'[x] = b => copy'[x] \in WholeAmounts(b)'
      /\ \A x, b \in Requests : found'[x] = b => b \in wrote'
  BY <1>1, <1>2 DEF StakesInv
<1>4. \A b \in Requests : data'[b] \in {data[b], NoBet}
  BY DEF RoundResult, SettleRound, PopShard, ClearQueue, FetchBets, ProcessBatch, ClearData, Crash,
         storeVars
<1>5. ASSUME UNCHANGED orders, UNCHANGED fetched,
             \A s \in Rounds : spc'[s] = "order" => spc[s] = "order" /\ hand'[s] = hand[s]
      PROVE  StakesInv'
  <2>1. StakesWhole'
    BY <1>2, <1>4, <1>5 DEF StakesInv, StakesWhole
  <2>2. \A s \in Rounds : spc'[s] = "order" => \A b \in hand'[s] : fetched'[b] \in WholeAmounts(b)'
    BY <1>2, <1>5 DEF StakesInv
  <2>3. \A b \in Requests : orders'[b] # <<>> => fetched'[b] # NoBet
    BY <1>5 DEF StakesInv
  <2> QED
    BY <1>3, <2>1, <2>2, <2>3 DEF StakesInv
<1>6. CASE RoundResult(r)
  <2>1. /\ UNCHANGED orders /\ UNCHANGED fetched
        /\ \A s \in Rounds : spc'[s] = "order" => spc[s] = "order" /\ hand'[s] = hand[s]
    BY <1>6 DEF RoundResult, Scan, SettleTo
  <2> QED
    BY <1>5, <2>1
<1>7. CASE \E s \in Shards : PopShard(r, s)
  <2>1. /\ UNCHANGED orders /\ UNCHANGED fetched
        /\ \A s \in Rounds : spc'[s] = "order" => spc[s] = "order" /\ hand'[s] = hand[s]
    BY <1>7 DEF PopShard, SettleTo, AfterEmpty
  <2> QED
    BY <1>5, <2>1
<1>8. CASE (\E s \in Shards : ClearQueue(r, s)) \/ ClearData(r) \/ Crash(r)
  <2>1. /\ UNCHANGED orders /\ UNCHANGED fetched
        /\ \A s \in Rounds : spc'[s] = "order" => spc[s] = "order" /\ hand'[s] = hand[s]
    BY <1>8 DEF ClearQueue, ClearData, Crash, SettleTo
  <2> QED
    BY <1>5, <2>1
<1>9. CASE FetchBets(r)
  <2>1. StakesWhole'
    BY <1>2, <1>4, <1>9 DEF StakesInv, StakesWhole, FetchBets
  <2>2. ASSUME NEW s \in Rounds, spc'[s] = "order", NEW b \in hand'[s]
        PROVE  fetched'[b] \in WholeAmounts(b)'
    <3>1. CASE s = r
      <4>1. b \in hand[r] /\ data[b] # NoBet /\ fetched'[b] = data[b]
        BY <1>9, <2>2, <3>1 DEF FetchBets
      <4> QED
        BY <1>2, <4>1 DEF StakesInv, StakesWhole
    <3>2. CASE s # r
      <4>1. spc[s] = "order" /\ b \in hand[s]
        BY <1>9, <2>2, <3>2 DEF FetchBets, SettleTo
      <4>2. b \in Requests /\ b \notin hand[r]
        <5>1. b \in Requests
          BY <4>1
        <5>2. rid[b] = s
          BY <4>1, <5>1 DEF SettledOnce
        <5> QED
          BY <3>2, <5>1, <5>2 DEF SettledOnce
      <4>3. fetched'[b] = fetched[b]
        BY <1>9, <4>2 DEF FetchBets
      <4> QED
        BY <1>2, <4>1, <4>3 DEF StakesInv
    <3> QED
      BY <3>1, <3>2
  <2>3. ASSUME NEW b \in Requests, orders'[b] # <<>> PROVE fetched'[b] # NoBet
    <3>1. orders[b] # <<>> /\ b \notin hand[r]
      BY <1>9, <2>3 DEF FetchBets, SettledOnce
    <3>2. fetched'[b] = fetched[b]
      BY <1>9, <3>1 DEF FetchBets
    <3> QED
      BY <3>1, <3>2 DEF StakesInv
  <2> QED
    BY <1>3, <2>1, <2>2, <2>3 DEF StakesInv
<1>10. CASE ProcessBatch(r)
  <2>1. ASSUME NEW b \in Requests, orders'[b] # <<>> PROVE orders'[b][1] \in WholeAmounts(b)'
    <3>1. CASE orders'[b] = orders[b]
      BY <1>2, <2>1, <3>1 DEF StakesInv, StakesWhole
    <3>2. CASE orders'[b] # orders[b]
      <4>1. b \in hand[r] /\ spc[r] = "order" /\ orders'[b] = Append(orders[b], fetched[b])
        BY <1>10, <3>2 DEF ProcessBatch
      <4>2. orders[b] = <<>>
        BY <4>1 DEF SettledOnce
      <4>3. orders'[b][1] = fetched[b]
        BY <4>1, <4>2
      <4> QED
        BY <1>2, <4>1, <4>3 DEF StakesInv
    <3> QED
      BY <3>1, <3>2
  <2>2. StakesWhole'
    BY <1>2, <1>4, <2>1 DEF StakesInv, StakesWhole
  <2>3. UNCHANGED fetched /\ \A s \in Rounds : spc'[s] = "order" => spc[s] = "order" /\ hand'[s] = hand[s]
    BY <1>10 DEF ProcessBatch, Scan, SettleTo
  <2>4. \A s \in Rounds : spc'[s] = "order" => \A b \in hand'[s] : fetched'[b] \in WholeAmounts(b)'
    BY <1>2, <2>3 DEF StakesInv
  <2>5. ASSUME NEW b \in Requests, orders'[b] # <<>> PROVE fetched'[b] # NoBet
    <3>1. CASE orders'[b] = orders[b]
      BY <2>3, <2>5, <3>1 DEF StakesInv
    <3>2. CASE orders'[b] # orders[b]
      <4>1. b \in hand[r] /\ spc[r] = "order"
        BY <1>10, <3>2 DEF ProcessBatch
      <4> QED
        BY <2>3, <4>1, RBNames DEF AmountsKnown
    <3> QED
      BY <3>1, <3>2
  <2> QED
    BY <1>3, <2>2, <2>4, <2>5 DEF StakesInv
<1> QED
  BY <1>6, <1>7, <1>8, <1>9, <1>10 DEF SettleRound

\* Every amount in the store and in an order is a first stake and, each once, the stakes
\* added to it: all that were written while nobody worked on a copy of the bet, and some
\* of the others, however the commands of the calls interleave.
THEOREM StakesStayWhole == Spec => []StakesWhole
<1>1. Init => StakesInv
  BY RBNames DEF Init, StakesInv, StakesWhole
<1>2. RedisInv /\ StoreInv /\ StakesInv /\ [Next]_vars => StakesInv'
  <2> SUFFICES ASSUME RedisInv, StoreInv, StakesInv, [Next]_vars PROVE StakesInv'
    OBVIOUS
  <2>1. ASSUME NEW q \in Requests, RecordBet(q) \/ PlaceBet(q) \/ GiveUp(q) \/ GetState(q)
        PROVE  StakesInv'
    BY <2>1, CallStakes
  <2>2. ASSUME NEW r \in Rounds, RoundResult(r) \/ SettleRound(r) \/ Crash(r) PROVE StakesInv'
    BY <2>2, SettleStakes
  <2>3. CASE Tick \/ UNCHANGED vars
    <3>1. UNCHANGED <<callVars, storeVars, settleVars>>
      BY <2>3 DEF Tick, vars
    <3> QED
      BY <3>1 DEF callVars, args, storeVars, settleVars, StakesInv, StakesWhole, WholeAmounts, Added,
                  Sure
  <2> QED
    BY <2>1, <2>2, <2>3 DEF Next
<1>3. StakesInv => StakesWhole
  BY DEF StakesInv
<1> QED
  BY <1>1, <1>2, <1>3, StoreInvariant, PTL DEF Spec
=============================================================================
