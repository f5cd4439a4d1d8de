------------------------ MODULE BettingServiceProofs ------------------------
(***************************************************************************)
(* Proofs about BettingService, for any set of players, stakes, requests,  *)
(* colours and rounds, any batch size and any combination of faults: types *)
(* first, then SettlementInv, from which it follows that no bet is settled *)
(* or paid twice, orders follow the drawn result, payouts are backed by    *)
(* stored orders and a player hears of a win only once it is deposited;    *)
(* then the balances, and LedgerInv, from which it follows that a          *)
(* settlement covers every stake that came in time.                        *)
(*                                                                         *)
(* Rounds are settled concurrently with each other and with PlaceBet. The  *)
(* argument is that a bet in the hands of a settlement carries the ID of   *)
(* that round (BetsSaved), so settlements of different rounds never touch  *)
(* the same bet, and that a saved bet and a shown result never change.     *)
(***************************************************************************)
EXTENDS BettingService, FiniteSetTheorems, TLAPS

USE DEF Rounds

-----------------------------------------------------------------------------
(* RoundClock: its types, and what GMS has shown or pushed is final.       *)

\* The clock actions of RoundClock keep its variables in their domains.
LEMMA ClockType == ClockTypeOK /\ [ClockNext]_clockVars => ClockTypeOK'
<1> SUFFICES ASSUME ClockTypeOK, [ClockNext]_clockVars PROVE ClockTypeOK'
  OBVIOUS
<1> USE MaxRoundsAssumption DEF ClockTypeOK, Phases
<1>1. CASE NewRound
  BY <1>1 DEF NewRound
<1>2. CASE StartBetting
  BY <1>2 DEF StartBetting
<1>3. CASE BettingEnd
  BY <1>3 DEF BettingEnd
<1>4. CASE Draw
  BY <1>4 DEF Draw
<1>5. CASE ShowResult
  BY <1>5 DEF ShowResult
<1>6. ASSUME NEW r \in Rounds, TellGS(r) PROVE ClockTypeOK'
  <2>1. results[r] \in Colors \cup {NoColor}
    OBVIOUS
  <2>2. <<results[r]>> \in Seq(Colors \cup {NoColor})
    BY <2>1
  <2>3. told' \in [Rounds -> Seq(Colors \cup {NoColor})]
    BY <1>6, <2>2 DEF TellGS
  <2> QED
    BY <1>6, <2>3 DEF TellGS
<1>7. CASE UNCHANGED clockVars
  BY <1>7 DEF clockVars
<1> QED
  BY <1>1, <1>2, <1>3, <1>4, <1>5, <1>6, <1>7 DEF ClockNext, ClockStep

\* A shown result stays shown and is never drawn again.
LEMMA ShownStays ==
    ASSUME ClockTypeOK, [ClockNext]_clockVars, NEW r \in Rounds, Shown(r)
    PROVE  Shown(r)' /\ results'[r] = results[r]
<1> USE MaxRoundsAssumption DEF ClockTypeOK, Shown, Rounds
<1>1. CASE NewRound
  BY <1>1 DEF NewRound
<1>2. CASE StartBetting \/ BettingEnd \/ ShowResult
  BY <1>2 DEF StartBetting, BettingEnd, ShowResult
<1>3. CASE Draw
  BY <1>3 DEF Draw
<1>4. ASSUME NEW r2 \in Rounds, TellGS(r2) PROVE Shown(r)' /\ results'[r] = results[r]
  BY <1>4 DEF TellGS
<1>5. CASE UNCHANGED clockVars
  BY <1>5 DEF clockVars
<1> QED
  BY <1>1, <1>2, <1>3, <1>4, <1>5 DEF ClockNext, ClockStep

\* What GMS has pushed for a round is never pushed again.
LEMMA ToldStays ==
    ASSUME ClockTypeOK, [ClockNext]_clockVars, NEW r \in Rounds, told[r] # <<>>
    PROVE  told'[r] = told[r]
<1> USE DEF ClockTypeOK
<1>1. CASE ClockStep
  BY <1>1 DEF ClockStep, NewRound, StartBetting, BettingEnd, ShowResult, Draw
<1>2. ASSUME NEW r2 \in Rounds, TellGS(r2) PROVE told'[r] = told[r]
  BY <1>2 DEF TellGS
<1>3. CASE UNCHANGED clockVars
  BY <1>3 DEF clockVars
<1> QED
  BY <1>1, <1>2, <1>3 DEF ClockNext

-----------------------------------------------------------------------------
(* Sums over finite sets.                                                  *)

\* A set of subsets of a finite set has a smallest member: what induction over
\* finite sets comes down to.
LEMMA SmallestSet ==
    ASSUME NEW S, IsFiniteSet(S), NEW T, T \subseteq SUBSET S, T # {}
    PROVE  \E A \in T : \A B \in T : B \subseteq A => B = A
<1>1. IsWellFoundedOn(StrictSubsetOrdering(S), SUBSET S)
  BY FS_StrictSubsetOrderingWellFounded, FS_FiniteSubsetsOfFinite
<1>2. PICK A \in T : \A B \in T : <<B, A>> \notin StrictSubsetOrdering(S)
  BY <1>1, WFMin
<1>3. ASSUME NEW B \in T, B \subseteq A PROVE B = A
  <2>1. <<B, A>> \in (SUBSET S) \X (SUBSET S)
    OBVIOUS
  <2> QED
    BY <1>2, <1>3, <2>1 DEF StrictSubsetOrdering
<1> QED
  BY <1>3

\* The element that a fold over s takes first, and the sums it makes of f.
First(s) == CHOOSE x \in s : TRUE

SumBy(f, g, s) == IF s = {} THEN 0 ELSE f[First(s)] + g[s \ {First(s)}]

Sums(f, S, g) == g = [s \in SUBSET S |-> SumBy(f, g, s)]

\* Two such functions agree on the sets on which both are defined.
LEMMA SumsAgree ==
    ASSUME NEW S, IsFiniteSet(S), NEW T \in SUBSET S, NEW f, NEW h, \A x \in T : f[x] = h[x],
           NEW g, NEW k, Sums(f, S, g), Sums(h, T, k)
    PROVE  g[T] = k[T]
<1> DEFINE Bad == {s \in SUBSET T : g[s] # k[s]}
<1>1. SUFFICES ASSUME Bad # {} PROVE FALSE
  OBVIOUS
<1>2. PICK A \in Bad : \A B \in Bad : B \subseteq A => B = A
  <2>1. IsFiniteSet(T) /\ Bad \subseteq SUBSET T
    BY FS_Subset
  <2> HIDE DEF Bad
  <2> QED
    BY <1>1, <2>1, SmallestSet
<1>3. A \subseteq T /\ g[A] = SumBy(f, g, A) /\ k[A] = SumBy(h, k, A) /\ g[A] # k[A]
  BY DEF Sums
<1>4. A # {} /\ First(A) \in A
  BY <1>3 DEF SumBy, First
<1>5. A \ {First(A)} \notin Bad
  <2> HIDE DEF Bad
  <2> QED
    BY <1>2, <1>4
<1>6. g[A \ {First(A)}] = k[A \ {First(A)}] /\ f[First(A)] = h[First(A)]
  BY <1>3, <1>4, <1>5
<1> QED
  BY <1>3, <1>4, <1>6 DEF SumBy

\* The recursive definition inside SumFunctionOnSet has a solution.
LEMMA SumsExist ==
    ASSUME NEW S, IsFiniteSet(S), NEW f
    PROVE  \E g : Sums(f, S, g)
<1> DEFINE Bad == {T \in SUBSET S : ~\E g : Sums(f, T, g)}
<1>1. SUFFICES ASSUME Bad # {} PROVE FALSE
  OBVIOUS
<1>2. PICK A \in Bad : \A B \in Bad : B \subseteq A => B = A
  <2> HIDE DEF Bad
  <2>1. Bad \subseteq SUBSET S
    BY DEF Bad
  <2> QED
    BY <1>1, <2>1, SmallestSet
<1>3. \A s \in SUBSET A : IsFiniteSet(s) /\ (s # A => \E g : Sums(f, s, g))
  <2>1. ASSUME NEW s \in SUBSET A PROVE s \in SUBSET S /\ IsFiniteSet(s)
    BY FS_Subset
  <2> QED
    BY <1>2, <2>1
<1> DEFINE Of(s) == CHOOSE g : Sums(f, s, g)
           below == [s \in SUBSET A |-> IF s = A THEN 0 ELSE Of(s)[s]]
           all == [s \in SUBSET A |-> SumBy(f, below, s)]
<1>4. \A s \in SUBSET A : s # A => Sums(f, s, Of(s))
  BY <1>3
<1> HIDE DEF Of
<1>5. \A s \in SUBSET A : s # {} => s \ {First(s)} \in SUBSET A /\ s \ {First(s)} # A
  BY DEF First
<1>6. ASSUME NEW s \in SUBSET A, s # A PROVE below[s] = SumBy(f, below, s)
  <2>1. CASE s = {}
    BY <1>4, <1>6, <2>1 DEF Sums, SumBy
  <2>2. CASE s # {}
    <3> DEFINE t == s \ {First(s)}
    <3>1. t \in SUBSET s /\ t \in SUBSET A /\ t # A
      BY <1>5, <2>2
    <3> HIDE DEF t
    <3>2. Of(s)[t] = Of(t)[t]
      <4>1. IsFiniteSet(s) /\ Sums(f, s, Of(s)) /\ Sums(f, t, Of(t))
        BY <1>3, <1>4, <1>6, <3>1
      <4> HIDE DEF Bad
      <4> QED
        BY <3>1, <4>1, SumsAgree
    <3>3. Of(s)[s] = f[First(s)] + Of(s)[t]
      BY <1>4, <1>6, <2>2 DEF Sums, SumBy, t
    <3> QED
      BY <1>6, <2>2, <3>1, <3>2, <3>3 DEF SumBy, t
  <2> QED
    BY <2>1, <2>2
<1>7. \A s \in SUBSET A : SumBy(f, all, s) = SumBy(f, below, s)
  <2> HIDE DEF below
  <2> QED
    BY <1>5, <1>6 DEF SumBy
<1>8. Sums(f, A, all)
  <2> HIDE DEF below
  <2> QED
    BY <1>7 DEF Sums
<1> QED
  BY <1>8

\* The sum over a set is the value of such a function.
LEMMA SumFound ==
    ASSUME NEW S, IsFiniteSet(S), NEW f
    PROVE  \E g : Sums(f, S, g) /\ SumFunctionOnSet(f, S) = g[S]
<1> DEFINE g == CHOOSE h : Sums(f, S, h)
<1>1. SumFunctionOnSet(f, S) = g[S]
  BY DEF SumFunctionOnSet, FoldFunctionOnSet, MapThenFoldSet, Sums, SumBy, First
<1> QED
  BY <1>1, SumsExist

\* A sum over no element.
LEMMA SumEmpty == ASSUME NEW f PROVE SumFunctionOnSet(f, {}) = 0
<1>1. PICK g : Sums(f, {}, g) /\ SumFunctionOnSet(f, {}) = g[{}]
  BY SumFound, FS_EmptySet
<1> QED
  BY <1>1 DEF Sums, SumBy

\* A sum depends only on the values at the elements of the set.
LEMMA SumSame ==
    ASSUME NEW S, IsFiniteSet(S), NEW f, NEW h, \A x \in S : f[x] = h[x]
    PROVE  SumFunctionOnSet(f, S) = SumFunctionOnSet(h, S)
<1>1. PICK g : Sums(f, S, g) /\ SumFunctionOnSet(f, S) = g[S]
  BY SumFound
<1>2. PICK k : Sums(h, S, k) /\ SumFunctionOnSet(h, S) = k[S]
  BY SumFound
<1> QED
  BY <1>1, <1>2, SumsAgree

\* The first element of the fold can be taken out ...
LEMMA SumFirst ==
    ASSUME NEW S, IsFiniteSet(S), S # {}, NEW f
    PROVE  /\ First(S) \in S /\ IsFiniteSet(S \ {First(S)})
           /\ SumFunctionOnSet(f, S) = f[First(S)] + SumFunctionOnSet(f, S \ {First(S)})
<1> DEFINE T == S \ {First(S)}
<1>1. First(S) \in S /\ T \in SUBSET S /\ IsFiniteSet(T)
  BY FS_Subset DEF First
<1>2. PICK g : Sums(f, S, g) /\ SumFunctionOnSet(f, S) = g[S]
  BY SumFound
<1>3. PICK k : Sums(f, T, k) /\ SumFunctionOnSet(f, T) = k[T]
  BY <1>1, SumFound
<1>4. g[S] = f[First(S)] + g[T]
  BY <1>2 DEF Sums, SumBy
<1>5. g[T] = k[T]
  <2> HIDE DEF T
  <2> QED
    BY <1>1, <1>2, <1>3, SumsAgree
<1> QED
  BY <1>1, <1>2, <1>3, <1>4, <1>5

\* ... so a sum of integers is an integer ...
LEMMA SumInt ==
    ASSUME NEW S, IsFiniteSet(S), NEW f, \A x \in S : f[x] \in Int
    PROVE  SumFunctionOnSet(f, S) \in Int
<1> DEFINE Bad == {s \in SUBSET S : SumFunctionOnSet(f, s) \notin Int}
<1>1. SUFFICES ASSUME Bad # {} PROVE FALSE
  OBVIOUS
<1>2. PICK A \in Bad : \A B \in Bad : B \subseteq A => B = A
  <2> HIDE DEF Bad
  <2>1. Bad \subseteq SUBSET S
    BY DEF Bad
  <2> QED
    BY <1>1, <2>1, SmallestSet
<1>3. A \in SUBSET S /\ SumFunctionOnSet(f, A) \notin Int
  OBVIOUS
<1>4. A # {} /\ IsFiniteSet(A)
  <2> HIDE DEF Bad
  <2>1. IsFiniteSet(A)
    BY <1>3, FS_Subset
  <2>2. A # {}
    BY <1>3, SumEmpty
  <2> QED
    BY <2>1, <2>2
<1>5. /\ First(A) \in A
      /\ SumFunctionOnSet(f, A) = f[First(A)] + SumFunctionOnSet(f, A \ {First(A)})
  BY <1>4, SumFirst
<1>6. A \ {First(A)} \notin Bad
  <2> HIDE DEF Bad
  <2> QED
    BY <1>2, <1>5
<1> QED
  BY <1>3, <1>5, <1>6

\* ... and the order in which the elements are taken does not matter.
LEMMA SumRemove ==
    ASSUME NEW S, IsFiniteSet(S), NEW f, \A x \in S : f[x] \in Int, NEW a \in S
    PROVE  SumFunctionOnSet(f, S) = f[a] + SumFunctionOnSet(f, S \ {a})
<1> DEFINE Sum(s) == SumFunctionOnSet(f, s)
           Bad == {s \in SUBSET S : \E x \in s : Sum(s) # f[x] + Sum(s \ {x})}
<1>1. SUFFICES ASSUME Bad # {} PROVE FALSE
  OBVIOUS
<1>2. PICK A \in Bad : \A B \in Bad : B \subseteq A => B = A
  <2> HIDE DEF Bad
  <2>1. Bad \subseteq SUBSET S
    BY DEF Bad
  <2> QED
    BY <1>1, <2>1, SmallestSet
<1>3. PICK x \in A : Sum(A) # f[x] + Sum(A \ {x})
  OBVIOUS
<1> DEFINE y == First(A)
           rest == Sum((A \ {x}) \ {y})
<1>4. A \in SUBSET S /\ IsFiniteSet(A)
  BY FS_Subset
<1>5. y \in A /\ Sum(A) = f[y] + Sum(A \ {y})
  BY <1>3, <1>4, SumFirst
<1> HIDE DEF y
<1>6. x # y
  BY <1>3, <1>5
<1>7. A \ {x} \notin Bad /\ A \ {y} \notin Bad
  <2> HIDE DEF Bad
  <2> QED
    BY <1>2, <1>3, <1>5
<1>8. Sum(A \ {x}) = f[y] + rest /\ Sum(A \ {y}) = f[x] + Sum((A \ {y}) \ {x})
  <2> HIDE DEF Sum
  <2> QED
    BY <1>3, <1>4, <1>5, <1>6, <1>7
<1>9. (A \ {y}) \ {x} = (A \ {x}) \ {y}
  OBVIOUS
<1>10. f[x] \in Int /\ f[y] \in Int /\ rest \in Int
  <2>1. IsFiniteSet((A \ {x}) \ {y})
    BY <1>4, FS_Subset
  <2> QED
    BY <1>3, <1>4, <1>5, <2>1, SumInt
<1>11. Sum(A) = f[y] + (f[x] + rest) /\ f[x] + Sum(A \ {x}) = f[x] + (f[y] + rest)
  BY <1>5, <1>8, <1>9
<1> HIDE DEF Sum, Bad, rest
<1> QED
  BY <1>3, <1>10, <1>11

\* One element more.
LEMMA SumInsert ==
    ASSUME NEW S, IsFiniteSet(S), NEW f, \A x \in S : f[x] \in Int, NEW a, a \notin S, f[a] \in Int
    PROVE  SumFunctionOnSet(f, S \cup {a}) = f[a] + SumFunctionOnSet(f, S)
<1>1. IsFiniteSet(S \cup {a}) /\ (S \cup {a}) \ {a} = S
  BY FS_AddElement
<1>2. a \in S \cup {a} /\ \A x \in S \cup {a} : f[x] \in Int
  OBVIOUS
<1> QED
  BY <1>1, <1>2, SumRemove

\* A sum of nothing but zeros.
LEMMA SumZero ==
    ASSUME NEW S, IsFiniteSet(S), NEW f, \A x \in S : f[x] = 0
    PROVE  SumFunctionOnSet(f, S) = 0
<1> DEFINE Bad == {s \in SUBSET S : SumFunctionOnSet(f, s) # 0}
<1>1. SUFFICES ASSUME Bad # {} PROVE FALSE
  OBVIOUS
<1>2. PICK A \in Bad : \A B \in Bad : B \subseteq A => B = A
  <2> HIDE DEF Bad
  <2>1. Bad \subseteq SUBSET S
    BY DEF Bad
  <2> QED
    BY <1>1, <2>1, SmallestSet
<1>3. A \in SUBSET S /\ SumFunctionOnSet(f, A) # 0
  OBVIOUS
<1> HIDE DEF Bad
<1>4. A # {} /\ IsFiniteSet(A)
  <2>1. IsFiniteSet(A)
    BY <1>3, FS_Subset
  <2> QED
    BY <1>3, <2>1, SumEmpty
<1>5. /\ First(A) \in A
      /\ SumFunctionOnSet(f, A) = f[First(A)] + SumFunctionOnSet(f, A \ {First(A)})
  BY <1>4, SumFirst
<1>6. A \ {First(A)} \notin Bad
  BY <1>2, <1>5
<1>7. SumFunctionOnSet(f, A \ {First(A)}) = 0
  BY <1>3, <1>6 DEF Bad
<1> QED
  BY <1>3, <1>5, <1>7

\* The sum over two disjoint sets.
LEMMA SumUnion ==
    ASSUME NEW S, IsFiniteSet(S), NEW f, \A x \in S : f[x] \in Int,
           NEW X \in SUBSET S, NEW Y \in SUBSET S, X \cap Y = {}
    PROVE  SumFunctionOnSet(f, X \cup Y) = SumFunctionOnSet(f, X) + SumFunctionOnSet(f, Y)
<1> DEFINE Sum(s) == SumFunctionOnSet(f, s)
           Bad == {s \in SUBSET X : Sum(s \cup Y) # Sum(s) + Sum(Y)}
<1>0. \A s \in SUBSET S : IsFiniteSet(s) /\ Sum(s) \in Int /\ \A a \in s : Sum(s) = f[a] + Sum(s \ {a})
  <2>1. \A s \in SUBSET S : IsFiniteSet(s) /\ \A x \in s : f[x] \in Int
    BY FS_Subset
  <2> QED
    BY <2>1, SumInt, SumRemove
<1>1. SUFFICES ASSUME Bad # {} PROVE FALSE
  OBVIOUS
<1>2. PICK A \in Bad : \A B \in Bad : B \subseteq A => B = A
  <2> HIDE DEF Bad
  <2>1. Bad \subseteq SUBSET X /\ IsFiniteSet(X)
    BY <1>0 DEF Bad
  <2> QED
    BY <1>1, <2>1, SmallestSet
<1>3. A \in SUBSET X /\ Sum(A \cup Y) # Sum(A) + Sum(Y)
  OBVIOUS
<1> HIDE DEF Bad
<1>4. A # {}
  <2>1. Sum({}) = 0 /\ Sum(Y) \in Int
    BY <1>0, SumEmpty
  <2> HIDE DEF Sum
  <2>2. ASSUME A = {} PROVE A \cup Y = Y
    BY <2>2
  <2>3. ASSUME A = {} PROVE Sum(A \cup Y) = 0 + Sum(Y)
    BY <2>1, <2>2, <2>3
  <2> QED
    BY <1>3, <2>1, <2>3
<1>5. PICK a : a \in A
  BY <1>4
<1>6. A \ {a} \notin Bad
  BY <1>2, <1>5
<1> HIDE DEF Sum
<1>7. Sum((A \ {a}) \cup Y) = Sum(A \ {a}) + Sum(Y)
  BY <1>3, <1>6 DEF Bad
<1>8. (A \cup Y) \ {a} = (A \ {a}) \cup Y
  BY <1>3, <1>5
<1>9. A \cup Y \in SUBSET S /\ A \in SUBSET S /\ A \ {a} \in SUBSET S
  BY <1>3
<1>10. Sum(A \cup Y) = f[a] + (Sum(A \ {a}) + Sum(Y)) /\ Sum(A) = f[a] + Sum(A \ {a})
  BY <1>0, <1>5, <1>7, <1>8, <1>9
<1>11. f[a] \in Int /\ Sum(A \ {a}) \in Int /\ Sum(Y) \in Int
  BY <1>0, <1>5, <1>9
<1> QED
  BY <1>3, <1>10, <1>11

\* The sum over the members of a partition.
LEMMA SumPartition ==
    ASSUME NEW S, IsFiniteSet(S), NEW f, \A x \in S : f[x] \in Int,
           NEW B, IsFiniteSet(B), NEW P \in [B -> SUBSET S],
           \A a, b \in B : a # b => P[a] \cap P[b] = {},
           NEW h, \A b \in B : h[b] = SumFunctionOnSet(f, P[b]),
           NEW U, \A x : x \in U <=> \E b \in B : x \in P[b]
    PROVE  SumFunctionOnSet(h, B) = SumFunctionOnSet(f, U)
<1> DEFINE All(s) == UNION {P[b] : b \in s}
           Bad == {s \in SUBSET B : SumFunctionOnSet(h, s) # SumFunctionOnSet(f, All(s))}
<1>0. U = All(B)
  OBVIOUS
<1>1. SUFFICES ASSUME Bad # {} PROVE FALSE
  BY <1>0
<1>2. PICK A \in Bad : \A C \in Bad : C \subseteq A => C = A
  <2> HIDE DEF Bad
  <2>1. Bad \subseteq SUBSET B
    BY DEF Bad
  <2> QED
    BY <1>1, <2>1, SmallestSet
<1>3. A \in SUBSET B /\ SumFunctionOnSet(h, A) # SumFunctionOnSet(f, All(A))
  OBVIOUS
<1> HIDE DEF Bad
<1>4. A # {} /\ IsFiniteSet(A)
  <2>1. IsFiniteSet(A)
    BY <1>3, FS_Subset
  <2>2. ASSUME A = {} PROVE All(A) = {}
    BY <2>2
  <2> QED
    BY <1>3, <2>1, <2>2, SumEmpty
<1> DEFINE b == First(A)
<1>5. b \in A /\ SumFunctionOnSet(h, A) = h[b] + SumFunctionOnSet(h, A \ {b})
  BY <1>4, SumFirst
<1> HIDE DEF b
<1>6. SumFunctionOnSet(h, A \ {b}) = SumFunctionOnSet(f, All(A \ {b}))
  <2>1. A \ {b} \notin Bad
    BY <1>2, <1>5
  <2> QED
    BY <1>3, <2>1 DEF Bad
<1>7. All(A) = P[b] \cup All(A \ {b}) /\ P[b] \cap All(A \ {b}) = {}
  BY <1>3, <1>5
<1>8. P[b] \in SUBSET S /\ All(A \ {b}) \in SUBSET S
  BY <1>3, <1>5
<1> HIDE DEF All
<1>9. SumFunctionOnSet(f, All(A)) = SumFunctionOnSet(f, P[b]) + SumFunctionOnSet(f, All(A \ {b}))
  <2> DEFINE X == P[b]
             Y == All(A \ {b})
  <2>1. X \in SUBSET S /\ Y \in SUBSET S /\ X \cap Y = {} /\ All(A) = X \cup Y
    BY <1>7, <1>8
  <2> HIDE DEF X, Y
  <2>2. SumFunctionOnSet(f, X \cup Y) = SumFunctionOnSet(f, X) + SumFunctionOnSet(f, Y)
    BY <2>1, SumUnion
  <2> QED
    BY <2>1, <2>2 DEF X, Y
<1> QED
  BY <1>3, <1>5, <1>6, <1>9

-----------------------------------------------------------------------------
(* The types, and the settlements.                                         *)

\* Every step of BettingService is a step of the clock or leaves it alone.
LEMMA StepsClock == [Next]_vars => [ClockNext]_clockVars
<1> SUFFICES ASSUME [Next]_vars PROVE [ClockNext]_clockVars
  OBVIOUS
<1>1. CASE Tick
  BY <1>1 DEF Tick, ClockNext
<1>2. ASSUME NEW q \in Requests, PlaceBet(q) PROVE UNCHANGED clockVars
  BY <1>2 DEF PlaceBet, AskRound, Debit, RecordBet, GetUserBet, UpdateBetAmount, SaveBet
<1>3. ASSUME NEW r \in Rounds, RoundResult(r) PROVE ClockNext
  BY <1>3 DEF RoundResult, ClockNext
<1>4. ASSUME NEW r \in Rounds, SettleRound(r) PROVE UNCHANGED clockVars
  BY <1>4 DEF SettleRound, GetBetsForSettlement, FillBatch, MakeOrders, BatchCreate, AddBalance,
              SendToUser, ClearBets
<1>5. CASE UNCHANGED vars
  BY <1>5 DEF vars
<1> QED
  BY <1>1, <1>2, <1>3, <1>4, <1>5 DEF Next

----------------------------------------------------------------------------
\* Type correctness.

\* A PlaceBet step keeps every variable in its domain.
LEMMA PlaceBetType ==
    ASSUME TypeOK, RoundKnown, NEW q \in Requests, PlaceBet(q)
    PROVE  TypeOK'
<1> USE DEF TypeOK
<1>0. ClockTypeOK' /\ UNCHANGED clockVars
  <2>1. UNCHANGED clockVars
    BY DEF PlaceBet, AskRound, Debit, RecordBet, GetUserBet, UpdateBetAmount, SaveBet
  <2> QED
    BY <2>1 DEF ClockTypeOK, clockVars
<1>1. CASE AskRound(q)
  <2>1. pc' \in [Requests -> RequestPcs]
    BY <1>1 DEF AskRound, To, RequestPcs
  <2>2. rid' \in [Requests -> 0 .. MaxRounds]
    BY <1>1 DEF AskRound, ClockTypeOK
  <2> QED
    BY <1>0, <1>1, <2>1, <2>2 DEF AskRound, args, repoVars, settleVars
<1>2. CASE Debit(q)
  <2>1. pc' \in [Requests -> RequestPcs]
    <3>1. To(q, "failed") \/ To(q, "debited")
      BY <1>2 DEF Debit
    <3> QED
      BY <3>1 DEF To, RequestPcs
  <2>2. wallet' \in [Users -> Int \cup {NoEntry}]
    <3>1. user[q] \in Users /\ amount[q] \in Int /\ DefaultBalance \in Int
      BY BSAmounts
    <3>2. (IF wallet[user[q]] = NoEntry THEN DefaultBalance ELSE wallet[user[q]]) - amount[q] \in Int
      BY <3>1
    <3> QED
      BY <1>2, <3>1, <3>2 DEF Debit
  <2> QED
    BY <1>0, <1>2, <2>1, <2>2 DEF Debit, args, repoVars, settleVars
<1>3. CASE RecordBet(q)
  <2>1. pc' \in [Requests -> RequestPcs]
    BY <1>3 DEF RecordBet, To, RequestPcs
  <2> QED
    BY <1>0, <1>3, <2>1 DEF RecordBet, args, repoVars, settleVars
<1>4. CASE GetUserBet(q)
  <2>1. pc' \in [Requests -> RequestPcs]
    BY <1>4 DEF GetUserBet, To, RequestPcs
  <2>2. found' \in [Requests -> Requests \cup {NoBet}]
    <3>1. PICK f \in Requests \cup {NoBet} : found' = [found EXCEPT ![q] = f]
      <4> DEFINE match == {b \in bets[rid[q]] : SameArea(q, b)}
      <4>1. PICK f \in IF match = {} THEN {NoBet} ELSE match : found' = [found EXCEPT ![q] = f]
        BY <1>4 DEF GetUserBet
      <4>2. ASSUME f \in match PROVE f \in Requests
        <5>1. f \in bets[rid[q]] /\ SameArea(q, f)
          BY <4>2
        <5> QED
          BY <1>4, <5>1 DEF GetUserBet, RoundKnown
      <4>3. f \in Requests \cup {NoBet}
        BY <4>1, <4>2
      <4> QED
        BY <4>1, <4>3
    <3> QED
      BY <3>1
  <2> QED
    BY <1>0, <1>4, <2>1, <2>2 DEF GetUserBet, args, repoVars, settleVars
<1>5. CASE UpdateBetAmount(q)
  <2>1. pc' \in [Requests -> RequestPcs]
    BY <1>5 DEF UpdateBetAmount, To, RequestPcs
  <2>2. stake' \in [Requests -> Int]
    <3>1. found[q] \in Requests /\ amount[q] \in Int
      BY <1>5, BSAmounts DEF UpdateBetAmount
    <3>2. stake[found[q]] + amount[q] \in Int
      BY <3>1
    <3> QED
      BY <1>5, <3>1, <3>2 DEF UpdateBetAmount
  <2>3. late' \subseteq Requests /\ torn' \subseteq Requests
    BY <1>5 DEF UpdateBetAmount
  <2> QED
    BY <1>0, <1>5, <2>1, <2>2, <2>3 DEF UpdateBetAmount, args, settleVars
<1>6. CASE SaveBet(q)
  <2>1. pc' \in [Requests -> RequestPcs]
    BY <1>6 DEF SaveBet, To, RequestPcs
  <2>2. stake' \in [Requests -> Int]
    BY <1>6, BSAmounts DEF SaveBet
  <2>3. bets' \in [Rounds -> SUBSET Requests] /\ queue' \in [Rounds -> SUBSET Requests]
    <3>1. rid[q] \in Rounds
      BY <1>6 DEF SaveBet, RoundKnown
    <3>2. bets[rid[q]] \cup {q} \subseteq Requests /\ queue[rid[q]] \cup {q} \subseteq Requests
      BY <3>1
    <3> QED
      BY <1>6, <3>1, <3>2 DEF SaveBet
  <2>4. late' \subseteq Requests
    BY <1>6 DEF SaveBet
  <2> QED
    BY <1>0, <1>6, <2>1, <2>2, <2>3, <2>4 DEF SaveBet, args, settleVars
<1> QED
  BY <1>1, <1>2, <1>3, <1>4, <1>5, <1>6 DEF PlaceBet

\* A request keeps the round ID it has read.
LEMMA RoundKnownStep ==
    ASSUME TypeOK, RoundKnown, [Next]_vars
    PROVE  RoundKnown'
<1> USE DEF TypeOK, RoundKnown
<1>1. ASSUME NEW q \in Requests, PlaceBet(q) PROVE RoundKnown'
  <2>1. CASE AskRound(q)
    BY <2>1 DEF AskRound, To, ClockTypeOK
  <2>2. CASE Debit(q)
    BY <2>2 DEF Debit, To
  <2>3. CASE RecordBet(q)
    BY <2>3 DEF RecordBet, To
  <2>4. CASE GetUserBet(q)
    BY <2>4 DEF GetUserBet, To
  <2>5. CASE UpdateBetAmount(q)
    BY <2>5 DEF UpdateBetAmount, To
  <2>6. CASE SaveBet(q)
    BY <2>6 DEF SaveBet, To
  <2> QED
    BY <1>1, <2>1, <2>2, <2>3, <2>4, <2>5, <2>6 DEF PlaceBet
<1>2. ASSUME NEW r \in Rounds, RoundResult(r) \/ SettleRound(r) PROVE RoundKnown'
  BY <1>2 DEF RoundResult, SettleRound, GetBetsForSettlement, FillBatch, MakeOrders, BatchCreate,
              AddBalance, SendToUser, ClearBets, requestVars
<1>3. CASE Tick \/ UNCHANGED vars
  BY <1>3 DEF Tick, vars, requestVars
<1> QED
  BY <1>1, <1>2, <1>3 DEF Next

\* A SettleRound step keeps every variable in its domain.
LEMMA SettleRoundType ==
    ASSUME TypeOK, NEW r \in Rounds, SettleRound(r)
    PROVE  TypeOK'
<1> USE DEF TypeOK
<1>0. ClockTypeOK' /\ UNCHANGED clockVars
  <2>1. UNCHANGED clockVars
    BY DEF SettleRound, GetBetsForSettlement, FillBatch, MakeOrders, BatchCreate, AddBalance,
           SendToUser, ClearBets
  <2> QED
    BY <2>1 DEF ClockTypeOK, clockVars
<1>1. CASE GetBetsForSettlement(r)
  <2>1. spc' \in [Rounds -> SettlePcs]
    BY <1>1 DEF GetBetsForSettlement, SettleTo, SettlePcs
  <2>2. popped' \in [Rounds -> SUBSET Requests] /\ queue' \in [Rounds -> SUBSET Requests]
    BY <1>1 DEF GetBetsForSettlement
  <2> QED
    BY <1>0, <1>1, <2>1, <2>2 DEF GetBetsForSettlement, args, requestVars
<1>2. CASE FillBatch(r)
  <2>1. spc' \in [Rounds -> SettlePcs]
    BY <1>2 DEF FillBatch, SettleTo, SettlePcs
  <2>2. PICK B \in SUBSET popped[r] :
          /\ batch' = [batch EXCEPT ![r] = B]
          /\ popped' = [popped EXCEPT ![r] = @ \ B]
          /\ order' = [b \in Requests |->
                          IF b \in B
                          THEN [st |-> "priced", amount |-> 0, payout |-> CalculateWin(b, r)]
                          ELSE order[b]]
    BY <1>2 DEF FillBatch
  <2>3. popped' \in [Rounds -> SUBSET Requests] /\ batch' \in [Rounds -> SUBSET Requests]
    BY <2>2
  <2>4. \A b \in Requests : CalculateWin(b, r) \in Int
    BY DEF CalculateWin
  <2>5. order' \in [Requests -> Order]
    BY <2>2, <2>4 DEF Order
  <2> QED
    BY <1>0, <1>2, <2>1, <2>3, <2>5 DEF FillBatch, args, requestVars, repoVars
<1>7. CASE MakeOrders(r)
  <2>1. spc' \in [Rounds -> SettlePcs]
    BY <1>7 DEF MakeOrders, SettleTo, SettlePcs
  <2>2. order' \in [Requests -> Order]
    <3>1. \A b \in Requests : order[b].payout \in Int
      BY DEF Order
    <3> QED
      BY <1>7, <3>1 DEF MakeOrders, Order
  <2> QED
    BY <1>0, <1>7, <2>1, <2>2 DEF MakeOrders, args, requestVars, repoVars
<1>3. CASE BatchCreate(r)
  <2>1. spc' \in [Rounds -> SettlePcs]
    <3>1. SettleTo(r, "failed") \/ SettleTo(r, "pay")
      BY <1>3 DEF BatchCreate
    <3> QED
      BY <3>1 DEF SettleTo, SettlePcs
  <2>2. order' \in [Requests -> Order]
    <3>1. \A b \in Requests : order[b].amount \in Int /\ order[b].payout \in Int
      BY DEF Order
    <3>2. Stored(batch[r]) \in [Requests -> Order]
      BY <3>1 DEF Stored, Order
    <3> QED
      BY <1>3, <3>2 DEF BatchCreate
  <2> QED
    BY <1>0, <1>3, <2>1, <2>2 DEF BatchCreate, args, requestVars, repoVars
<1>4. ASSUME NEW b \in Requests, AddBalance(r, b) PROVE TypeOK'
  <2>1. spc' \in [Rounds -> SettlePcs]
    BY <1>4 DEF AddBalance, SettleTo, SettlePcs, NextPc
  <2>2. batch' \in [Rounds -> SUBSET Requests] /\ cur' \in [Rounds -> Requests \cup {NoBet}]
    BY <1>4 DEF AddBalance
  <2>3. wallet' \in [Users -> Int \cup {NoEntry}] /\ credits' \in [Requests -> Seq(Int)]
    <3>1. CASE UNCHANGED <<wallet, credits>>
      BY <3>1
    <3>2. CASE Deposit(b)
      <4>1. user[b] \in Users /\ order[b].payout \in Int
        BY DEF Order
      <4>2. (IF wallet[user[b]] = NoEntry THEN 0 ELSE wallet[user[b]]) + order[b].payout \in Int
        BY <4>1
      <4> QED
        BY <3>2, <4>1, <4>2 DEF Deposit
    <3> QED
      BY <1>4, <3>1, <3>2 DEF AddBalance
  <2> QED
    BY <1>0, <1>4, <2>1, <2>2, <2>3 DEF AddBalance, args, requestVars, repoVars
<1>5. CASE SendToUser(r)
  <2>1. spc' \in [Rounds -> SettlePcs] /\ cur' \in [Rounds -> Requests \cup {NoBet}]
    BY <1>5 DEF SendToUser, SettleTo, SettlePcs, NextPc
  <2>2. notices' \in [Requests -> Seq(Int)]
    <3>1. CASE cur[r] \in Requests
      <4>1. order[cur[r]].payout \in Int
        BY <3>1 DEF Order
      <4>2. Append(notices[cur[r]], order[cur[r]].payout) \in Seq(Int)
        BY <3>1, <4>1
      <4> QED
        BY <1>5, <3>1, <4>2 DEF SendToUser
    <3>2. CASE cur[r] \notin Requests
      BY <1>5, <3>2 DEF SendToUser
    <3> QED
      BY <3>1, <3>2
  <2> QED
    BY <1>0, <1>5, <2>1, <2>2 DEF SendToUser, args, requestVars, repoVars
<1>6. CASE ClearBets(r)
  <2>1. spc' \in [Rounds -> SettlePcs]
    BY <1>6 DEF ClearBets, SettleTo, SettlePcs
  <2>2. bets' \in [Rounds -> SUBSET Requests] /\ queue' \in [Rounds -> SUBSET Requests]
    BY <1>6 DEF ClearBets
  <2> QED
    BY <1>0, <1>6, <2>1, <2>2 DEF ClearBets, args, requestVars
<1> QED
  BY <1>1, <1>2, <1>3, <1>4, <1>5, <1>6, <1>7 DEF SettleRound

\* The domains, with RoundKnown, are inductive.
LEMMA TypeStep ==
    ASSUME TypeOK, RoundKnown, [Next]_vars
    PROVE  TypeOK'
<1>0. ClockTypeOK'
  BY ClockType, StepsClock DEF TypeOK
<1>1. ASSUME NEW q \in Requests, PlaceBet(q) PROVE TypeOK'
  BY <1>1, PlaceBetType
<1>2. ASSUME NEW r \in Rounds, SettleRound(r) PROVE TypeOK'
  BY <1>2, SettleRoundType
<1>3. ASSUME NEW r \in Rounds, RoundResult(r) PROVE TypeOK'
  <2>1. spc' \in [Rounds -> SettlePcs]
    BY <1>3 DEF TypeOK, RoundResult, SettleTo, SettlePcs
  <2> QED
    BY <1>0, <1>3, <2>1 DEF TypeOK, RoundResult, args, requestVars, repoVars
<1>4. CASE Tick \/ UNCHANGED vars
  BY <1>0, <1>4 DEF TypeOK, Tick, vars, args, requestVars, repoVars, settleVars
<1> QED
  BY <1>1, <1>2, <1>3, <1>4 DEF Next

\* The initial state is typed, and no request has asked for a round.
LEMMA TypeInit == Init => TypeOK /\ RoundKnown
<1> SUFFICES ASSUME Init PROVE TypeOK /\ RoundKnown
  OBVIOUS
<1>1. ClockTypeOK
  BY MaxRoundsAssumption DEF Init, ClockInit, ClockTypeOK, Phases
<1>2. order \in [Requests -> Order]
  BY DEF Init, Order, NoOrder
<1>3. TypeOK
  <2>1. /\ pc \in [Requests -> RequestPcs] /\ rid \in [Requests -> 0 .. MaxRounds]
        /\ spc \in [Rounds -> SettlePcs]
    BY MaxRoundsAssumption DEF Init, RequestPcs, SettlePcs
  <2>2. credits \in [Requests -> Seq(Int)] /\ notices \in [Requests -> Seq(Int)]
    BY DEF Init
  <2> QED
    BY <1>1, <1>2, <2>1, <2>2 DEF Init, TypeOK
<1>4. RoundKnown
  BY DEF Init, RoundKnown
<1> QED
  BY <1>3, <1>4

\* Type correctness of GS for every instance: in particular what GetUserBet
\* finds is always a bet, and what the settlement pays is always a number.
THEOREM TypeCorrect == Spec => []TypeOK
<1>1. Init => TypeOK /\ RoundKnown
  BY TypeInit
<1>2. TypeOK /\ RoundKnown /\ [Next]_vars => (TypeOK /\ RoundKnown)'
  BY TypeStep, RoundKnownStep
<1> QED
  BY <1>1, <1>2, PTL DEF Spec

----------------------------------------------------------------------------
\* Settlement. What the set of rounds is does not matter here.

HIDE DEF Rounds

\* A finished PlaceBet call keeps its result, its round and its arguments.
LEMMA OkStays ==
    ASSUME TypeOK, [Next]_vars, NEW b \in Requests, pc[b] = "ok"
    PROVE  pc'[b] = "ok" /\ rid'[b] = rid[b]
<1> USE DEF TypeOK
<1>1. ASSUME NEW q \in Requests, PlaceBet(q) PROVE pc'[b] = "ok" /\ rid'[b] = rid[b]
  BY <1>1 DEF PlaceBet, AskRound, Debit, RecordBet, GetUserBet, UpdateBetAmount, SaveBet, To
<1>2. ASSUME NEW r \in Rounds, RoundResult(r) \/ SettleRound(r) PROVE UNCHANGED <<pc, rid>>
  BY <1>2 DEF RoundResult, SettleRound, GetBetsForSettlement, FillBatch, MakeOrders, BatchCreate,
              AddBalance, SendToUser, ClearBets, requestVars
<1>3. CASE Tick \/ UNCHANGED vars
  BY <1>3 DEF Tick, vars, requestVars
<1> QED
  BY <1>1, <1>2, <1>3 DEF Next

\* The colour of a request is an argument: no step changes it.
LEMMA ColorStays == ASSUME [Next]_vars PROVE color' = color
<1>1. ASSUME NEW q \in Requests, PlaceBet(q) PROVE color' = color
  BY <1>1 DEF PlaceBet, AskRound, Debit, RecordBet, GetUserBet, UpdateBetAmount, SaveBet, args
<1>2. ASSUME NEW r \in Rounds, RoundResult(r) \/ SettleRound(r) PROVE color' = color
  BY <1>2 DEF RoundResult, SettleRound, GetBetsForSettlement, FillBatch, MakeOrders, BatchCreate,
              AddBalance, SendToUser, ClearBets, requestVars, args
<1>3. CASE Tick \/ UNCHANGED vars
  BY <1>3 DEF Tick, vars, requestVars, args
<1> QED
  BY <1>1, <1>2, <1>3 DEF Next

\* The progress of a round whose bets a step does not touch.
LEMMA UntouchedRound ==
    ASSUME NEW x \in Rounds, RoundProgress(x), Unsettled(x)' \subseteq Unsettled(x),
           spc'[x] = spc[x], batch'[x] = batch[x], cur'[x] = cur[x],
           \A b \in InHand(x) : /\ order'[b] = order[b]
                                /\ credits'[b] = credits[b] /\ notices'[b] = notices[b]
    PROVE  RoundProgress(x)'
BY DEF RoundProgress, InHand

\* A bet whose stake changes while its order is being made is noted as torn.
LEMMA TornStep ==
    ASSUME TypeOK, SettlementInv, [Next]_vars
    PROVE  /\ torn \subseteq torn'
           /\ \A b \in Requests : order[b].st = "priced" => stake'[b] = stake[b] \/ b \in torn'
<1> USE DEF TypeOK
<1>1. ASSUME NEW q \in Requests, UpdateBetAmount(q)
      PROVE  /\ torn \subseteq torn'
             /\ \A b \in Requests : order[b].st = "priced" => stake'[b] = stake[b] \/ b \in torn'
  BY <1>1 DEF UpdateBetAmount, Tears
<1>2. ASSUME NEW q \in Requests, SaveBet(q)
      PROVE  /\ torn \subseteq torn'
             /\ \A b \in Requests : order[b].st = "priced" => stake'[b] = stake[b]
  <2>1. order[q].st = "none"
    BY <1>2 DEF SaveBet, SettlementInv, BetsSaved
  <2> QED
    BY <1>2, <2>1 DEF SaveBet
<1>3. ASSUME NEW q \in Requests, AskRound(q) \/ Debit(q) \/ RecordBet(q) \/ GetUserBet(q)
      PROVE  UNCHANGED <<torn, stake>>
  BY <1>3 DEF AskRound, Debit, RecordBet, GetUserBet, repoVars
<1>4. ASSUME NEW r \in Rounds, RoundResult(r) \/ SettleRound(r) PROVE UNCHANGED <<torn, stake>>
  BY <1>4 DEF RoundResult, SettleRound, GetBetsForSettlement, FillBatch, MakeOrders, BatchCreate,
              AddBalance, SendToUser, ClearBets, requestVars, repoVars
<1>5. CASE Tick \/ UNCHANGED vars
  BY <1>5 DEF Tick, vars, requestVars, repoVars
<1> QED
  BY <1>1, <1>2, <1>3, <1>4, <1>5 DEF Next, PlaceBet

\* An order stays right as long as it is kept.
LEMMA KeptOrderRight ==
    ASSUME TypeOK, SettlementInv, [Next]_vars, NEW b \in Requests, order[b].st # "none",
           order'[b] = order[b]
    PROVE  pc'[b] = "ok" /\ rid'[b] \in Rounds /\ OrderRight(b)'
<1>1. pc[b] = "ok" /\ rid[b] \in Rounds /\ OrderRight(b)
  BY DEF SettlementInv, BetsSaved, OrdersRight
<1>2. pc'[b] = "ok" /\ rid'[b] = rid[b]
  BY <1>1, OkStays
<1>3. ClockTypeOK /\ [ClockNext]_clockVars
  BY StepsClock DEF TypeOK
<1>4. \A r \in Rounds : Shown(r) => Shown(r)' /\ results'[r] = results[r]
  BY <1>3, ShownStays
<1>5. Shown(rid[b])' /\ results'[rid[b]] = results[rid[b]]
  BY <1>1, <1>2, <1>4 DEF Shown, OrderRight
<1> QED
  BY <1>1, <1>2, <1>5, ColorStays, TornStep DEF OrderRight

\* The result a settlement works with stays the drawn one.
LEMMA SettlementToldStep ==
    ASSUME TypeOK, SettlementInv, [Next]_vars, NEW r \in Rounds, spc[r] # "idle"
    PROVE  told'[r] = <<results'[r]>> /\ Shown(r)'
<1>1. told[r] = <<results[r]>> /\ Shown(r)
  BY DEF SettlementInv, SettlementTold
<1>2. ClockTypeOK /\ [ClockNext]_clockVars
  BY StepsClock DEF TypeOK
<1>3. Shown(r)' /\ results'[r] = results[r]
  BY <1>1, <1>2, ShownStays
<1>4. told'[r] = told[r]
  BY <1>1, <1>2, ToldStays
<1> QED
  BY <1>1, <1>3, <1>4

\* A step of the clock or of PlaceBet: the settlements do not move, and a bet may
\* enter a queue when its call finishes.
LEMMA RequestStep ==
    ASSUME TypeOK, TypeOK', SettlementInv, [Next]_vars, UNCHANGED settleVars,
           \A r \in Rounds : \A b \in queue'[r] :
               b \in queue[r] \/ (b \in Requests /\ pc[b] # "ok" /\ pc'[b] = "ok" /\ rid'[b] = r)
    PROVE  SettlementInv'
<1> USE DEF settleVars
<1>0. RoundKnown'
  BY RoundKnownStep DEF SettlementInv
<1>1. \A r \in Rounds : InHand(r)' = InHand(r)
  BY DEF InHand
<1>2. \A b \in Requests : pc[b] # "ok" =>
          /\ order[b].st = "none" /\ credits[b] = <<>> /\ notices[b] = <<>>
          /\ \A r \in Rounds : b \notin queue[r] /\ b \notin InHand(r)
  BY DEF SettlementInv, BetsSaved, PayoutsBacked, WinnersPaidBeforeNotice
<1>3. BetsSaved'
  <2>1. \A r \in Rounds : \A b \in (queue[r] \cup InHand(r))' :
          b \in Requests /\ pc'[b] = "ok" /\ rid'[b] = r
    BY <1>1, OkStays DEF SettlementInv, BetsSaved
  <2>2. \A b \in Requests : order'[b].st # "none" => pc'[b] = "ok" /\ rid'[b] \in Rounds
    BY KeptOrderRight
  <2> QED
    BY <2>1, <2>2 DEF BetsSaved
<1>4. SettlementTold'
  BY SettlementToldStep DEF SettlementTold
<1>5. OrdersRight'
  <2>1. ASSUME NEW b \in Requests PROVE OrderRight(b)'
    <3>1. CASE order[b].st # "none"
      BY <3>1, KeptOrderRight
    <3>2. CASE order[b].st = "none"
      BY <3>2 DEF OrderRight
    <3> QED
      BY <3>1, <3>2
  <2> QED
    BY <2>1 DEF OrdersRight
<1>6. \A r \in Rounds : \A b \in queue'[r] : b \in queue[r] \/
          (/\ order[b].st = "none" /\ credits[b] = <<>> /\ notices[b] = <<>>
           /\ b \notin InHand(r))
  BY <1>2
<1>7. SettledOnce'
  BY <1>6 DEF SettlementInv, SettledOnce, Unsettled, InHand
<1>8. BatchProgress'
  BY <1>6 DEF SettlementInv, BatchProgress, RoundProgress, Unsettled, InHand
<1>9. PayoutsBacked' /\ WinnersPaidBeforeNotice'
  BY DEF SettlementInv, PayoutsBacked, WinnersPaidBeforeNotice
<1> QED
  BY <1>0, <1>3, <1>4, <1>5, <1>7, <1>8, <1>9 DEF SettlementInv

\* GMS starts the settlement of a round that has none.
LEMMA RoundResultStep ==
    ASSUME TypeOK, TypeOK', SettlementInv, [Next]_vars, NEW r \in Rounds, RoundResult(r)
    PROVE  SettlementInv'
<1> USE DEF RoundResult, requestVars, repoVars, args
<1>0. RoundKnown'
  BY RoundKnownStep DEF SettlementInv
<1>1. spc[r] = "idle"
  BY DEF TellGS, SettlementInv, SettlementTold
<1>2. /\ spc'[r] = "pop"
      /\ \A x \in Rounds : x # r => spc'[x] = spc[x]
  BY DEF SettleTo, TypeOK
<1>3. \A x \in Rounds : InHand(x)' = InHand(x)
  BY <1>1, <1>2 DEF InHand
<1>4. BetsSaved'
  BY <1>3 DEF SettlementInv, BetsSaved
<1>5. SettlementTold'
  <2>1. told'[r] = <<results'[r]>> /\ Shown(r)'
    BY DEF TellGS, Shown, TypeOK, ClockTypeOK
  <2> QED
    BY <1>2, <2>1, SettlementToldStep DEF SettlementTold
<1>6. OrdersRight'
  BY DEF TellGS, Shown, SettlementInv, OrdersRight, OrderRight
<1>7. BatchProgress'
  BY <1>1, <1>2 DEF SettlementInv, BatchProgress, RoundProgress, Unsettled
<1>8. SettledOnce' /\ PayoutsBacked' /\ WinnersPaidBeforeNotice'
  BY DEF SettlementInv, SettledOnce, Unsettled, PayoutsBacked, WinnersPaidBeforeNotice
<1> QED
  BY <1>0, <1>4, <1>5, <1>6, <1>7, <1>8 DEF SettlementInv

\* GetBetsForSettlement hands the queued bets to the settlement, or ends it.
LEMMA PopStep ==
    ASSUME TypeOK, SettlementInv, NEW r \in Rounds, GetBetsForSettlement(r)
    PROVE  SettlementInv'
<1> USE DEF TypeOK, GetBetsForSettlement, requestVars, clockVars, args
<1>0. RoundKnown'
  BY DEF SettlementInv, RoundKnown
<1>1. /\ spc[r] = "pop" /\ spc'[r] \in {"clear", "batch"}
      /\ \A x \in Rounds : x # r => spc'[x] = spc[x]
  BY DEF SettleTo
<1>2. /\ \A x \in Rounds : Unsettled(x)' \subseteq Unsettled(x) /\ queue'[x] \subseteq queue[x]
      /\ \A x \in Rounds : queue'[x] \cap popped'[x] = {}
  <2>1. \A x \in Rounds : x # r => queue'[x] = queue[x] /\ popped'[x] = popped[x]
    OBVIOUS
  <2>2. \/ queue'[r] = queue[r] /\ popped'[r] = popped[r]
        \/ queue'[r] = {} /\ popped'[r] = queue[r]
    OBVIOUS
  <2> QED
    BY <2>1, <2>2 DEF Unsettled, SettlementInv, SettledOnce
<1>3. \A x \in Rounds : (queue[x] \cup InHand(x))' \subseteq queue[x] \cup InHand(x)
  BY <1>1, <1>2 DEF InHand, Unsettled
<1>4. BetsSaved'
  BY <1>3 DEF SettlementInv, BetsSaved
<1>5. SettlementTold' /\ OrdersRight'
  BY <1>1 DEF SettlementInv, SettlementTold, OrdersRight, OrderRight, Shown
<1>6. BatchProgress'
  BY <1>1, <1>2 DEF SettlementInv, BatchProgress, RoundProgress
<1>7. SettledOnce'
  BY <1>2 DEF SettlementInv, SettledOnce
<1>8. PayoutsBacked' /\ WinnersPaidBeforeNotice'
  BY DEF SettlementInv, PayoutsBacked, WinnersPaidBeforeNotice
<1> QED
  BY <1>0, <1>4, <1>5, <1>6, <1>7, <1>8 DEF SettlementInv

\* Orders are made for popped bets: they had none, and nothing was paid for them.
LEMMA FillBatchStep ==
    ASSUME TypeOK, SettlementInv, NEW r \in Rounds, FillBatch(r)
    PROVE  SettlementInv'
<1> USE DEF TypeOK
<1>0. /\ RoundKnown'
      /\ UNCHANGED <<id, phase, results, told, color, pc, rid, torn, stake, queue, cur, credits, notices>>
  BY DEF FillBatch, requestVars, clockVars, args, repoVars, SettlementInv, RoundKnown
<1>1. /\ spc[r] = "batch" /\ spc'[r] = "order"
      /\ \A x \in Rounds : x # r => spc'[x] = spc[x]
  BY DEF FillBatch, SettleTo
<1>2. PICK B \in SUBSET popped[r] :
          /\ batch' = [batch EXCEPT ![r] = B]
          /\ popped' = [popped EXCEPT ![r] = @ \ B]
          /\ order' = [b \in Requests |->
                          IF b \in B
                          THEN [st |-> "priced", amount |-> 0, payout |-> CalculateWin(b, r)]
                          ELSE order[b]]
  BY DEF FillBatch
<1>3. \A b \in B : /\ b \in Requests /\ pc[b] = "ok" /\ rid[b] = r
                   /\ order[b].st = "none" /\ credits[b] = <<>> /\ notices[b] = <<>>
                   /\ order'[b].st = "priced"
                   /\ \A x \in Rounds : x # r => b \notin queue[x] /\ b \notin InHand(x)
  <2>1. \A b \in B : b \in InHand(r) /\ b \in Unsettled(r)
    BY DEF InHand, Unsettled
  <2> QED
    BY <1>2, <2>1 DEF SettlementInv, BetsSaved, SettledOnce
<1>4. \A b \in Requests : b \notin B => order'[b] = order[b]
  BY <1>2
<1>5. /\ \A x \in Rounds : Unsettled(x)' \subseteq Unsettled(x) \ B
      /\ \A x \in Rounds : queue'[x] \cap popped'[x] = {}
  <2>1. \A x \in Rounds : x # r => Unsettled(x)' = Unsettled(x) /\ Unsettled(x) \cap B = {}
    BY <1>0, <1>2, <1>3 DEF Unsettled, InHand
  <2>2. Unsettled(r)' \subseteq Unsettled(r) \ B
    BY <1>0, <1>2 DEF Unsettled, SettlementInv, SettledOnce
  <2> QED
    BY <1>0, <1>2, <2>1, <2>2 DEF SettlementInv, SettledOnce
<1>6. \A x \in Rounds : (queue[x] \cup InHand(x))' \subseteq queue[x] \cup InHand(x)
  <2>1. \A x \in Rounds : x # r => InHand(x)' = InHand(x)
    BY <1>0, <1>1, <1>2 DEF InHand
  <2>2. InHand(r)' \subseteq InHand(r)
    BY <1>0, <1>1, <1>2 DEF InHand
  <2> QED
    BY <1>0, <2>1, <2>2
<1>7. BetsSaved'
  <2>1. \A b \in Requests : order'[b].st # "none" => pc'[b] = "ok" /\ rid'[b] \in Rounds
    BY <1>0, <1>3, <1>4 DEF SettlementInv, BetsSaved
  <2> QED
    BY <1>0, <1>6, <2>1 DEF SettlementInv, BetsSaved
<1>8. SettlementTold'
  BY <1>0, <1>1 DEF SettlementInv, SettlementTold, Shown
<1>9. OrdersRight'
  <2>1. ASSUME NEW b \in B PROVE OrderRight(b)'
    <3>1. told[r] = <<results[r]>> /\ Shown(r)
      BY <1>1 DEF SettlementInv, SettlementTold
    <3>2. WinningColor(r) = results[r]
      BY <3>1 DEF WinningColor
    <3>3. order'[b].st = "priced" /\ order'[b].payout = CalculateWin(b, r)
      BY <1>2, <1>3
    <3> QED
      BY <1>0, <1>3, <3>1, <3>2, <3>3 DEF OrderRight, CalculateWin, Shown
  <2>2. ASSUME NEW b \in Requests, b \notin B PROVE OrderRight(b)'
    BY <1>0, <1>4, <2>2 DEF SettlementInv, OrdersRight, OrderRight, Shown
  <2> QED
    BY <2>1, <2>2 DEF OrdersRight
<1>10. BatchProgress'
  <2>1. ASSUME NEW x \in Rounds, x # r PROVE RoundProgress(x)'
    <3>1. \A b \in InHand(x) : order'[b] = order[b]
      BY <1>3, <1>4, <2>1 DEF SettlementInv, BetsSaved
    <3>2. spc'[x] = spc[x] /\ batch'[x] = batch[x]
      BY <1>1, <1>2, <2>1
    <3> QED
      BY <1>0, <1>5, <3>1, <3>2, UntouchedRound DEF SettlementInv, BatchProgress
  <2>2. RoundProgress(r)'
    BY <1>0, <1>1, <1>2, <1>3 DEF RoundProgress
  <2> QED
    BY <2>1, <2>2 DEF BatchProgress
<1>11. SettledOnce'
  <2>1. ASSUME NEW x \in Rounds, NEW b \in Unsettled(x)'
        PROVE  order'[b].st = "none" /\ credits'[b] = <<>> /\ notices'[b] = <<>>
    <3>1. b \in Unsettled(x) /\ b \notin B /\ b \in Requests
      BY <1>5 DEF SettlementInv, BetsSaved, Unsettled, InHand
    <3> QED
      BY <1>0, <1>4, <3>1 DEF SettlementInv, SettledOnce
  <2>2. \A x \in Rounds : batch'[x] \cap Unsettled(x)' = {}
    BY <1>2, <1>5 DEF SettlementInv, SettledOnce
  <2> QED
    BY <1>5, <2>1, <2>2 DEF SettledOnce
<1>12. PayoutsBacked' /\ WinnersPaidBeforeNotice'
  BY <1>0, <1>3, <1>4 DEF SettlementInv, PayoutsBacked, WinnersPaidBeforeNotice
<1> QED
  BY <1>0, <1>7, <1>8, <1>9, <1>10, <1>11, <1>12 DEF SettlementInv

\* The orders of the batch are completed with the amounts of the bets.
LEMMA MakeOrdersStep ==
    ASSUME TypeOK, SettlementInv, NEW r \in Rounds, MakeOrders(r)
    PROVE  SettlementInv'
<1> USE DEF TypeOK
<1>0. /\ RoundKnown'
      /\ UNCHANGED <<id, phase, results, told, color, pc, rid, torn, stake, queue, popped, batch, cur,
                     credits, notices>>
  BY DEF MakeOrders, requestVars, clockVars, args, repoVars, SettlementInv, RoundKnown
<1>1. /\ spc[r] = "order" /\ spc'[r] = "persist"
      /\ \A x \in Rounds : x # r => spc'[x] = spc[x]
  BY DEF MakeOrders, SettleTo
<1>2. /\ \A b \in Requests : b \notin batch[r] => order'[b] = order[b]
      /\ \A b \in Requests : b \in batch[r] =>
            order'[b].st = "draft" /\ order'[b].amount = stake[b] /\ order'[b].payout = order[b].payout
  BY DEF MakeOrders
<1>3. \A b \in batch[r] : /\ b \in Requests /\ pc[b] = "ok" /\ rid[b] = r
                          /\ order[b].st = "priced" /\ credits[b] = <<>> /\ notices[b] = <<>>
  BY <1>1 DEF SettlementInv, BetsSaved, InHand, BatchProgress, RoundProgress
<1>4. \A x \in Rounds : \A b \in Unsettled(x) : b \in Requests /\ b \notin batch[r]
  BY <1>3 DEF SettlementInv, BetsSaved, SettledOnce, InHand, Unsettled
<1>5. \A x \in Rounds : Unsettled(x)' = Unsettled(x) /\ InHand(x)' = InHand(x)
  BY <1>0, <1>1 DEF Unsettled, InHand
<1>6. BetsSaved'
  <2>1. \A b \in Requests : order'[b].st # "none" => pc'[b] = "ok" /\ rid'[b] \in Rounds
    BY <1>0, <1>2, <1>3 DEF SettlementInv, BetsSaved
  <2> QED
    BY <1>0, <1>5, <2>1 DEF SettlementInv, BetsSaved
<1>7. SettlementTold'
  BY <1>0, <1>1 DEF SettlementInv, SettlementTold, Shown
<1>8. OrdersRight'
  <2>1. ASSUME NEW b \in Requests PROVE OrderRight(b)'
    <3>1. OrderRight(b)
      BY DEF SettlementInv, OrdersRight
    <3>2. CASE b \in batch[r]
      BY <1>0, <1>2, <1>3, <3>1, <3>2 DEF OrderRight, Shown
    <3>3. CASE b \notin batch[r]
      BY <1>0, <1>2, <3>1, <3>3 DEF OrderRight, Shown
    <3> QED
      BY <3>2, <3>3
  <2> QED
    BY <2>1 DEF OrdersRight
<1>9. BatchProgress'
  <2>1. ASSUME NEW x \in Rounds, x # r PROVE RoundProgress(x)'
    <3>1. \A b \in InHand(x) : order'[b] = order[b]
      BY <1>2, <1>3, <2>1 DEF SettlementInv, BetsSaved
    <3> QED
      BY <1>0, <1>1, <1>5, <2>1, <3>1, UntouchedRound DEF SettlementInv, BatchProgress
  <2>2. RoundProgress(r)'
    BY <1>0, <1>1, <1>2, <1>3 DEF RoundProgress
  <2> QED
    BY <2>1, <2>2 DEF BatchProgress
<1>10. SettledOnce'
  <2>1. ASSUME NEW x \in Rounds, NEW b \in Unsettled(x)
        PROVE  order'[b].st = "none" /\ credits'[b] = <<>> /\ notices'[b] = <<>>
    BY <1>0, <1>2, <1>4 DEF SettlementInv, SettledOnce
  <2> QED
    BY <1>0, <1>5, <2>1 DEF SettlementInv, SettledOnce
<1>11. PayoutsBacked' /\ WinnersPaidBeforeNotice'
  BY <1>0, <1>2, <1>3 DEF SettlementInv, PayoutsBacked, WinnersPaidBeforeNotice
<1> QED
  BY <1>0, <1>6, <1>7, <1>8, <1>9, <1>10, <1>11 DEF SettlementInv

\* BatchCreate stores the orders of the batch as they are, or the settlement stops.
LEMMA BatchCreateStep ==
    ASSUME TypeOK, SettlementInv, NEW r \in Rounds, BatchCreate(r)
    PROVE  SettlementInv'
<1> USE DEF TypeOK
<1>0. /\ RoundKnown'
      /\ UNCHANGED <<id, phase, results, told, color, pc, rid, torn, stake, queue, popped, batch, cur,
                     credits, notices>>
  BY DEF BatchCreate, requestVars, clockVars, args, repoVars, SettlementInv, RoundKnown
<1>1. /\ spc[r] = "persist" /\ spc'[r] \in {"pay", "failed"}
      /\ \A x \in Rounds : x # r => spc'[x] = spc[x]
  BY DEF BatchCreate, SettleTo
<1>2. /\ \A b \in Requests : order'[b].payout = order[b].payout /\ order'[b].amount = order[b].amount
      /\ \A b \in Requests : b \notin batch[r] => order'[b] = order[b]
      /\ \A b \in Requests : b \in batch[r] => order'[b].st \in {order[b].st, "stored"}
      /\ spc'[r] = "pay" => \A b \in batch[r] : order'[b].st = "stored"
  <2>1. \A b \in Requests : order[b].amount \in Int /\ order[b].payout \in Int
    BY DEF Order
  <2>2. CASE order' = order /\ spc'[r] = "failed"
    BY <2>2
  <2>3. CASE order' = Stored(batch[r])
    BY <2>3 DEF Stored
  <2> QED
    BY <2>2, <2>3 DEF BatchCreate, SettleTo
<1>3. \A b \in batch[r] : /\ b \in Requests /\ pc[b] = "ok" /\ rid[b] = r
                          /\ order[b].st = "draft" /\ credits[b] = <<>> /\ notices[b] = <<>>
  BY <1>1 DEF SettlementInv, BetsSaved, InHand, BatchProgress, RoundProgress
<1>4. \A x \in Rounds : \A b \in Unsettled(x) : b \in Requests /\ b \notin batch[r]
  BY <1>3 DEF SettlementInv, BetsSaved, SettledOnce, InHand, Unsettled
<1>5. \A x \in Rounds : Unsettled(x)' = Unsettled(x) /\ InHand(x)' = InHand(x)
  BY <1>0, <1>1 DEF Unsettled, InHand
<1>6. BetsSaved'
  <2>1. \A b \in Requests : order'[b].st # "none" => pc'[b] = "ok" /\ rid'[b] \in Rounds
    BY <1>0, <1>2, <1>3 DEF SettlementInv, BetsSaved
  <2> QED
    BY <1>0, <1>5, <2>1 DEF SettlementInv, BetsSaved
<1>7. SettlementTold'
  BY <1>0, <1>1 DEF SettlementInv, SettlementTold, Shown
<1>8. OrdersRight'
  <2>1. ASSUME NEW b \in Requests PROVE OrderRight(b)'
    <3>1. OrderRight(b)
      BY DEF SettlementInv, OrdersRight
    <3>2. CASE b \in batch[r]
      BY <1>0, <1>2, <1>3, <3>1, <3>2 DEF OrderRight, Shown
    <3>3. CASE b \notin batch[r]
      BY <1>0, <1>2, <3>1, <3>3 DEF OrderRight, Shown
    <3> QED
      BY <3>2, <3>3
  <2> QED
    BY <2>1 DEF OrdersRight
<1>9. BatchProgress'
  <2>1. ASSUME NEW x \in Rounds, x # r PROVE RoundProgress(x)'
    <3>1. \A b \in InHand(x) : order'[b] = order[b]
      BY <1>2, <1>3, <2>1 DEF SettlementInv, BetsSaved
    <3> QED
      BY <1>0, <1>1, <1>5, <2>1, <3>1, UntouchedRound DEF SettlementInv, BatchProgress
  <2>2. RoundProgress(r)'
    BY <1>0, <1>1, <1>2, <1>3 DEF RoundProgress
  <2> QED
    BY <2>1, <2>2 DEF BatchProgress
<1>10. SettledOnce'
  <2>1. ASSUME NEW x \in Rounds, NEW b \in Unsettled(x)
        PROVE  order'[b].st = "none" /\ credits'[b] = <<>> /\ notices'[b] = <<>>
    BY <1>0, <1>2, <1>4 DEF SettlementInv, SettledOnce
  <2> QED
    BY <1>0, <1>5, <2>1 DEF SettlementInv, SettledOnce
<1>11. PayoutsBacked' /\ WinnersPaidBeforeNotice'
  BY <1>0, <1>2, <1>3 DEF SettlementInv, PayoutsBacked, WinnersPaidBeforeNotice
<1> QED
  BY <1>0, <1>6, <1>7, <1>8, <1>9, <1>10, <1>11 DEF SettlementInv

\* A payout is deposited for a bet of the batch, for which nothing was paid yet.
LEMMA AddBalanceStep ==
    ASSUME TypeOK, SettlementInv, NEW r \in Rounds, NEW b \in Requests, AddBalance(r, b)
    PROVE  SettlementInv'
<1> USE DEF TypeOK
<1>0. /\ RoundKnown'
      /\ UNCHANGED <<id, phase, results, told, color, pc, rid, torn, stake, queue, popped, order, notices>>
  BY DEF AddBalance, requestVars, clockVars, args, repoVars, SettlementInv, RoundKnown
<1>1. /\ spc[r] = "pay" /\ b \in batch[r]
      /\ \A x \in Rounds : x # r => spc'[x] = spc[x] /\ batch'[x] = batch[x] /\ cur'[x] = cur[x]
      /\ batch'[r] = batch[r] \ {b}
  BY DEF AddBalance, SettleTo
<1>2. \/ /\ spc'[r] = "notify" /\ cur'[r] = b
         /\ order[b].payout > 0 => credits'[b] = Append(credits[b], order[b].payout)
         /\ ~(order[b].payout > 0) => credits'[b] = credits[b]
      \/ /\ spc'[r] = NextPc(r, batch[r] \ {b}) /\ cur'[r] = cur[r]
         /\ credits'[b] = credits[b]
  BY DEF AddBalance, SettleTo, Deposit, Order
<1>3. \A d \in Requests : d # b => credits'[d] = credits[d]
  BY DEF AddBalance, Deposit
<1>4. /\ pc[b] = "ok" /\ rid[b] = r /\ b \notin Unsettled(r)
      /\ order[b].st = "stored" /\ credits[b] = <<>> /\ notices[b] = <<>>
  BY <1>1 DEF SettlementInv, BetsSaved, InHand, BatchProgress, RoundProgress, SettledOnce
<1>5. credits'[b] = <<>> \/ (order[b].payout > 0 /\ credits'[b] = <<order[b].payout>>)
  BY <1>2, <1>4
<1>6. \A x \in Rounds : Unsettled(x)' = Unsettled(x)
  BY <1>0 DEF Unsettled
<1>7. /\ \A x \in Rounds : x # r => InHand(x)' = InHand(x)
      /\ InHand(r)' \subseteq InHand(r)
  <2>1. \A x \in Rounds : x # r => InHand(x)' = InHand(x)
    BY <1>0, <1>1 DEF InHand
  <2>2. spc'[r] = "notify" => cur'[r] = b
    BY <1>2 DEF NextPc
  <2>3. InHand(r)' \subseteq InHand(r)
    BY <1>0, <1>1, <2>2 DEF InHand
  <2> QED
    BY <2>1, <2>3
<1>8. BetsSaved'
  <2>1. \A x \in Rounds : (queue[x] \cup InHand(x))' \subseteq queue[x] \cup InHand(x)
    BY <1>0, <1>7
  <2> QED
    BY <1>0, <2>1 DEF SettlementInv, BetsSaved
<1>9. SettlementTold'
  BY <1>0, <1>1 DEF SettlementInv, SettlementTold, Shown
<1>10. OrdersRight'
  BY <1>0 DEF SettlementInv, OrdersRight, OrderRight, Shown
<1>11. BatchProgress'
  <2>1. ASSUME NEW x \in Rounds, x # r PROVE RoundProgress(x)'
    <3>1. \A d \in InHand(x) : credits'[d] = credits[d]
      BY <1>3, <1>4, <2>1 DEF SettlementInv, BetsSaved
    <3> QED
      BY <1>0, <1>1, <1>6, <2>1, <3>1, UntouchedRound DEF SettlementInv, BatchProgress
  <2>2. RoundProgress(r)'
    <3>1. \A d \in batch'[r] : /\ credits'[d] = <<>> /\ notices'[d] = <<>>
                               /\ order'[d].st = "stored"
      BY <1>0, <1>1, <1>3 DEF SettlementInv, BatchProgress, RoundProgress
    <3>2. spc'[r] \notin {"order", "persist"}
      BY <1>2 DEF NextPc
    <3>3. CASE spc'[r] = "notify"
      <4>1. cur'[r] = b /\ (order[b].payout > 0 => credits'[b] = <<order[b].payout>>)
        BY <1>2, <1>4, <3>3 DEF NextPc
      <4> QED
        BY <1>0, <1>1, <1>4, <1>6, <3>1, <3>2, <4>1 DEF RoundProgress
    <3> QED
      BY <3>1, <3>2, <3>3 DEF RoundProgress
  <2> QED
    BY <2>1, <2>2 DEF BatchProgress
<1>12. SettledOnce'
  <2>1. ASSUME NEW x \in Rounds, NEW d \in Unsettled(x)
        PROVE  d \in Requests /\ credits'[d] = credits[d]
    <3>1. d \in Requests /\ rid[d] = x
      BY DEF SettlementInv, BetsSaved, Unsettled, InHand
    <3> QED
      BY <1>3, <1>4, <3>1
  <2>2. \A x \in Rounds : batch'[x] \subseteq batch[x]
    BY <1>1
  <2> QED
    BY <1>0, <1>6, <2>1, <2>2 DEF SettlementInv, SettledOnce
<1>13. PayoutsBacked' /\ WinnersPaidBeforeNotice'
  BY <1>0, <1>3, <1>4, <1>5 DEF SettlementInv, PayoutsBacked, WinnersPaidBeforeNotice
<1> QED
  BY <1>0, <1>8, <1>9, <1>10, <1>11, <1>12, <1>13 DEF SettlementInv

\* The player is told of the bet that has just been processed, for the first time.
LEMMA SendToUserStep ==
    ASSUME TypeOK, SettlementInv, NEW r \in Rounds, SendToUser(r)
    PROVE  SettlementInv'
<1> USE DEF TypeOK
<1> DEFINE c == cur[r]
<1>0. /\ RoundKnown'
      /\ UNCHANGED <<id, phase, results, told, color, pc, rid, torn, stake, queue, popped, batch, order, credits>>
  BY DEF SendToUser, requestVars, clockVars, args, repoVars, SettlementInv, RoundKnown
<1>1. /\ spc[r] = "notify" /\ spc'[r] \in {"pay", "batch", "pop"}
      /\ \A x \in Rounds : x # r => spc'[x] = spc[x] /\ cur'[x] = cur[x]
  BY DEF SendToUser, SettleTo, NextPc
<1>2. /\ c \in Requests /\ pc[c] = "ok" /\ rid[c] = r /\ c \notin batch[r] \cup Unsettled(r)
      /\ order[c].st = "stored" /\ notices[c] = <<>>
      /\ order[c].payout > 0 => credits[c] = <<order[c].payout>>
  BY <1>1 DEF SettlementInv, BetsSaved, InHand, BatchProgress, RoundProgress
<1>3. /\ notices'[c] = <<order[c].payout>>
      /\ \A d \in Requests : d # c => notices'[d] = notices[d]
  <2>1. notices' = [notices EXCEPT ![c] = Append(@, order[c].payout)]
    BY DEF SendToUser
  <2> QED
    BY <1>2, <2>1
<1>4. \A x \in Rounds : Unsettled(x)' = Unsettled(x)
  BY <1>0 DEF Unsettled
<1>5. /\ \A x \in Rounds : x # r => InHand(x)' = InHand(x)
      /\ InHand(r)' \subseteq InHand(r)
  BY <1>0, <1>1 DEF InHand
<1>6. BetsSaved'
  <2>1. \A x \in Rounds : (queue[x] \cup InHand(x))' \subseteq queue[x] \cup InHand(x)
    BY <1>0, <1>5
  <2> QED
    BY <1>0, <2>1 DEF SettlementInv, BetsSaved
<1>7. SettlementTold'
  BY <1>0, <1>1 DEF SettlementInv, SettlementTold, Shown
<1>8. OrdersRight'
  BY <1>0 DEF SettlementInv, OrdersRight, OrderRight, Shown
<1>9. BatchProgress'
  <2>1. ASSUME NEW x \in Rounds, x # r PROVE RoundProgress(x)'
    <3>1. \A d \in InHand(x) : d \in Requests /\ rid[d] = x
      BY DEF SettlementInv, BetsSaved
    <3>2. \A d \in InHand(x) : notices'[d] = notices[d]
      BY <1>2, <1>3, <2>1, <3>1
    <3> QED
      BY <1>0, <1>1, <1>4, <2>1, <3>2, UntouchedRound DEF SettlementInv, BatchProgress
  <2>2. RoundProgress(r)'
    <3>1. \A d \in batch[r] : d \in Requests /\ d # c
      BY <1>2
    <3> QED
      BY <1>0, <1>1, <1>3, <3>1 DEF SettlementInv, BatchProgress, RoundProgress
  <2> QED
    BY <2>1, <2>2 DEF BatchProgress
<1>10. SettledOnce'
  <2>1. ASSUME NEW x \in Rounds, NEW d \in Unsettled(x) PROVE notices'[d] = notices[d]
    <3>1. d \in Requests /\ rid[d] = x
      BY DEF SettlementInv, BetsSaved, Unsettled, InHand
    <3> QED
      BY <1>2, <1>3, <3>1
  <2> QED
    BY <1>0, <1>4, <2>1 DEF SettlementInv, SettledOnce
<1>11. PayoutsBacked' /\ WinnersPaidBeforeNotice'
  BY <1>0, <1>2, <1>3 DEF SettlementInv, PayoutsBacked, WinnersPaidBeforeNotice
<1> HIDE DEF c
<1> QED
  BY <1>0, <1>6, <1>7, <1>8, <1>9, <1>10, <1>11 DEF SettlementInv

\* ClearBets forgets queued bets; it makes and pays nothing.
LEMMA ClearBetsStep ==
    ASSUME TypeOK, SettlementInv, NEW r \in Rounds, ClearBets(r)
    PROVE  SettlementInv'
<1> USE DEF TypeOK
<1>0. /\ RoundKnown'
      /\ UNCHANGED <<id, phase, results, told, color, pc, rid, torn, stake, popped, batch, cur, order,
                     credits, notices>>
  BY DEF ClearBets, requestVars, clockVars, args, SettlementInv, RoundKnown
<1>1. /\ spc[r] = "clear" /\ spc'[r] = "done"
      /\ \A x \in Rounds : x # r => spc'[x] = spc[x]
      /\ \A x \in Rounds : queue'[x] \subseteq queue[x]
  BY DEF ClearBets, SettleTo
<1>2. \A x \in Rounds : Unsettled(x)' \subseteq Unsettled(x) /\ InHand(x)' = InHand(x)
  BY <1>0, <1>1 DEF Unsettled, InHand
<1>3. BetsSaved'
  BY <1>0, <1>1, <1>2 DEF SettlementInv, BetsSaved
<1>4. SettlementTold' /\ OrdersRight'
  BY <1>0, <1>1 DEF SettlementInv, SettlementTold, OrdersRight, OrderRight, Shown
<1>5. BatchProgress'
  BY <1>0, <1>1, <1>2 DEF SettlementInv, BatchProgress, RoundProgress
<1>6. SettledOnce'
  BY <1>0, <1>1, <1>2 DEF SettlementInv, SettledOnce
<1>7. PayoutsBacked' /\ WinnersPaidBeforeNotice'
  BY <1>0 DEF SettlementInv, PayoutsBacked, WinnersPaidBeforeNotice
<1> QED
  BY <1>0, <1>3, <1>4, <1>5, <1>6, <1>7 DEF SettlementInv

\* SettlementInv is inductive.
LEMMA SettlementInvStep ==
    ASSUME TypeOK, TypeOK', SettlementInv, [Next]_vars
    PROVE  SettlementInv'
<1>1. ASSUME NEW q \in Requests, PlaceBet(q) PROVE SettlementInv'
  <2>1. UNCHANGED settleVars
    BY <1>1 DEF PlaceBet, AskRound, Debit, RecordBet, GetUserBet, UpdateBetAmount, SaveBet
  <2>2. CASE SaveBet(q)
    <3>1. pc[q] # "ok" /\ pc'[q] = "ok" /\ rid'[q] = rid[q]
      BY <2>2 DEF SaveBet, To, TypeOK
    <3>2. \A r \in Rounds : \A b \in queue'[r] : b \in queue[r] \/ (b = q /\ r = rid[q])
      BY <2>2 DEF SaveBet, TypeOK
    <3> QED
      BY <2>1, <3>1, <3>2, RequestStep
  <2>3. CASE queue' = queue
    BY <2>1, <2>3, RequestStep
  <2> QED
    BY <1>1, <2>2, <2>3 DEF PlaceBet, AskRound, Debit, RecordBet, GetUserBet, UpdateBetAmount,
                            repoVars
<1>2. CASE Tick \/ UNCHANGED vars
  <2>1. UNCHANGED settleVars /\ queue' = queue
    BY <1>2 DEF Tick, vars, repoVars
  <2> QED
    BY <2>1, RequestStep
<1>3. ASSUME NEW r \in Rounds, RoundResult(r) PROVE SettlementInv'
  BY <1>3, RoundResultStep
<1>4. ASSUME NEW r \in Rounds, SettleRound(r) PROVE SettlementInv'
  BY <1>4, PopStep, FillBatchStep, MakeOrdersStep, BatchCreateStep, AddBalanceStep, SendToUserStep,
     ClearBetsStep DEF SettleRound
<1> QED
  BY <1>1, <1>2, <1>3, <1>4 DEF Next

\* No settlement has started and no bet exists.
LEMMA SettlementInvInit == Init => SettlementInv
<1> SUFFICES ASSUME Init PROVE SettlementInv
  OBVIOUS
<1>1. RoundKnown /\ BetsSaved
  BY DEF Init, RoundKnown, BetsSaved, InHand, NoOrder
<1>2. SettlementTold /\ OrdersRight
  BY DEF Init, SettlementTold, OrdersRight, OrderRight, NoOrder
<1>3. BatchProgress /\ SettledOnce
  BY DEF Init, BatchProgress, RoundProgress, SettledOnce, Unsettled
<1>4. PayoutsBacked /\ WinnersPaidBeforeNotice
  BY DEF Init, PayoutsBacked, WinnersPaidBeforeNotice
<1> QED
  BY <1>1, <1>2, <1>3, <1>4 DEF SettlementInv

\* Where every bet is in its settlement is always known: the inductive invariant.
THEOREM SettlementInvariant == Spec => [](TypeOK /\ SettlementInv)
<1>1. Init => TypeOK /\ SettlementInv
  BY TypeInit, SettlementInvInit
<1>2. TypeOK /\ SettlementInv /\ [Next]_vars => (TypeOK /\ SettlementInv)'
  <2>1. SettlementInv => RoundKnown
    BY DEF SettlementInv
  <2> QED
    BY <2>1, TypeStep, SettlementInvStep
<1> QED
  BY <1>1, <1>2, PTL DEF Spec

\* No bet is settled twice, whatever SaveBet, UpdateBetAmount, the pops and
\* ClearBets do in between and however many rounds are settled at once.
THEOREM NeverSettledTwice == Spec => []SettledOnce
<1>1. SettlementInv => SettledOnce
  BY DEF SettlementInv
<1> QED
  BY <1>1, SettlementInvariant, PTL

\* Money is paid at most once per bet, for a stored order and in its amount.
THEOREM PayoutsAlwaysBacked == Spec => []PayoutsBacked
<1>1. SettlementInv => PayoutsBacked
  BY DEF SettlementInv
<1> QED
  BY <1>1, SettlementInvariant, PTL

\* No player is told of a win that has not been deposited.
THEOREM NoticesFollowPayment == Spec => []WinnersPaidBeforeNotice
<1>1. SettlementInv => WinnersPaidBeforeNotice
  BY DEF SettlementInv
<1> QED
  BY <1>1, SettlementInvariant, PTL

\* Stored orders follow the result the round has shown.
THEOREM OrdersFollowResult == Spec => []OrdersMatchResult
<1>1. SettlementInv => OrdersMatchResult
  BY DEF SettlementInv, OrdersRight, OrderRight, OrdersMatchResult
<1> QED
  BY <1>1, SettlementInvariant, PTL

----------------------------------------------------------------------------
\* Money: the balances of the wallet.

\* The sum of a sequence with at most one entry.
LEMMA SumOfOne ==
    ASSUME NEW p \in Int, NEW c, c = <<>> \/ c = <<p>>
    PROVE  SumFunction(c) = IF c = <<>> THEN 0 ELSE p
<1>1. CASE c = <<>>
  <2>1. DOMAIN c = {}
    BY <1>1
  <2> QED
    BY <1>1, <2>1, SumEmpty DEF SumFunction
<1>2. CASE c = <<p>>
  <2>1. DOMAIN c = {1} /\ c[1] = p /\ {1} \ {1} = {} /\ c # <<>>
    BY <1>2
  <2>2. SumFunctionOnSet(c, {1}) = c[1] + SumFunctionOnSet(c, {1} \ {1})
    BY <2>1, FS_Singleton, SumRemove
  <2>4. SumFunctionOnSet(c, {1} \ {1}) = 0
    BY <2>1, SumEmpty
  <2>3. SumFunctionOnSet(c, {1}) = p
    BY <2>1, <2>2, <2>4
  <2> QED
    BY <2>1, <2>3 DEF SumFunction
<1> QED
  BY <1>1, <1>2

\* What has been deposited for a bet, given that it is deposited at most once.
LEMMA PaidIs ==
    ASSUME TypeOK, PayoutsBacked, NEW b \in Requests
    PROVE  Paid[b] = (IF credits[b] = <<>> THEN 0 ELSE order[b].payout) /\ Paid[b] \in Int
<1>1. order[b].payout \in Int
  BY DEF TypeOK, Order
<1>2. credits[b] = <<>> \/ credits[b] = <<order[b].payout>>
  BY DEF PayoutsBacked
<1>3. SumFunction(credits[b]) = IF credits[b] = <<>> THEN 0 ELSE order[b].payout
  BY <1>1, <1>2, SumOfOne
<1>4. Paid[b] = SumFunction(credits[b])
  BY DEF Paid
<1> QED
  BY <1>1, <1>3, <1>4

\* Sets of requests are finite, and stakes and deposits are integers.
LEMMA SetsOfRequests ==
    ASSUME TypeOK, NEW S \in SUBSET Requests
    PROVE  /\ IsFiniteSet(S)
           /\ \A q \in S : amount[q] \in Int
           /\ PayoutsBacked => \A q \in S : Paid[q] \in Int
<1>1. IsFiniteSet(S)
  BY BSRequests, FS_Subset
<1>2. \A q \in S : amount[q] \in Int
  BY BSAmounts DEF TypeOK
<1> QED
  BY <1>1, <1>2, PaidIs

\* A deduction.
LEMMA DebitStep ==
    ASSUME TypeOK, SettlementInv, BalanceInv, NEW q \in Requests, Debit(q)
    PROVE  BalanceInv'
<1> USE DEF TypeOK
<1>1. UNCHANGED <<user, amount, credits>>
  BY DEF Debit, args, settleVars
<1>2. Paid' = Paid /\ \A u : CallsOf(u)' = CallsOf(u)
  BY <1>1 DEF Paid, CallsOf
<1>3. CASE To(q, "failed") /\ UNCHANGED wallet
  <2>1. Debited' = Debited
    BY <1>3 DEF Debited, To, Debit
  <2> QED
    BY <1>1, <1>2, <1>3, <2>1 DEF BalanceInv, Balance
<1>4. CASE /\ To(q, "debited")
           /\ wallet' = [wallet EXCEPT ![user[q]] =
                           (IF @ = NoEntry THEN DefaultBalance ELSE @) - amount[q]]
  <2>1. q \notin Debited /\ Debited' = Debited \cup {q}
    BY <1>4 DEF Debited, To, Debit
  <2>2. ASSUME NEW u \in Users, u # user[q] PROVE wallet'[u] = Balance(u)'
    <3>1. CallsOf(u) \cap Debited' = CallsOf(u) \cap Debited
      BY <2>1, <2>2 DEF CallsOf
    <3> QED
      BY <1>1, <1>2, <1>4, <2>2, <3>1 DEF BalanceInv, Balance
  <2>0. PICK u \in Users : u = user[q]
    OBVIOUS
  <2> DEFINE D == CallsOf(u) \cap Debited
  <2>3. q \notin D /\ (CallsOf(u) \cap Debited)' = D \cup {q}
    <3>1. q \in CallsOf(u)
      BY <2>0 DEF CallsOf
    <3> QED
      BY <1>2, <2>1, <3>1
  <2>4. /\ D \in SUBSET Requests /\ IsFiniteSet(D) /\ \A x \in D : amount[x] \in Int
        /\ amount[q] \in Int /\ DefaultBalance \in Int
    BY SetsOfRequests, BSAmounts DEF CallsOf
  <2>5. SumFunctionOnSet(amount, D \cup {q}) = amount[q] + SumFunctionOnSet(amount, D)
    <3> HIDE DEF D
    <3> QED
      BY <2>3, <2>4, SumInsert
  <2>6. SumFunctionOnSet(amount, D) \in Int /\ SumFunctionOnSet(Paid, CallsOf(u)) \in Int
    <3>1. CallsOf(u) \in SUBSET Requests
      BY DEF CallsOf
    <3> HIDE DEF D
    <3> QED
      BY <2>4, <3>1, SetsOfRequests, SumInt DEF SettlementInv
  <2>7. Balance(u)' = DefaultBalance - (amount[q] + SumFunctionOnSet(amount, D))
                                     + SumFunctionOnSet(Paid, CallsOf(u))
    BY <1>1, <1>2, <2>3, <2>5 DEF Balance
  <2>8. wallet[u] = Balance(u)
    BY <2>3 DEF BalanceInv
  <2>9. wallet'[u] = (IF wallet[u] = NoEntry THEN DefaultBalance ELSE wallet[u]) - amount[q]
    BY <1>4, <2>0
  <2>10. ASSUME D = {} PROVE wallet'[u] = Balance(u)'
    <3>1. \A b \in CallsOf(u) : Paid[b] = 0
      <4>1. ASSUME NEW b \in CallsOf(u) PROVE b \in Requests /\ pc[b] # "ok"
        BY <2>10 DEF CallsOf, Debited
      <4>2. ASSUME NEW b \in CallsOf(u) PROVE b \in Requests /\ credits[b] = <<>>
        BY <4>1 DEF SettlementInv, BetsSaved, PayoutsBacked
      <4> QED
        BY <4>2, PaidIs DEF SettlementInv
    <3>2. SumFunctionOnSet(Paid, CallsOf(u)) = 0
      <4>1. IsFiniteSet(CallsOf(u))
        BY SetsOfRequests DEF CallsOf
      <4> QED
        BY <3>1, <4>1, SumZero
    <3>3. wallet[u] = NoEntry
      BY <2>8, <2>10 DEF Balance
    <3>4. SumFunctionOnSet(amount, D) = 0
      BY <2>10, SumEmpty
    <3> HIDE DEF D
    <3> QED
      BY <2>4, <2>7, <2>9, <3>2, <3>3, <3>4
  <2>11. ASSUME D # {} PROVE wallet'[u] = Balance(u)'
    <3>1. wallet[u] = DefaultBalance - SumFunctionOnSet(amount, D) + SumFunctionOnSet(Paid, CallsOf(u))
      BY <2>8, <2>11 DEF Balance
    <3> HIDE DEF D
    <3>2. wallet[u] \in Int /\ wallet[u] # NoEntry
      BY <2>4, <2>6, <3>1, BSNames
    <3> QED
      BY <2>4, <2>6, <2>7, <2>9, <3>1, <3>2
  <2>12. wallet'[u] = Balance(u)'
    BY <2>10, <2>11
  <2> QED
    BY <2>0, <2>2, <2>12 DEF BalanceInv
<1> QED
  BY <1>3, <1>4 DEF Debit

\* A deposit, or a payout that is not deposited.
LEMMA DepositStep ==
    ASSUME TypeOK, TypeOK', SettlementInv, SettlementInv', BalanceInv,
           NEW r \in Rounds, NEW b \in Requests, AddBalance(r, b)
    PROVE  BalanceInv'
<1> USE DEF TypeOK
<1>1. UNCHANGED <<user, amount, pc, order>> /\ b \in batch[r] /\ spc[r] = "pay"
  BY DEF AddBalance, args, requestVars
<1>2. Debited' = Debited /\ \A u : CallsOf(u)' = CallsOf(u)
  BY <1>1 DEF Debited, CallsOf
<1>3. CASE UNCHANGED <<wallet, credits>>
  <2>1. Paid' = Paid
    BY <1>3 DEF Paid
  <2> QED
    BY <1>1, <1>2, <1>3, <2>1 DEF BalanceInv, Balance
<1>4. CASE Deposit(b)
  <2>1. b \in Debited /\ credits[b] = <<>> /\ order[b].payout \in Int
    BY <1>1 DEF SettlementInv, BetsSaved, InHand, BatchProgress, RoundProgress, Debited, Order
  <2>2. /\ Paid[b] = 0 /\ Paid'[b] = order[b].payout
        /\ \A d \in Requests : d # b => Paid'[d] = Paid[d]
    <3>1. credits'[b] # <<>> /\ \A d \in Requests : d # b => credits'[d] = credits[d]
      BY <1>4 DEF Deposit
    <3>2. Paid[b] = 0
      BY <2>1, PaidIs DEF SettlementInv
    <3>3. Paid'[b] = order[b].payout
      <4>1. credits'[b] = <<order[b].payout>>
        BY <1>1, <3>1 DEF SettlementInv, PayoutsBacked
      <4> QED
        BY <2>1, <3>1, <4>1, SumOfOne DEF Paid
    <3> QED
      BY <1>1, <3>1, <3>2, <3>3 DEF Paid
  <2>3. ASSUME NEW u \in Users, u # user[b] PROVE wallet'[u] = Balance(u)'
    <3>1. SumFunctionOnSet(Paid', CallsOf(u)) = SumFunctionOnSet(Paid, CallsOf(u))
      <4>1. CallsOf(u) \in SUBSET Requests /\ \A d \in CallsOf(u) : Paid'[d] = Paid[d]
        BY <2>2, <2>3 DEF CallsOf
      <4>2. IsFiniteSet(CallsOf(u))
        BY <4>1, SetsOfRequests
      <4> QED
        BY <4>1, <4>2, SumSame
    <3>2. wallet'[u] = wallet[u]
      BY <1>4, <2>3 DEF Deposit
    <3> QED
      BY <1>1, <1>2, <3>1, <3>2 DEF BalanceInv, Balance
  <2>4. PICK u \in Users : u = user[b]
    OBVIOUS
  <2> DEFINE M == CallsOf(u)
             D == M \cap Debited
             rest == SumFunctionOnSet(Paid, M \ {b})
  <2>5. b \in M /\ M \in SUBSET Requests /\ D # {}
    BY <2>1, <2>4 DEF CallsOf
  <2> HIDE DEF M
  <2>6. /\ IsFiniteSet(M) /\ IsFiniteSet(M \ {b}) /\ IsFiniteSet(D)
        /\ \A d \in M : Paid[d] \in Int /\ Paid'[d] \in Int
        /\ \A d \in D : amount[d] \in Int
    <3>1. M \ {b} \in SUBSET Requests /\ D \in SUBSET Requests
      BY <2>5
    <3>2. \A d \in M : Paid'[d] \in Int
      BY <2>1, <2>2, <2>5, PaidIs DEF SettlementInv
    <3> QED
      BY <2>5, <3>1, <3>2, SetsOfRequests DEF SettlementInv
  <2>7. SumFunctionOnSet(Paid, M) = 0 + rest
    BY <2>2, <2>5, <2>6, SumRemove
  <2>8. SumFunctionOnSet(Paid', M) = order[b].payout + rest
    <3>1. SumFunctionOnSet(Paid', M) = Paid'[b] + SumFunctionOnSet(Paid', M \ {b})
      BY <2>5, <2>6, SumRemove
    <3>2. SumFunctionOnSet(Paid', M \ {b}) = rest
      <4>1. \A d \in M \ {b} : Paid'[d] = Paid[d]
        BY <2>2, <2>5
      <4> QED
        BY <2>6, <4>1, SumSame
    <3> QED
      BY <2>2, <3>1, <3>2
  <2>9. rest \in Int /\ SumFunctionOnSet(amount, D) \in Int /\ DefaultBalance \in Int
    BY <2>6, SumInt, BSAmounts
  <2>10. wallet[u] = DefaultBalance - SumFunctionOnSet(amount, D) + (0 + rest)
    BY <2>5, <2>7 DEF BalanceInv, Balance, M
  <2>11. Balance(u)' = DefaultBalance - SumFunctionOnSet(amount, D) + (order[b].payout + rest)
    <3>1. (CallsOf(u) \cap Debited)' = D /\ CallsOf(u)' = M
      BY <1>2 DEF M
    <3> QED
      BY <1>1, <2>5, <2>8, <3>1 DEF Balance
  <2>12. wallet'[u] = (IF wallet[u] = NoEntry THEN 0 ELSE wallet[u]) + order[b].payout
    BY <1>4, <2>4 DEF Deposit
  <2>13. wallet'[u] = Balance(u)'
    <3> HIDE DEF D, rest
    <3>1. wallet[u] \in Int /\ wallet[u] # NoEntry
      BY <2>9, <2>10, BSNames
    <3> QED
      BY <2>1, <2>9, <2>10, <2>11, <2>12, <3>1
  <2> QED
    BY <2>3, <2>4, <2>13 DEF BalanceInv
<1> QED
  BY <1>3, <1>4 DEF AddBalance

\* No other step moves money.
LEMMA MoneyStep ==
    ASSUME TypeOK, TypeOK', SettlementInv, SettlementInv', BalanceInv, [Next]_vars
    PROVE  BalanceInv'
<1>0. ASSUME UNCHANGED <<user, amount, credits, wallet>>, Debited' = Debited PROVE BalanceInv'
  BY <1>0 DEF BalanceInv, Balance, Paid, CallsOf
<1>1. ASSUME NEW q \in Requests, PlaceBet(q) PROVE BalanceInv'
  <2>1. CASE Debit(q)
    BY <2>1, DebitStep
  <2>2. CASE AskRound(q)
    <3>1. UNCHANGED <<user, amount, credits, wallet>> /\ Debited' = Debited
      BY <2>2 DEF AskRound, To, Debited, TypeOK, args, settleVars
    <3> QED
      BY <1>0, <3>1
  <2>3. CASE RecordBet(q)
    <3>1. UNCHANGED <<user, amount, credits, wallet>> /\ Debited' = Debited
      BY <2>3 DEF RecordBet, To, Debited, TypeOK, args, settleVars
    <3> QED
      BY <1>0, <3>1
  <2>4. CASE GetUserBet(q)
    <3>1. UNCHANGED <<user, amount, credits, wallet>> /\ Debited' = Debited
      BY <2>4 DEF GetUserBet, To, Debited, TypeOK, args, settleVars
    <3> QED
      BY <1>0, <3>1
  <2>5. CASE UpdateBetAmount(q)
    <3>1. UNCHANGED <<user, amount, credits, wallet>> /\ Debited' = Debited
      BY <2>5 DEF UpdateBetAmount, To, Debited, TypeOK, args, settleVars
    <3> QED
      BY <1>0, <3>1
  <2>6. CASE SaveBet(q)
    <3>1. UNCHANGED <<user, amount, credits, wallet>> /\ Debited' = Debited
      BY <2>6 DEF SaveBet, To, Debited, TypeOK, args, settleVars
    <3> QED
      BY <1>0, <3>1
  <2> QED
    BY <1>1, <2>1, <2>2, <2>3, <2>4, <2>5, <2>6 DEF PlaceBet
<1>2. ASSUME NEW r \in Rounds, SettleRound(r) PROVE BalanceInv'
  <2>1. ASSUME NEW b \in Requests, AddBalance(r, b) PROVE BalanceInv'
    BY <2>1, DepositStep
  <2>2. CASE \/ GetBetsForSettlement(r) \/ FillBatch(r) \/ MakeOrders(r) \/ BatchCreate(r)
             \/ SendToUser(r) \/ ClearBets(r)
    <3>1. UNCHANGED <<user, amount, credits, wallet>> /\ Debited' = Debited
      BY <2>2 DEF GetBetsForSettlement, FillBatch, MakeOrders, BatchCreate, SendToUser, ClearBets,
                  requestVars, args, Debited
    <3> QED
      BY <1>0, <3>1
  <2> QED
    BY <1>2, <2>1, <2>2 DEF SettleRound
<1>3. ASSUME NEW r \in Rounds, RoundResult(r) PROVE BalanceInv'
  BY <1>0, <1>3 DEF RoundResult, requestVars, args, Debited
<1>4. CASE Tick \/ UNCHANGED vars
  BY <1>0, <1>4 DEF Tick, vars, requestVars, args, settleVars, Debited
<1> QED
  BY <1>1, <1>2, <1>3, <1>4 DEF Next

\* No concurrent deduction or deposit is lost: every balance is what the deductions
\* and the deposits of its player add up to.
THEOREM BalancesAddUp == Spec => []BalanceInv
<1>1. Init => BalanceInv
  BY DEF Init, BalanceInv, Balance, Debited, CallsOf
<1>2. TypeOK /\ SettlementInv /\ (TypeOK /\ SettlementInv)' /\ BalanceInv /\ [Next]_vars
      => BalanceInv'
  BY MoneyStep
<1> QED
  BY <1>1, <1>2, SettlementInvariant, PTL DEF Spec

----------------------------------------------------------------------------
\* Stakes: the orders of a settled round.

\* A call that is not at the repository moves no stake.
LEMMA LedgerQuiet ==
    ASSUME TypeOK, SettlementInv, LedgerInv, NEW q \in Requests,
           AskRound(q) \/ Debit(q) \/ RecordBet(q)
    PROVE  LedgerInv'
<1> USE DEF TypeOK
<1>1. /\ UNCHANGED <<user, color, amount, found, late, stake, bets, queue, spc, popped, batch, order>>
      /\ pc[q] \notin {"looked", "ok"} /\ pc'[q] \notin {"looked", "ok"}
      /\ \A x \in Requests : x # q => pc'[x] = pc[x] /\ rid'[x] = rid[x]
  BY DEF AskRound, Debit, RecordBet, To, args, repoVars, settleVars
<1>2. /\ \A b \in Requests : IsSaved(b)' = IsSaved(b) /\ Kept(b)' = Kept(b)
      /\ \A b \in Requests : IsSaved(b) => b # q
  BY <1>1 DEF IsSaved, Kept, BetOf
<1>3. BetsKnown'
  <2>1. ASSUME NEW x \in Requests, NEW b \in Requests, found'[x] = b
        PROVE  /\ pc'[x] \in {"looked", "ok"} /\ IsSaved(b)' /\ rid'[b] = rid'[x]
               /\ SameArea(x, b)'
    <3>1. /\ pc[x] \in {"looked", "ok"} /\ IsSaved(b) /\ rid[b] = rid[x]
          /\ SameArea(x, b)
      BY <1>1, <2>1 DEF LedgerInv, BetsKnown
    <3>2. x # q /\ b # q
      BY <1>1, <1>2, <3>1
    <3> QED
      BY <1>1, <1>2, <3>1, <3>2 DEF SameArea
  <2>2. ASSUME NEW r \in Rounds, NEW b \in bets'[r]
        PROVE  b \in Requests /\ IsSaved(b)' /\ rid'[b] = r
    <3>1. b \in Requests /\ IsSaved(b) /\ rid[b] = r
      BY <1>1 DEF LedgerInv, BetsKnown
    <3> QED
      BY <1>1, <1>2, <3>1
  <2> QED
    BY <1>1, <2>1, <2>2 DEF LedgerInv, BetsKnown
<1>4. LateStaysOut'
  <2>1. ASSUME NEW b \in late
        PROVE  /\ pc'[b] = "ok"
               /\ IsSaved(b)' => /\ spc'[rid'[b]] \in {"clear", "done", "failed"}
                                 /\ order'[b].st = "none" /\ Kept(b)' = {}
    <3>1. b \in Requests /\ pc[b] = "ok" /\ b # q
      BY <1>1 DEF LedgerInv, LateStaysOut
    <3>2. rid'[b] = rid[b] /\ pc'[b] = pc[b] /\ IsSaved(b)' = IsSaved(b) /\ Kept(b)' = Kept(b)
      BY <1>1, <1>2, <3>1
    <3> QED
      BY <1>1, <3>1, <3>2 DEF LedgerInv, LateStaysOut
  <2> QED
    BY <1>1, <2>1 DEF LateStaysOut
<1>5. StakesKept'
  BY <1>1, <1>2 DEF StakesKept, Carried, LedgerInv
<1>6. NoneForgotten'
  BY <1>1, <1>2 DEF NoneForgotten, LedgerInv, Unsettled
<1>7. EmptyHands'
  BY <1>1 DEF EmptyHands, LedgerInv
<1> QED
  BY <1>3, <1>4, <1>5, <1>6, <1>7 DEF LedgerInv

\* GetUserBet finds a saved bet of the call's area, or none.
LEMMA LedgerFind ==
    ASSUME TypeOK, SettlementInv, LedgerInv, NEW q \in Requests, GetUserBet(q)
    PROVE  LedgerInv'
<1> USE DEF TypeOK
<1>1. /\ UNCHANGED <<user, color, amount, rid, late, stake, bets, queue, spc, popped, batch, order>>
      /\ pc[q] = "recorded" /\ pc'[q] = "looked"
      /\ \A x \in Requests : x # q => pc'[x] = pc[x] /\ found'[x] = found[x]
  BY DEF GetUserBet, To, args, repoVars, settleVars
<1>2. /\ \A b \in Requests : IsSaved(b)' = IsSaved(b) /\ Kept(b)' = Kept(b)
      /\ \A b \in Requests : pc[b] = "ok" => b # q
  BY <1>1 DEF IsSaved, Kept, BetOf
<1>3. BetsKnown'
  <2>1. ASSUME found'[q] # NoBet PROVE found'[q] \in bets[rid[q]] /\ SameArea(q, found'[q])
    BY <2>1 DEF GetUserBet
  <2>2. rid[q] \in Rounds
    BY <1>1 DEF SettlementInv, RoundKnown
  <2>3. ASSUME found'[q] # NoBet
        PROVE  found'[q] \in Requests /\ IsSaved(found'[q]) /\ rid[found'[q]] = rid[q]
    BY <2>1, <2>2, <2>3 DEF LedgerInv, BetsKnown
  <2>4. ASSUME NEW x \in Requests, NEW b \in Requests, found'[x] = b
        PROVE  /\ pc'[x] \in {"looked", "ok"} /\ IsSaved(b)' /\ rid'[b] = rid'[x]
               /\ SameArea(x, b)'
    <3>1. CASE x = q
      BY <1>1, <1>2, <2>1, <2>3, <2>4, <3>1, BSNames DEF SameArea
    <3>2. CASE x # q
      BY <1>1, <1>2, <2>4, <3>2 DEF SameArea, LedgerInv, BetsKnown
    <3> QED
      BY <3>1, <3>2
  <2>5. \A r \in Rounds : \A b \in bets'[r] : b \in Requests /\ IsSaved(b)' /\ rid'[b] = r
    BY <1>1, <1>2 DEF LedgerInv, BetsKnown
  <2>6. \A r \in Rounds : \A b \in queue'[r] \cup popped'[r] \cup batch'[r] : found'[b] = NoBet
    BY <1>1, <1>2 DEF LedgerInv, BetsKnown, SettlementInv, BetsSaved, InHand
  <2>7. \A b \in Requests : order'[b].st # "none" => found'[b] = NoBet
    BY <1>1, <1>2 DEF LedgerInv, BetsKnown, SettlementInv, BetsSaved
  <2> QED
    BY <2>4, <2>5, <2>6, <2>7 DEF BetsKnown
<1>4. LateStaysOut'
  BY <1>1, <1>2 DEF LateStaysOut, LedgerInv
<1>5. StakesKept'
  BY <1>1, <1>2 DEF StakesKept, Carried, LedgerInv
<1>6. NoneForgotten'
  BY <1>1, <1>2 DEF NoneForgotten, LedgerInv, Unsettled
<1>7. EmptyHands'
  BY <1>1 DEF EmptyHands, LedgerInv
<1> QED
  BY <1>3, <1>4, <1>5, <1>6, <1>7 DEF LedgerInv

\* UpdateBetAmount adds the stake to the bet, in time for its order or late.
LEMMA LedgerUpdate ==
    ASSUME TypeOK, SettlementInv, LedgerInv, NEW q \in Requests, UpdateBetAmount(q)
    PROVE  LedgerInv'
<1> USE DEF TypeOK
<1>0. PICK f \in Requests : f = found[q]
  BY DEF UpdateBetAmount
<1>1. /\ UNCHANGED <<user, color, amount, rid, found, bets, queue, spc, popped, batch, order>>
      /\ pc[q] = "looked" /\ pc'[q] = "ok" /\ found[q] # NoBet
      /\ \A x \in Requests : x # q => pc'[x] = pc[x]
      /\ stake'[f] = stake[f] + amount[q] /\ \A x \in Requests : x # f => stake'[x] = stake[x]
      /\ late' = IF TooLateFor(f) THEN late \cup {q} ELSE late
  BY <1>0 DEF UpdateBetAmount, To, args, settleVars
<1>2. IsSaved(f) /\ f # q /\ q \notin late
  BY <1>0, <1>1 DEF LedgerInv, BetsKnown, LateStaysOut, IsSaved
<1>3. \A b \in Requests : IsSaved(b)' = IsSaved(b)
  BY <1>1 DEF IsSaved
<1>4. \A b \in Requests : b # f => Kept(b)' = Kept(b)
  BY <1>0, <1>1, <1>2 DEF Kept, BetOf
<1>5. Kept(f)' = IF TooLateFor(f) THEN Kept(f) ELSE Kept(f) \cup {q}
  BY <1>0, <1>1, <1>2 DEF Kept, BetOf
<1>6. BetsKnown'
  <2>1. ASSUME NEW x \in Requests, NEW b \in Requests, found'[x] = b
        PROVE  /\ pc'[x] \in {"looked", "ok"} /\ IsSaved(b)' /\ rid'[b] = rid'[x]
               /\ SameArea(x, b)'
    <3>1. /\ pc[x] \in {"looked", "ok"} /\ IsSaved(b) /\ rid[b] = rid[x] /\ SameArea(x, b)
      BY <1>1, <2>1 DEF LedgerInv, BetsKnown
    <3> QED
      BY <1>1, <1>3, <3>1 DEF SameArea
  <2>2. \A r \in Rounds : \A b \in bets'[r] : b \in Requests /\ IsSaved(b)' /\ rid'[b] = r
    BY <1>1, <1>3 DEF LedgerInv, BetsKnown
  <2>3. /\ \A r \in Rounds : \A b \in queue'[r] \cup popped'[r] \cup batch'[r] : found'[b] = NoBet
        /\ \A b \in Requests : order'[b].st # "none" => found'[b] = NoBet
    BY <1>1 DEF LedgerInv, BetsKnown
  <2> QED
    BY <2>1, <2>2, <2>3 DEF BetsKnown
<1>7. LateStaysOut'
  <2>1. ASSUME NEW b \in late
        PROVE  /\ pc'[b] = "ok"
               /\ IsSaved(b)' => /\ spc'[rid'[b]] \in {"clear", "done", "failed"}
                                 /\ order'[b].st = "none" /\ Kept(b)' = {}
    <3>1. b \in Requests /\ pc[b] = "ok" /\ b # q
      BY <1>1 DEF LedgerInv, LateStaysOut
    <3>2. Kept(b)' = Kept(b)
      BY <1>4, <1>5, <3>1 DEF TooLateFor
    <3> QED
      BY <1>1, <1>3, <3>1, <3>2 DEF LedgerInv, LateStaysOut
  <2>2. pc'[q] = "ok" /\ ~IsSaved(q)'
    BY <1>1 DEF IsSaved
  <2> QED
    BY <1>1, <2>1, <2>2 DEF LateStaysOut
<1>8. StakesKept'
  <2>1. ASSUME NEW b \in Requests, b \notin late, IsSaved(b), b # f
        PROVE  SumFunctionOnSet(amount', Kept(b)') = Carried(b)'
    BY <1>1, <1>4, <2>1 DEF LedgerInv, StakesKept, Carried
  <2>2. ASSUME f \notin late
        PROVE  SumFunctionOnSet(amount', Kept(f)') = Carried(f)'
    <3>1. SumFunctionOnSet(amount, Kept(f)) = Carried(f)
      BY <1>2, <2>2 DEF LedgerInv, StakesKept
    <3>2. order[f].st \in {"none", "priced", "draft", "stored"}
      BY DEF Order
    <3>3. CASE order[f].st \in {"draft", "stored"}
      BY <1>1, <1>5, <3>1, <3>3 DEF TooLateFor, Carried
    <3>4. CASE order[f].st \in {"none", "priced"}
      <4>1. Kept(f)' = Kept(f) \cup {q}
        BY <1>5, <2>2, <3>4 DEF TooLateFor
      <4>2. /\ IsFiniteSet(Kept(f)) /\ \A x \in Kept(f) : amount[x] \in Int
            /\ amount[q] \in Int /\ q \notin Kept(f) /\ stake[f] \in Int
        <5>1. Kept(f) \in SUBSET Requests /\ q \notin Kept(f)
          BY <1>1 DEF Kept
        <5> QED
          BY <5>1, SetsOfRequests, BSAmounts
      <4>3. SumFunctionOnSet(amount, Kept(f) \cup {q}) = amount[q] + SumFunctionOnSet(amount, Kept(f))
        BY <4>2, SumInsert
      <4> QED
        BY <1>1, <3>1, <3>4, <4>1, <4>2, <4>3 DEF Carried
    <3> QED
      BY <3>2, <3>3, <3>4
  <2> QED
    BY <1>1, <1>3, <2>1, <2>2 DEF StakesKept
<1>9. NoneForgotten'
  BY <1>1, <1>3 DEF NoneForgotten, LedgerInv, Unsettled
<1>10. EmptyHands'
  BY <1>1 DEF EmptyHands, LedgerInv
<1> QED
  BY <1>6, <1>7, <1>8, <1>9, <1>10 DEF LedgerInv

\* SaveBet puts the new bet into the queue, in time for the last pop or late.
LEMMA LedgerSave ==
    ASSUME TypeOK, SettlementInv, LedgerInv, NEW q \in Requests, SaveBet(q)
    PROVE  LedgerInv'
<1> USE DEF TypeOK
<1>0. PICK r \in Rounds : r = rid[q]
  BY DEF SaveBet, SettlementInv, RoundKnown
<1>1. /\ UNCHANGED <<user, color, amount, rid, found, spc, popped, batch, order>>
      /\ pc[q] = "looked" /\ pc'[q] = "ok" /\ found[q] = NoBet
      /\ \A x \in Requests : x # q => pc'[x] = pc[x] /\ stake'[x] = stake[x]
      /\ stake'[q] = amount[q]
      /\ late' = IF spc[r] \in {"clear", "done", "failed"} THEN late \cup {q} ELSE late
      /\ bets'[r] = bets[r] \cup {q} /\ queue'[r] = queue[r] \cup {q}
      /\ \A s \in Rounds : s # r => bets'[s] = bets[s] /\ queue'[s] = queue[s]
  BY <1>0 DEF SaveBet, To, args, settleVars
<1>2. q \notin late /\ order[q].st = "none" /\ \A x \in Requests : found[x] # q
  BY <1>1 DEF LedgerInv, BetsKnown, LateStaysOut, IsSaved, SettlementInv, BetsSaved
<1>3. IsSaved(q)' /\ \A b \in Requests : b # q => IsSaved(b)' = IsSaved(b)
  BY <1>1 DEF IsSaved
<1>4. \A b \in Requests : b # q => Kept(b)' = Kept(b)
  BY <1>1, <1>2 DEF Kept, BetOf
<1>5. Kept(q)' = IF q \in late' THEN {} ELSE {q}
  BY <1>1, <1>2 DEF Kept, BetOf
<1>6. BetsKnown'
  <2>1. ASSUME NEW x \in Requests, NEW b \in Requests, found'[x] = b
        PROVE  /\ pc'[x] \in {"looked", "ok"} /\ IsSaved(b)' /\ rid'[b] = rid'[x]
               /\ SameArea(x, b)'
    <3>1. /\ pc[x] \in {"looked", "ok"} /\ IsSaved(b) /\ rid[b] = rid[x]
          /\ SameArea(x, b) /\ b # q
      BY <1>1, <1>2, <2>1 DEF LedgerInv, BetsKnown
    <3> QED
      BY <1>1, <1>3, <3>1 DEF SameArea
  <2>2. ASSUME NEW s \in Rounds, NEW b \in bets'[s]
        PROVE  b \in Requests /\ IsSaved(b)' /\ rid'[b] = s
    <3>1. CASE b \in bets[s]
      <4>1. b \in Requests /\ IsSaved(b) /\ rid[b] = s
        BY <3>1 DEF LedgerInv, BetsKnown
      <4> QED
        BY <1>1, <1>3, <4>1
    <3>2. CASE b \notin bets[s]
      <4>1. b = q /\ s = r
        BY <1>1, <3>2
      <4> QED
        BY <1>0, <1>1, <1>3, <4>1
    <3> QED
      BY <3>1, <3>2
  <2>3. ASSUME NEW s \in Rounds, NEW b \in queue'[s] \cup popped'[s] \cup batch'[s]
        PROVE  found'[b] = NoBet
    <3>0. queue'[s] \subseteq queue[s] \cup {q}
      BY <1>1
    <3>1. b = q \/ b \in queue[s] \cup popped[s] \cup batch[s]
      BY <1>1, <3>0
    <3> QED
      BY <1>1, <3>1 DEF LedgerInv, BetsKnown
  <2>4. \A b \in Requests : order'[b].st # "none" => found'[b] = NoBet
    BY <1>1 DEF LedgerInv, BetsKnown
  <2> QED
    BY <2>1, <2>2, <2>3, <2>4 DEF BetsKnown
<1>7. LateStaysOut'
  <2>1. ASSUME NEW b \in late
        PROVE  /\ pc'[b] = "ok"
               /\ IsSaved(b)' => /\ spc'[rid'[b]] \in {"clear", "done", "failed"}
                                 /\ order'[b].st = "none" /\ Kept(b)' = {}
    BY <1>1, <1>2, <1>3, <1>4 DEF LedgerInv, LateStaysOut
  <2>2. ASSUME q \in late'
        PROVE  /\ pc'[q] = "ok" /\ spc'[rid'[q]] \in {"clear", "done", "failed"}
               /\ order'[q].st = "none" /\ Kept(q)' = {}
    BY <1>0, <1>1, <1>2, <1>5, <2>2
  <2> QED
    BY <1>1, <2>1, <2>2 DEF LateStaysOut
<1>8. StakesKept'
  <2>1. ASSUME NEW b \in Requests, b \notin late, IsSaved(b), b # q
        PROVE  SumFunctionOnSet(amount', Kept(b)') = Carried(b)'
    BY <1>1, <1>4, <2>1 DEF LedgerInv, StakesKept, Carried
  <2>2. ASSUME q \notin late'
        PROVE  SumFunctionOnSet(amount', Kept(q)') = Carried(q)'
    <3>1. SumFunctionOnSet(amount, {} \cup {q}) = amount[q] + SumFunctionOnSet(amount, {})
      BY SumInsert, FS_EmptySet, BSAmounts
    <3>2. {} \cup {q} = {q} /\ SumFunctionOnSet(amount, {}) = 0 /\ amount[q] \in Int
      BY SumEmpty, BSAmounts
    <3>3. SumFunctionOnSet(amount, {q}) = amount[q]
      BY <3>1, <3>2
    <3> QED
      BY <1>1, <1>2, <1>5, <2>2, <3>3 DEF Carried
  <2> QED
    BY <1>1, <1>3, <2>1, <2>2 DEF StakesKept
<1>9. NoneForgotten'
  <2>1. ASSUME NEW b \in Requests, NEW s \in Rounds, b \notin late, IsSaved(b), b # q, rid[b] = s
        PROVE  order'[b].st = "stored" \/ b \in Unsettled(s)' \cup batch'[s]
    BY <1>1, <2>1 DEF NoneForgotten, LedgerInv, Unsettled
  <2>2. q \in Unsettled(r)'
    BY <1>0, <1>1 DEF Unsettled
  <2> QED
    BY <1>0, <1>1, <1>3, <2>1, <2>2 DEF NoneForgotten
<1>10. EmptyHands'
  BY <1>1 DEF EmptyHands, LedgerInv
<1> QED
  BY <1>6, <1>7, <1>8, <1>9, <1>10 DEF LedgerInv

\* Where a settlement pops no more bets.
Ended == {"clear", "done", "failed"}

\* What a step of the settlement of round r has to respect: bets move from the queue
\* to the hands of the settlement and from there to stored orders, an order that is
\* made carries what the bet held, and only late bets are dropped.
LEMMA LedgerSettle ==
    ASSUME TypeOK, TypeOK', SettlementInv, LedgerInv, NEW r \in Rounds,
           UNCHANGED <<user, color, amount, pc, rid, found, late, stake>>,
           \A s \in Rounds : bets'[s] \subseteq bets[s],
           \A s \in Rounds : s # r => /\ queue'[s] = queue[s] /\ popped'[s] = popped[s]
                                      /\ batch'[s] = batch[s] /\ spc'[s] = spc[s],
           queue'[r] \cup popped'[r] \cup batch'[r] \subseteq queue[r] \cup popped[r] \cup batch[r],
           spc[r] \in Ended => spc'[r] \in Ended,
           \A b \in Requests : order'[b] # order[b] =>
               /\ b \in popped[r] \cup batch[r] /\ spc[r] \notin Ended
               /\ order[b].st # "stored" /\ Carried(b)' = Carried(b),
           \A b \in queue[r] \cup popped[r] \cup batch[r] :
               \/ b \in queue'[r] \cup popped'[r] \cup batch'[r]
               \/ b \in late \/ order'[b].st = "stored",
           /\ spc'[r] \in {"idle", "pop", "clear", "done"} => popped'[r] = {}
           /\ spc'[r] \in {"idle", "pop", "clear", "done", "batch"} => batch'[r] = {}
           /\ spc'[r] \in {"clear", "done"} => queue'[r] \subseteq late
    PROVE  LedgerInv'
<1> USE DEF TypeOK
<1>1. \A b \in Requests : /\ IsSaved(b)' = IsSaved(b) /\ Kept(b)' = Kept(b)
                          /\ \A q \in Requests : SameArea(q, b)' = SameArea(q, b)
  BY DEF IsSaved, Kept, BetOf, SameArea
<1>2. \A b \in queue[r] \cup popped[r] \cup batch[r] : IsSaved(b) /\ rid[b] = r
  BY DEF LedgerInv, BetsKnown, SettlementInv, BetsSaved, InHand, IsSaved
<1>3. BetsKnown'
  <2>1. \A s \in Rounds : \A b \in bets'[s] : b \in Requests /\ IsSaved(b)' /\ rid'[b] = s
    BY <1>1 DEF LedgerInv, BetsKnown
  <2>2. \A q, b \in Requests : found'[q] = b =>
          pc'[q] \in {"looked", "ok"} /\ IsSaved(b)' /\ rid'[b] = rid'[q] /\ SameArea(q, b)'
    BY <1>1 DEF LedgerInv, BetsKnown
  <2>3. \A s \in Rounds : \A b \in queue'[s] \cup popped'[s] \cup batch'[s] : found'[b] = NoBet
    <3>1. \A b \in queue'[r] \cup popped'[r] \cup batch'[r] : found'[b] = NoBet
      BY DEF LedgerInv, BetsKnown
    <3>2. ASSUME NEW s \in Rounds, s # r, NEW b \in queue'[s] \cup popped'[s] \cup batch'[s]
          PROVE  found'[b] = NoBet
      <4>1. b \in queue[s] \cup popped[s] \cup batch[s]
        BY <3>2
      <4> QED
        BY <4>1 DEF LedgerInv, BetsKnown
    <3> QED
      BY <3>1, <3>2
  <2>4. \A b \in Requests : order'[b].st # "none" => found'[b] = NoBet
    BY DEF LedgerInv, BetsKnown
  <2> QED
    BY <2>1, <2>2, <2>3, <2>4 DEF BetsKnown
<1>4. LateStaysOut'
  <2>1. ASSUME NEW b \in late
        PROVE  /\ pc'[b] = "ok"
               /\ IsSaved(b)' => /\ spc'[rid'[b]] \in Ended
                                 /\ order'[b].st = "none" /\ Kept(b)' = {}
    <3>0. b \in Requests /\ pc[b] = "ok" /\ rid[b] \in Rounds
      BY DEF LedgerInv, LateStaysOut, SettlementInv, RoundKnown
    <3>1. ASSUME IsSaved(b)
          PROVE  spc[rid[b]] \in Ended /\ order[b].st = "none" /\ Kept(b) = {}
      BY <3>1 DEF LedgerInv, LateStaysOut, Ended
    <3>2. ASSUME IsSaved(b) PROVE spc'[rid[b]] \in Ended
      BY <3>0, <3>1, <3>2
    <3>3. ASSUME IsSaved(b) PROVE order'[b] = order[b]
      BY <1>2, <3>0, <3>1, <3>3
    <3> QED
      BY <1>1, <3>0, <3>1, <3>2, <3>3
  <2> QED
    BY <2>1 DEF LateStaysOut, Ended
<1>5. StakesKept'
  <2>1. \A b \in Requests : Carried(b)' = Carried(b)
    BY DEF Carried
  <2> QED
    BY <1>1, <2>1 DEF LedgerInv, StakesKept
<1>6. NoneForgotten'
  <2>1. ASSUME NEW b \in Requests, NEW s \in Rounds, b \notin late, IsSaved(b), rid[b] = s
        PROVE  order'[b].st = "stored" \/ b \in Unsettled(s)' \cup batch'[s]
    <3>1. order[b].st = "stored" \/ b \in queue[s] \cup popped[s] \cup batch[s]
      BY <2>1 DEF LedgerInv, NoneForgotten, Unsettled
    <3>2. CASE order[b].st = "stored"
      BY <3>2
    <3>3. CASE s # r /\ b \in queue[s] \cup popped[s] \cup batch[s]
      BY <3>3 DEF Unsettled
    <3>4. CASE s = r /\ b \in queue[s] \cup popped[s] \cup batch[s]
      BY <2>1, <3>4 DEF Unsettled
    <3> QED
      BY <3>1, <3>2, <3>3, <3>4
  <2> QED
    BY <1>1, <2>1 DEF NoneForgotten
<1>7. EmptyHands'
  BY DEF LedgerInv, EmptyHands
<1> QED
  BY <1>3, <1>4, <1>5, <1>6, <1>7 DEF LedgerInv

\* The steps of a settlement respect it.
LEMMA LedgerSettlement ==
    ASSUME TypeOK, TypeOK', SettlementInv, LedgerInv, NEW r \in Rounds,
           SettleRound(r) \/ RoundResult(r)
    PROVE  LedgerInv'
<1> USE DEF TypeOK, Ended
<1>0. /\ UNCHANGED <<user, color, amount, pc, rid, found, late, stake>>
      /\ \A s \in Rounds : bets'[s] \subseteq bets[s]
      /\ \A s \in Rounds : s # r => /\ queue'[s] = queue[s] /\ popped'[s] = popped[s]
                                    /\ batch'[s] = batch[s] /\ spc'[s] = spc[s]
  <2>1. CASE RoundResult(r)
    BY <2>1 DEF RoundResult, SettleTo, requestVars, args, repoVars
  <2>2. CASE GetBetsForSettlement(r)
    BY <2>2 DEF GetBetsForSettlement, SettleTo, requestVars, args
  <2>3. CASE FillBatch(r)
    BY <2>3 DEF FillBatch, SettleTo, requestVars, args, repoVars
  <2>4. CASE MakeOrders(r) \/ BatchCreate(r)
    BY <2>4 DEF MakeOrders, BatchCreate, SettleTo, requestVars, args, repoVars
  <2>6. CASE SendToUser(r) \/ ClearBets(r)
    BY <2>6 DEF SendToUser, ClearBets, SettleTo, requestVars, args, repoVars
  <2>5. CASE \E b \in Requests : AddBalance(r, b)
    BY <2>5 DEF AddBalance, SettleTo, requestVars, args, repoVars
  <2> QED
    BY <2>1, <2>2, <2>3, <2>4, <2>5, <2>6 DEF SettleRound
<1>a. /\ spc[r] \in {"idle", "pop", "clear", "done"} => popped[r] = {}
      /\ spc[r] \in {"idle", "pop", "clear", "done", "batch"} => batch[r] = {}
      /\ spc[r] \in {"clear", "done"} => queue[r] \subseteq late
  BY DEF LedgerInv, EmptyHands
<1>1. CASE RoundResult(r)
  <2>1. spc[r] = "idle" /\ spc'[r] = "pop" /\ UNCHANGED <<queue, popped, batch, order>>
    <3>1. told[r] = <<>>
      BY <1>1 DEF RoundResult, TellGS
    <3>2. spc[r] = "idle"
      <4>1. <<results[r]>> # <<>>
        OBVIOUS
      <4> QED
        BY <3>1, <4>1 DEF SettlementInv, SettlementTold
    <3> QED
      BY <1>1, <3>2 DEF RoundResult, SettleTo, repoVars
  <2> QED
    BY <1>0, <1>a, <2>1, LedgerSettle
<1>2. CASE GetBetsForSettlement(r)
  <2>1. /\ spc[r] = "pop" /\ UNCHANGED <<batch, order>>
        /\ \/ spc'[r] = "clear" /\ UNCHANGED <<queue, popped>> /\ queue[r] = {}
           \/ spc'[r] = "batch" /\ popped'[r] = queue[r] /\ queue'[r] = {}
    BY <1>2 DEF GetBetsForSettlement, SettleTo
  <2> QED
    BY <1>0, <1>a, <2>1, LedgerSettle
<1>3. CASE FillBatch(r)
  <2>1. PICK B \in SUBSET popped[r] :
          /\ batch' = [batch EXCEPT ![r] = B]
          /\ popped' = [popped EXCEPT ![r] = @ \ B]
          /\ order' = [b \in Requests |->
                          IF b \in B
                          THEN [st |-> "priced", amount |-> 0, payout |-> CalculateWin(b, r)]
                          ELSE order[b]]
    BY <1>3 DEF FillBatch
  <2>2. spc[r] = "batch" /\ spc'[r] = "order" /\ UNCHANGED queue
    BY <1>3 DEF FillBatch, SettleTo, repoVars
  <2>3. batch'[r] = B /\ popped'[r] = popped[r] \ B /\ B \subseteq popped[r]
    BY <2>1
  <2>4. ASSUME NEW b \in Requests, order'[b] # order[b]
        PROVE  b \in popped[r] /\ order[b].st # "stored" /\ Carried(b)' = Carried(b)
    <3>1. b \in popped[r] /\ order'[b].st = "priced"
      BY <2>1, <2>4
    <3>2. order[b].st = "none"
      BY <3>1 DEF SettlementInv, SettledOnce, Unsettled
    <3> QED
      BY <1>0, <3>1, <3>2 DEF Carried
  <2>5. \A b \in Requests : order'[b] # order[b] =>
               /\ b \in popped[r] \cup batch[r] /\ spc[r] \notin Ended
               /\ order[b].st # "stored" /\ Carried(b)' = Carried(b)
    BY <2>2, <2>4
  <2> QED
    BY <1>0, <1>a, <2>2, <2>3, <2>5, LedgerSettle
<1>4. CASE MakeOrders(r)
  <2>1. spc[r] = "order" /\ spc'[r] = "persist" /\ UNCHANGED <<queue, popped, batch>>
    BY <1>4 DEF MakeOrders, SettleTo, repoVars
  <2>2. ASSUME NEW b \in Requests, order'[b] # order[b]
        PROVE  b \in batch[r] /\ order[b].st # "stored" /\ Carried(b)' = Carried(b)
    <3>1. b \in batch[r] /\ order'[b].st = "draft" /\ order'[b].amount = stake[b]
      BY <1>4, <2>2 DEF MakeOrders
    <3>2. order[b].st = "priced"
      BY <2>1, <3>1 DEF SettlementInv, BatchProgress, RoundProgress
    <3> QED
      BY <1>0, <3>1, <3>2 DEF Carried
  <2>3. \A b \in Requests : order'[b] # order[b] =>
               /\ b \in popped[r] \cup batch[r] /\ spc[r] \notin Ended
               /\ order[b].st # "stored" /\ Carried(b)' = Carried(b)
    BY <2>1, <2>2
  <2> QED
    BY <1>0, <1>a, <2>1, <2>3, LedgerSettle
<1>5. CASE BatchCreate(r)
  <2>1. /\ spc[r] = "persist" /\ spc'[r] \in {"failed", "pay"}
        /\ UNCHANGED <<queue, popped, batch>>
        /\ UNCHANGED order \/ order' = Stored(batch[r])
    BY <1>5 DEF BatchCreate, SettleTo, repoVars
  <2>2. ASSUME NEW b \in Requests, order'[b] # order[b]
        PROVE  b \in batch[r] /\ order[b].st # "stored" /\ Carried(b)' = Carried(b)
    <3>1. b \in batch[r] /\ order'[b].st = "stored" /\ order'[b].amount = order[b].amount
      <4>1. order'[b] = IF b \in batch[r] THEN [st |-> "stored", amount |-> order[b].amount,
                                                payout |-> order[b].payout]
                                         ELSE order[b]
        BY <2>1, <2>2 DEF Stored
      <4> QED
        BY <2>2, <4>1
    <3>2. order[b].st = "draft"
      BY <2>1, <3>1 DEF SettlementInv, BatchProgress, RoundProgress
    <3> QED
      BY <1>0, <3>1, <3>2 DEF Carried
  <2>3. \A b \in Requests : order'[b] # order[b] =>
               /\ b \in popped[r] \cup batch[r] /\ spc[r] \notin Ended
               /\ order[b].st # "stored" /\ Carried(b)' = Carried(b)
    BY <2>1, <2>2
  <2> QED
    BY <1>0, <1>a, <2>1, <2>3, LedgerSettle
<1>6. ASSUME NEW b \in Requests, AddBalance(r, b) PROVE LedgerInv'
  <2>1. /\ spc[r] = "pay" /\ UNCHANGED <<queue, popped, order>>
        /\ b \in batch[r] /\ batch'[r] = batch[r] \ {b}
        /\ spc'[r] = "notify" \/ spc'[r] = NextPc(r, batch[r] \ {b})
    BY <1>6 DEF AddBalance, SettleTo, repoVars
  <2>2. order[b].st = "stored"
    BY <2>1 DEF SettlementInv, BatchProgress, RoundProgress
  <2>3. /\ spc'[r] \in {"notify", "pay", "batch", "pop"}
        /\ spc'[r] = "batch" => batch'[r] = {}
        /\ spc'[r] = "pop" => batch'[r] = {} /\ popped[r] = {}
    BY <2>1 DEF NextPc
  <2>4. \A d \in queue[r] \cup popped[r] \cup batch[r] :
               \/ d \in queue'[r] \cup popped'[r] \cup batch'[r]
               \/ d \in late \/ order'[d].st = "stored"
    BY <2>1, <2>2
  <2>5. queue'[r] \cup popped'[r] \cup batch'[r] \subseteq queue[r] \cup popped[r] \cup batch[r]
    BY <2>1
  <2> QED
    BY <1>0, <2>1, <2>3, <2>4, <2>5, LedgerSettle
<1>7. CASE SendToUser(r)
  <2>1. /\ spc[r] = "notify" /\ UNCHANGED <<queue, popped, batch, order>>
        /\ spc'[r] = NextPc(r, batch[r])
    BY <1>7 DEF SendToUser, SettleTo, repoVars
  <2>2. /\ spc'[r] \in {"pay", "batch", "pop"}
        /\ spc'[r] = "batch" => batch'[r] = {}
        /\ spc'[r] = "pop" => batch'[r] = {} /\ popped[r] = {}
    BY <2>1 DEF NextPc
  <2> QED
    BY <1>0, <1>a, <2>1, <2>2, LedgerSettle
<1>8. CASE ClearBets(r)
  <2>1. /\ spc[r] = "clear" /\ spc'[r] = "done" /\ queue'[r] = {}
        /\ UNCHANGED <<popped, batch, order>>
    BY <1>8 DEF ClearBets, SettleTo
  <2> QED
    BY <1>0, <1>a, <2>1, LedgerSettle
<1> QED
  BY <1>1, <1>2, <1>3, <1>4, <1>5, <1>6, <1>7, <1>8 DEF SettleRound

\* Every step keeps LedgerInv.
LEMMA LedgerStep ==
    ASSUME TypeOK, TypeOK', SettlementInv, LedgerInv, [Next]_vars
    PROVE  LedgerInv'
<1>1. ASSUME NEW q \in Requests, PlaceBet(q) PROVE LedgerInv'
  BY <1>1, LedgerQuiet, LedgerFind, LedgerUpdate, LedgerSave DEF PlaceBet
<1>2. ASSUME NEW r \in Rounds, RoundResult(r) \/ SettleRound(r) PROVE LedgerInv'
  BY <1>2, LedgerSettlement
<1>3. CASE Tick \/ UNCHANGED vars
  <2>1. UNCHANGED <<requestVars, repoVars, settleVars>>
    BY <1>3 DEF Tick, vars
  <2> QED
    BY <2>1 DEF requestVars, args, repoVars, settleVars, LedgerInv, BetsKnown, LateStaysOut,
                StakesKept, NoneForgotten, EmptyHands, IsSaved, Kept, BetOf, Carried, Unsettled,
                SameArea
<1> QED
  BY <1>1, <1>2, <1>3 DEF Next

\* The accepted stakes of an area and the orders of its bets, when the loop has ended.
LEMMA CompleteThen ==
    ASSUME TypeOK, SettlementInv, LedgerInv
    PROVE  SettlementComplete
<1> USE DEF TypeOK
<1> SUFFICES ASSUME NEW r \in Rounds, spc[r] \in {"clear", "done"}, NEW u \in Users, NEW c \in Colors
             PROVE  SumFunctionOnSet(Ordered, {b \in Accepted(u, c, r) : order[b].st = "stored"})
                      = SumFunctionOnSet(amount, Accepted(u, c, r) \ late)
  BY DEF SettlementComplete
<1> DEFINE A == Accepted(u, c, r)
           B == {b \in A : order[b].st = "stored"}
           P == [b \in B |-> Kept(b)]
<1>1. \A b \in Requests : b \in A <=> pc[b] = "ok" /\ user[b] = u /\ color[b] = c /\ rid[b] = r
  BY DEF Accepted
<1>2. \A b \in B : b \in Requests /\ IsSaved(b) /\ b \notin late
  <2>1. ASSUME NEW b \in B PROVE b \in Requests /\ IsSaved(b)
    BY DEF LedgerInv, BetsKnown, IsSaved, Accepted
  <2>2. ASSUME NEW b \in B, b \in late PROVE FALSE
    BY <2>1, <2>2 DEF LedgerInv, LateStaysOut
  <2> QED
    BY <2>1, <2>2
<1>3. \A b \in B : Ordered[b] = SumFunctionOnSet(amount, P[b])
  <2>1. ASSUME NEW b \in B PROVE Ordered[b] = SumFunctionOnSet(amount, Kept(b))
    <3>1. b \in Requests /\ SumFunctionOnSet(amount, Kept(b)) = Carried(b)
      BY <1>2 DEF LedgerInv, StakesKept
    <3>2. order[b].st = "stored"
      OBVIOUS
    <3> QED
      BY <3>1, <3>2 DEF Carried, Ordered
  <2> QED
    BY <2>1
<1>4. \A a, b \in B : a # b => P[a] \cap P[b] = {}
  BY DEF Kept
<1>5. \A q : q \in A \ late <=> \E b \in B : q \in P[b]
  <2>1. ASSUME NEW b \in B, NEW q \in Kept(b) PROVE q \in A \ late
    <3>1. q \in Requests /\ pc[q] = "ok" /\ BetOf(q) = b /\ q \notin late /\ b \in Requests
      BY <1>2 DEF Kept
    <3>2. CASE q = b
      BY <3>1, <3>2
    <3>3. CASE q # b
      <4>1. found[q] = b
        BY <3>1, <3>3 DEF BetOf
      <4>2. rid[b] = rid[q] /\ SameArea(q, b)
        BY <3>1, <4>1 DEF LedgerInv, BetsKnown
      <4> QED
        BY <1>1, <3>1, <4>2 DEF SameArea
    <3> QED
      BY <3>2, <3>3
  <2>2. ASSUME NEW q \in A \ late PROVE \E b \in B : q \in Kept(b)
    <3>0. q \in Requests /\ pc[q] = "ok" /\ user[q] = u /\ color[q] = c /\ rid[q] = r
      BY DEF Accepted
    <3>1. PICK b \in Requests : b = BetOf(q)
      BY <3>0 DEF BetOf
    <3>2. IsSaved(b) /\ b \in A
      <4>1. CASE found[q] = NoBet
        BY <3>0, <3>1, <4>1 DEF IsSaved, BetOf
      <4>2. CASE found[q] # NoBet
        <5>1. found[q] = b
          BY <3>1, <4>2 DEF BetOf
        <5>2. IsSaved(b) /\ rid[b] = rid[q] /\ SameArea(q, b)
          BY <3>0, <5>1 DEF LedgerInv, BetsKnown
        <5> QED
          BY <1>1, <3>0, <5>2 DEF IsSaved, SameArea
      <4> QED
        BY <4>1, <4>2
    <3>3. q \in Kept(b)
      BY <3>0, <3>1 DEF Kept
    <3>4. b \notin late
      BY <3>2, <3>3 DEF LedgerInv, LateStaysOut
    <3>5. rid[b] = r
      BY <1>1, <3>2
    <3>6. order[b].st = "stored" \/ b \in Unsettled(r) \cup batch[r]
      BY <3>2, <3>4, <3>5 DEF LedgerInv, NoneForgotten
    <3>7. order[b].st = "stored"
      BY <3>4, <3>6 DEF LedgerInv, EmptyHands, Unsettled
    <3> QED
      BY <3>2, <3>3, <3>7
  <2> HIDE DEF A, B
  <2> QED
    BY <2>1, <2>2
<1>6. IsFiniteSet(B) /\ P \in [B -> SUBSET Requests] /\ \A q \in Requests : amount[q] \in Int
  <2>1. B \in SUBSET Requests /\ \A b \in B : Kept(b) \in SUBSET Requests
    BY <1>2 DEF Kept
  <2> HIDE DEF B
  <2> QED
    BY <2>1, SetsOfRequests
<1> HIDE DEF B, P
<1>7. PICK U : U = A \ late
  OBVIOUS
<1>8. SumFunctionOnSet(Ordered, B) = SumFunctionOnSet(amount, U)
  <2> HIDE DEF A, TypeOK
  <2>1. \A q : q \in U <=> \E b \in B : q \in P[b]
    BY <1>5, <1>7
  <2> QED
    BY <1>3, <1>4, <1>6, <2>1, BSRequests, SumPartition
<1> QED
  BY <1>7, <1>8 DEF B

\* Only UpdateBetAmount and SaveBet change what a saved bet holds and which stakes went
\* into it.
LEMMA StakesAddedQuiet ==
    ASSUME StakesAdded, UNCHANGED <<amount, stake>>,
           \A x \in Requests : IsSaved(x)' => IsSaved(x),
           \A x \in Requests : AddedTo(x)' = AddedTo(x)
    PROVE  StakesAdded'
BY DEF StakesAdded

\* The stakes of a bet.
LEMMA StakesAddedStep ==
    ASSUME TypeOK, LedgerInv, StakesAdded, [Next]_vars
    PROVE  StakesAdded'
<1> USE DEF TypeOK
<1>1. ASSUME NEW q \in Requests, UpdateBetAmount(q) PROVE StakesAdded'
  <2>0. PICK f \in Requests : f = found[q]
    BY <1>1 DEF UpdateBetAmount
  <2>1. /\ UNCHANGED <<amount, found>> /\ pc[q] = "looked" /\ pc'[q] = "ok" /\ found[q] # NoBet
        /\ \A x \in Requests : x # q => pc'[x] = pc[x]
        /\ stake'[f] = stake[f] + amount[q] /\ \A x \in Requests : x # f => stake'[x] = stake[x]
    BY <1>1, <2>0 DEF UpdateBetAmount, To, args
  <2>2. IsSaved(f) /\ f # q /\ \A b \in Requests : IsSaved(b)' = IsSaved(b)
    BY <2>0, <2>1 DEF LedgerInv, BetsKnown, IsSaved
  <2>3. /\ \A b \in Requests : b # f => AddedTo(b)' = AddedTo(b)
        /\ AddedTo(f)' = AddedTo(f) \cup {q} /\ q \notin AddedTo(f)
    BY <2>0, <2>1, <2>2 DEF AddedTo, BetOf
  <2>4. IsFiniteSet(AddedTo(f)) /\ amount[q] \in Int /\ \A x \in AddedTo(f) : amount[x] \in Int
    <3>1. AddedTo(f) \in SUBSET Requests
      BY DEF AddedTo
    <3> QED
      BY <3>1, SetsOfRequests, BSAmounts
  <2>5. SumFunctionOnSet(amount, AddedTo(f) \cup {q}) = amount[q] + SumFunctionOnSet(amount, AddedTo(f))
    BY <2>3, <2>4, SumInsert
  <2>6. stake[f] = SumFunctionOnSet(amount, AddedTo(f)) /\ stake[f] \in Int
    BY <2>2 DEF StakesAdded
  <2>7. stake'[f] = SumFunctionOnSet(amount', AddedTo(f)')
    BY <2>1, <2>3, <2>4, <2>5, <2>6
  <2> QED
    BY <2>1, <2>2, <2>3, <2>7 DEF StakesAdded
<1>2. ASSUME NEW q \in Requests, SaveBet(q) PROVE StakesAdded'
  <2>1. /\ UNCHANGED <<amount, found>> /\ pc[q] = "looked" /\ pc'[q] = "ok" /\ found[q] = NoBet
        /\ \A x \in Requests : x # q => pc'[x] = pc[x] /\ stake'[x] = stake[x]
        /\ stake'[q] = amount[q]
    BY <1>2 DEF SaveBet, To, args
  <2>2. \A x \in Requests : found[x] # q
    BY <2>1 DEF LedgerInv, BetsKnown, IsSaved
  <2>3. /\ \A b \in Requests : b # q => AddedTo(b)' = AddedTo(b) /\ IsSaved(b)' = IsSaved(b)
        /\ AddedTo(q)' = {q}
    BY <2>1, <2>2 DEF AddedTo, BetOf, IsSaved
  <2>4. SumFunctionOnSet(amount, {q}) = amount[q]
    <3>1. SumFunctionOnSet(amount, {} \cup {q}) = amount[q] + SumFunctionOnSet(amount, {})
      BY SumInsert, FS_EmptySet, BSAmounts
    <3>2. {} \cup {q} = {q} /\ SumFunctionOnSet(amount, {}) = 0 /\ amount[q] \in Int
      BY SumEmpty, BSAmounts
    <3> QED
      BY <3>1, <3>2
  <2> QED
    BY <2>1, <2>3, <2>4 DEF StakesAdded
<1>3. ASSUME NEW q \in Requests, AskRound(q) \/ Debit(q) \/ RecordBet(q) PROVE StakesAdded'
  <2>1. /\ UNCHANGED <<amount, stake, found>> /\ pc[q] # "ok" /\ pc'[q] # "ok"
        /\ \A x \in Requests : x # q => pc'[x] = pc[x]
    BY <1>3 DEF AskRound, Debit, RecordBet, To, args, repoVars
  <2>2. \A x \in Requests : (IsSaved(x)' => IsSaved(x)) /\ AddedTo(x)' = AddedTo(x)
    BY <2>1 DEF IsSaved, AddedTo, BetOf
  <2> QED
    BY <2>1, <2>2, StakesAddedQuiet
<1>4. ASSUME NEW q \in Requests, GetUserBet(q) PROVE StakesAdded'
  <2>1. /\ UNCHANGED <<amount, stake>> /\ pc[q] # "ok" /\ pc'[q] # "ok"
        /\ \A x \in Requests : x # q => pc'[x] = pc[x] /\ found'[x] = found[x]
    BY <1>4 DEF GetUserBet, To, args, repoVars
  <2>2. \A x \in Requests : (IsSaved(x)' => IsSaved(x)) /\ AddedTo(x)' = AddedTo(x)
    BY <2>1 DEF IsSaved, AddedTo, BetOf
  <2> QED
    BY <2>1, <2>2, StakesAddedQuiet
<1>5. CASE \/ \E r \in Rounds : RoundResult(r) \/ SettleRound(r)
           \/ Tick \/ UNCHANGED vars
  <2>1. UNCHANGED <<amount, stake, found, pc>>
    BY <1>5 DEF RoundResult, SettleRound, GetBetsForSettlement, FillBatch, MakeOrders, BatchCreate,
                AddBalance, SendToUser, ClearBets, Tick, vars, requestVars, args, repoVars
  <2>2. \A x \in Requests : (IsSaved(x)' => IsSaved(x)) /\ AddedTo(x)' = AddedTo(x)
    BY <2>1 DEF IsSaved, AddedTo, BetOf
  <2> QED
    BY <2>1, <2>2, StakesAddedQuiet
<1> QED
  BY <1>1, <1>2, <1>3, <1>4, <1>5 DEF Next, PlaceBet

\* The stakes of a player's bets are the amounts of the accepted calls.
LEMMA StakedIs ==
    ASSUME TypeOK, LedgerInv, StakesAdded, NEW u \in Users,
           NEW U, U = {q \in CallsOf(u) : pc[q] = "ok"}
    PROVE  Staked(u) = SumFunctionOnSet(amount, U)
<1> USE DEF TypeOK
<1> DEFINE B == BetsOf(u)
           P == [b \in B |-> AddedTo(b)]
<1>1. \A b \in B : b \in Requests /\ IsSaved(b) /\ user[b] = u
  BY DEF BetsOf, CallsOf
<1>2. IsFiniteSet(B) /\ P \in [B -> SUBSET Requests] /\ \A q \in Requests : amount[q] \in Int
  <2>1. B \in SUBSET Requests /\ \A b \in B : AddedTo(b) \in SUBSET Requests
    BY DEF BetsOf, CallsOf, AddedTo
  <2> QED
    BY <2>1, SetsOfRequests, BSAmounts
<1>3. \A b \in B : stake[b] = SumFunctionOnSet(amount, P[b])
  BY <1>1 DEF StakesAdded
<1>4. \A a, b \in B : a # b => P[a] \cap P[b] = {}
  BY DEF AddedTo
<1>5. \A q : q \in U <=> \E b \in B : q \in P[b]
  <2>1. ASSUME NEW b \in B, NEW q \in AddedTo(b) PROVE q \in U
    <3>1. q \in Requests /\ pc[q] = "ok" /\ BetOf(q) = b
      BY DEF AddedTo
    <3>2. user[q] = u
      BY <1>1, <3>1 DEF BetOf, LedgerInv, BetsKnown, SameArea
    <3> QED
      BY <3>1, <3>2 DEF CallsOf
  <2>2. ASSUME NEW q \in U PROVE \E b \in B : q \in AddedTo(b)
    <3>1. q \in Requests /\ pc[q] = "ok" /\ user[q] = u
      BY DEF CallsOf
    <3>2. PICK b \in Requests : b = BetOf(q)
      BY <3>1 DEF BetOf
    <3>3. IsSaved(b) /\ user[b] = u
      BY <3>1, <3>2 DEF BetOf, IsSaved, LedgerInv, BetsKnown, SameArea
    <3>4. b \in B /\ q \in AddedTo(b)
      BY <3>1, <3>2, <3>3 DEF BetsOf, CallsOf, AddedTo
    <3> QED
      BY <3>4
  <2> HIDE DEF B
  <2> QED
    BY <2>1, <2>2
<1> HIDE DEF B, P, TypeOK
<1>6. SumFunctionOnSet(stake, B) = SumFunctionOnSet(amount, U)
  BY <1>2, <1>3, <1>4, <1>5, BSRequests, SumPartition
<1> QED
  BY <1>6 DEF B, Staked

\* Balances and bets: a debited call has a bet, is under way or was refused.
LEMMA ChargesThen ==
    ASSUME TypeOK, PayoutsBacked, LedgerInv, StakesAdded, BalanceInv
    PROVE  ChargesMatchBets
<1> USE DEF TypeOK
<1> SUFFICES ASSUME NEW u \in Users
             PROVE  IF wallet[u] = NoEntry THEN BetsOf(u) \cup Pending(u) \cup Forfeited(u) = {}
                    ELSE Charged(u) = Staked(u) + SumFunctionOnSet(amount, Pending(u))
                                                + SumFunctionOnSet(amount, Forfeited(u))
  BY DEF ChargesMatchBets
<1> DEFINE D == CallsOf(u) \cap Debited
<1>1. PICK U : U = {q \in CallsOf(u) : pc[q] = "ok"}
  OBVIOUS
<1>2. PICK Y : Y = Pending(u)
  OBVIOUS
<1>3. PICK Z : Z = Forfeited(u)
  OBVIOUS
<1>4. /\ U \in SUBSET Requests /\ Y \in SUBSET Requests /\ Z \in SUBSET Requests
      /\ U \cap Y = {} /\ (U \cup Y) \cap Z = {} /\ D = (U \cup Y) \cup Z
  BY <1>1, <1>2, <1>3 DEF CallsOf, Pending, Forfeited, Debited, RequestPcs
<1>5. BetsOf(u) \subseteq U
  BY <1>1 DEF BetsOf, IsSaved
<1>6. CASE wallet[u] = NoEntry
  <2>1. D = {}
    <3>1. SumFunctionOnSet(amount, D) \in Int /\ SumFunctionOnSet(Paid, CallsOf(u)) \in Int
          /\ DefaultBalance \in Int
      <4>1. D \in SUBSET Requests /\ CallsOf(u) \in SUBSET Requests
        BY <1>4 DEF CallsOf
      <4>2. \A x \in Requests : amount[x] \in Int /\ Paid[x] \in Int
        BY BSAmounts, PaidIs
      <4> QED
        BY <4>1, <4>2, SetsOfRequests, SumInt, BSAmounts
    <3> HIDE DEF TypeOK
    <3> QED
      BY <1>6, <3>1, BSNames DEF BalanceInv, Balance
  <2> QED
    BY <1>2, <1>3, <1>4, <1>5, <1>6, <2>1
<1>7. CASE wallet[u] # NoEntry
  <2>1. wallet[u] = DefaultBalance - SumFunctionOnSet(amount, D) + SumFunctionOnSet(Paid, CallsOf(u))
    BY <1>7 DEF BalanceInv, Balance
  <2>2. \A x \in Requests : amount[x] \in Int
    BY BSAmounts
  <2> HIDE DEF D, TypeOK
  <2>3. SumFunctionOnSet(amount, D) = SumFunctionOnSet(amount, U \cup Y) + SumFunctionOnSet(amount, Z)
    BY <1>4, <2>2, BSRequests, SumUnion
  <2>4. SumFunctionOnSet(amount, U \cup Y) = SumFunctionOnSet(amount, U) + SumFunctionOnSet(amount, Y)
    BY <1>4, <2>2, BSRequests, SumUnion
  <2>5. Staked(u) = SumFunctionOnSet(amount, U)
    BY <1>1, StakedIs
  <2>6. /\ SumFunctionOnSet(amount, U) \in Int /\ SumFunctionOnSet(amount, Y) \in Int
        /\ SumFunctionOnSet(amount, Z) \in Int
    BY <1>4, <2>2, SetsOfRequests, SumInt
  <2>7. SumFunctionOnSet(Paid, CallsOf(u)) \in Int /\ DefaultBalance \in Int
    <3>1. CallsOf(u) \in SUBSET Requests /\ \A x \in Requests : Paid[x] \in Int
      BY PaidIs DEF CallsOf, TypeOK
    <3> QED
      BY <3>1, SetsOfRequests, SumInt, BSAmounts
  <2> QED
    BY <1>2, <1>3, <1>7, <2>1, <2>3, <2>4, <2>5, <2>6, <2>7 DEF Charged
<1> QED
  BY <1>6, <1>7

\* The orders of a round whose settlement loop has ended carry every stake accepted for
\* the round except those that came too late.
THEOREM SettlementAlwaysComplete == Spec => [](LedgerInv /\ SettlementComplete)
<1>1. Init => LedgerInv
  BY BSNames DEF Init, LedgerInv, BetsKnown, LateStaysOut, StakesKept, NoneForgotten, EmptyHands,
                 IsSaved, NoOrder
<1>2. TypeOK /\ TypeOK' /\ SettlementInv /\ LedgerInv /\ [Next]_vars => LedgerInv'
  BY LedgerStep
<1>3. TypeOK /\ SettlementInv /\ LedgerInv => SettlementComplete
  BY CompleteThen
<1> QED
  BY <1>1, <1>2, <1>3, SettlementInvariant, PTL DEF Spec

\* Every bet of a player holds the stakes accepted for it, and the player is charged for
\* his bets and for nothing else, apart from the calls under way and those that GMS
\* refused after the deduction: no step of concurrent PlaceBet calls and settlements
\* loses or doubles a deduction, a stake or a deposit.
THEOREM ChargesAlwaysMatch == Spec => [](StakesAdded /\ ChargesMatchBets)
<1>1. Init => StakesAdded
  BY DEF Init, StakesAdded, IsSaved
<1>2. TypeOK /\ LedgerInv /\ StakesAdded /\ [Next]_vars => StakesAdded'
  BY StakesAddedStep
<1>3. TypeOK /\ SettlementInv /\ LedgerInv /\ StakesAdded /\ BalanceInv => ChargesMatchBets
  BY ChargesThen DEF SettlementInv
<1> QED
  BY <1>1, <1>2, <1>3, SettlementInvariant, SettlementAlwaysComplete, BalancesAddUp, PTL DEF Spec
=============================================================================
