---------------------------- MODULE AnalysisProofs ----------------------------
(***************************************************************************)
(* What the analyses compute from the stored figures: the inquiry to one      *)
(* expert, for all that the tables of its stock may hold, and the daily       *)
(* report, for all bars, concepts, pools and lists and any number of requests *)
(* and faults.  Both sort and add up; the lemmas on that come first.          *)
(***************************************************************************)
EXTENDS ResearchExperts, MarketInsight, FiniteSetTheorems, SequenceTheorems, WellFoundedInduction,
        TLAPS

-----------------------------------------------------------------------------
(* Sorting by rank (Sorted): of a finite set with a strict total order the    *)
(* element with i - 1 others before it exists, and comes after those of lower *)
(* rank.                                                                    *)

StrictOrder(R, S) ==
  /\ \A x \in S : <<x, x>> \notin R
  /\ \A x, y, z \in S : <<x, y>> \in R /\ <<y, z>> \in R => <<x, z>> \in R
  /\ \A x, y \in S : x # y => <<x, y>> \in R \/ <<y, x>> \in R

Below(R, S, x) == {y \in S : <<y, x>> \in R}

Ranked(R, S) ==
  [i \in 1..Cardinality(S) |-> CHOOSE x \in S : Cardinality(Below(R, S, x)) = i - 1]

LEMMA BelowGrows ==
  ASSUME NEW S, NEW R, IsFiniteSet(S), StrictOrder(R, S), NEW x \in S, NEW y \in S,
         <<x, y>> \in R
  PROVE  Cardinality(Below(R, S, x)) < Cardinality(Below(R, S, y))
  <1>1. Below(R, S, x) \subseteq Below(R, S, y)
    BY DEF Below, StrictOrder
  <1>2. x \in Below(R, S, y) /\ x \notin Below(R, S, x)
    BY DEF Below, StrictOrder
  <1>3. IsFiniteSet(Below(R, S, y))
    BY FS_Subset DEF Below
  <1>4. /\ Cardinality(Below(R, S, x)) <= Cardinality(Below(R, S, y))
        /\ Cardinality(Below(R, S, x)) # Cardinality(Below(R, S, y))
    BY <1>1, <1>2, <1>3, FS_Subset
  <1>5. Cardinality(Below(R, S, x)) \in Nat /\ Cardinality(Below(R, S, y)) \in Nat
    BY <1>1, <1>3, FS_Subset, FS_CardinalityType
  <1>6. QED
    BY <1>4, <1>5

LEMMA RankOnto ==
  ASSUME NEW S, NEW R, IsFiniteSet(S), StrictOrder(R, S), NEW i \in 1..Cardinality(S)
  PROVE  \E x \in S : Cardinality(Below(R, S, x)) = i - 1
  <1> DEFINE n == Cardinality(S)
             rank == [x \in S |-> Cardinality(Below(R, S, x)) + 1]
  <1>1. n \in Nat
    BY FS_CardinalityType
  <1>2. ASSUME NEW x \in S PROVE Cardinality(Below(R, S, x)) \in 0..(n - 1)
    <2>1. IsFiniteSet(S \ {x}) /\ Cardinality(S \ {x}) = n - 1
      BY FS_RemoveElement
    <2>2. Below(R, S, x) \subseteq S \ {x}
      BY DEF Below, StrictOrder
    <2>3. IsFiniteSet(Below(R, S, x)) /\ Cardinality(Below(R, S, x)) <= n - 1
      BY <2>1, <2>2, FS_Subset
    <2>4. QED
      BY <1>1, <2>3, FS_CardinalityType
  <1>3. rank \in [S -> 1..n]
    BY <1>1, <1>2
  <1>4. \A x, y \in S : rank[x] = rank[y] => x = y
    <2> SUFFICES ASSUME NEW x \in S, NEW y \in S, x # y
                 PROVE  rank[x] # rank[y]
      OBVIOUS
    <2>1. \/ Cardinality(Below(R, S, x)) < Cardinality(Below(R, S, y))
          \/ Cardinality(Below(R, S, y)) < Cardinality(Below(R, S, x))
      BY BelowGrows DEF StrictOrder
    <2>2. QED
      BY <1>1, <1>2, <2>1
  <1>5. rank \in Injection(S, 1..n)
    BY <1>3, <1>4 DEF Injection, IsInjective
  <1>6. IsFiniteSet(1..n) /\ Cardinality(1..n) = n
    BY <1>1, FS_Interval
  <1>7. rank \in Surjection(S, 1..n)
    BY <1>5, <1>6, FS_Injection
  <1>8. PICK x \in S : rank[x] = i
    BY <1>7 DEF Surjection
  <1>9. QED
    BY <1>1, <1>2, <1>8

LEMMA RankedSorts ==
  ASSUME NEW S, NEW R, IsFiniteSet(S), StrictOrder(R, S)
  PROVE  /\ Cardinality(S) \in Nat
         /\ Ranked(R, S) \in [1..Cardinality(S) -> S]
         /\ \A i, j \in 1..Cardinality(S) : i < j => <<Ranked(R, S)[i], Ranked(R, S)[j]>> \in R
  <1> DEFINE s == Ranked(R, S)
  <1>1. Cardinality(S) \in Nat
    BY FS_CardinalityType
  <1>2. \A i \in 1..Cardinality(S) :
          s[i] \in S /\ Cardinality(Below(R, S, s[i])) = i - 1
    BY RankOnto DEF Ranked
  <1>3. s \in [1..Cardinality(S) -> S]
    BY <1>2 DEF Ranked
  <1>4. ASSUME NEW i \in 1..Cardinality(S), NEW j \in 1..Cardinality(S), i < j
        PROVE  <<s[i], s[j]>> \in R
    <2>1. s[i] # s[j]
      BY <1>1, <1>2, <1>4
    <2>2. ~(<<s[j], s[i]>> \in R)
      <3>1. <<s[j], s[i]>> \in R
              => Cardinality(Below(R, S, s[j])) < Cardinality(Below(R, S, s[i]))
        BY <1>2, BelowGrows
      <3>2. QED
        BY <1>1, <1>2, <1>4, <3>1
    <2>3. QED
      BY <1>2, <2>1, <2>2 DEF StrictOrder
  <1>5. QED
    BY <1>1, <1>3, <1>4

\* The first of the ranked elements comes before all others.
LEMMA FirstRanked ==
  ASSUME NEW S, NEW R, IsFiniteSet(S), StrictOrder(R, S), S # {}
  PROVE  LET first == FirstOf(Ranked(R, S), 3)[1]
         IN first \in S /\ \A y \in S : <<y, first>> \notin R
  <1> DEFINE s == Ranked(R, S)  n == Cardinality(S)
  <1>1. n \in Nat /\ n # 0 /\ s \in [1..n -> S]
    BY RankedSorts, FS_EmptySet
  <1>2. PICK x \in S : Cardinality(Below(R, S, x)) = 1 - 1
    BY <1>1, RankOnto
  <1>3. s[1] \in S /\ Cardinality(Below(R, S, s[1])) = 1 - 1
    BY <1>1, <1>2 DEF Ranked
  <1>4. Below(R, S, s[1]) = {}
    <2>1. IsFiniteSet(Below(R, S, s[1]))
      BY FS_Subset DEF Below
    <2>2. QED
      BY <1>3, <2>1, FS_EmptySet
  <1> HIDE DEF s, n
  <1>5. s \in Seq(S) /\ Len(s) = n
    BY <1>1, IsASeq, LenProperties
  <1>6. FirstOf(s, 3)[1] = s[1]
    <2> DEFINE m == IF Len(s) < 3 THEN Len(s) ELSE 3
    <2>1. FirstOf(s, 3) = SubSeq(s, 1, m)
      BY DEF FirstOf
    <2>2. m \in 1..3 /\ m <= n
      BY <1>1, <1>5
    <2> HIDE DEF m
    <2>3. \A i \in 1..m : s[i] \in S
      BY <1>1, <2>2
    <2>4. SubSeq(s, 1, m)[1] = s[1 + 1 - 1]
      BY <2>2, <2>3, SubSeqProperties
    <2>5. 1 + 1 - 1 = 1
      OBVIOUS
    <2>6. QED
      BY <2>1, <2>4, <2>5, Zenon
  <1>7. QED
    BY <1>3, <1>4, <1>6 DEF Below, s

\* What the orders of numbers are as relations.
LEMMA NumbersOrdered ==
  ASSUME NEW S, S \subseteq Int
  PROVE  /\ StrictOrder({p \in S \X S : p[1] < p[2]}, S)
         /\ StrictOrder({p \in S \X S : p[1] > p[2]}, S)
  BY DEF StrictOrder

\* Sorting numbers up and down is sorting by those relations.
LEMMA SortedIsRanked ==
  ASSUME NEW S
  PROVE  /\ Sorted(S, LAMBDA a, b : a < b) = Ranked({p \in S \X S : p[1] < p[2]}, S)
         /\ Sorted(S, LAMBDA a, b : a > b) = Ranked({p \in S \X S : p[1] > p[2]}, S)
  <1> DEFINE R == {p \in S \X S : p[1] < p[2]}  T == {p \in S \X S : p[1] > p[2]}
  <1>1. \A x \in S : {y \in S : y < x} = Below(R, S, x)
    BY DEF Below
  <1>2. \A x \in S : {y \in S : y > x} = Below(T, S, x)
    BY DEF Below
  <1>3. Sorted(S, LAMBDA a, b : a < b)
          = [i \in 1..Cardinality(S) |-> CHOOSE x \in S : Cardinality({y \in S : y < x}) = i - 1]
    BY DEF Sorted
  <1>4. Sorted(S, LAMBDA a, b : a > b)
          = [i \in 1..Cardinality(S) |-> CHOOSE x \in S : Cardinality({y \in S : y > x}) = i - 1]
    BY DEF Sorted
  <1> HIDE DEF R, T
  <1>5. Sorted(S, LAMBDA a, b : a < b) = Ranked(R, S)
    BY <1>1, <1>3 DEF Ranked
  <1>6. Sorted(S, LAMBDA a, b : a > b) = Ranked(T, S)
    BY <1>2, <1>4 DEF Ranked
  <1>7. QED
    BY <1>5, <1>6 DEF R, T

\* The outermost of levels are their least and their greatest.
LEMMA OutermostLevels ==
  ASSUME NEW S, S \subseteq Int, IsFiniteSet(S), S # {}
  PROVE  LET low == FirstOf(Sorted(S, LAMBDA a, b : a < b), 3)[1]
             high == FirstOf(Sorted(S, LAMBDA a, b : a > b), 3)[1]
         IN /\ low \in S /\ high \in S
            /\ \A x \in S : low <= x /\ x <= high
  <1> DEFINE R == {p \in S \X S : p[1] < p[2]}  T == {p \in S \X S : p[1] > p[2]}
             low == FirstOf(Ranked(R, S), 3)[1]  high == FirstOf(Ranked(T, S), 3)[1]
  <1>1. StrictOrder(R, S) /\ StrictOrder(T, S)
    BY NumbersOrdered
  <1> HIDE DEF R, T
  <1>2. low \in S /\ \A y \in S : <<y, low>> \notin R
    BY <1>1, FirstRanked
  <1>3. high \in S /\ \A y \in S : <<y, high>> \notin T
    BY <1>1, FirstRanked
  <1> HIDE DEF low, high
  <1>4. ASSUME NEW x \in S PROVE low <= x /\ x <= high
    <2>1. x \in Int /\ low \in Int /\ high \in Int
      BY <1>2, <1>3
    <2>2. ~(x < low)
      BY <1>2 DEF R
    <2>3. ~(x > high)
      BY <1>3 DEF T
    <2>4. QED
      BY <2>1, <2>2, <2>3
  <1>5. QED
    BY <1>2, <1>3, <1>4, SortedIsRanked DEF R, T, low, high

\* The first four of sorted numbers.
LEMMA FirstFour ==
  ASSUME NEW S, S \subseteq Int, IsFiniteSet(S)
  PROVE  LET first == FirstOf(Sorted(S, LAMBDA a, b : a < b), 4) IN
         /\ Len(first) \in Nat /\ DOMAIN first = 1..Len(first)
         /\ \A k \in 1..Len(first) : first[k] \in S
         /\ S = {} => first = <<>>
         /\ S # {} => first # <<>> /\ Len(first) # 0
  <1> DEFINE s == Sorted(S, LAMBDA a, b : a < b)
             R == {p \in S \X S : p[1] < p[2]}
             m == IF Len(s) < 4 THEN Len(s) ELSE 4
             first == SubSeq(s, 1, m)
  <1>1. Cardinality(S) \in Nat /\ s \in [1..Cardinality(S) -> S]
    <2>1. StrictOrder(R, S)
      BY NumbersOrdered
    <2>2. s = Ranked(R, S)
      BY SortedIsRanked
    <2> HIDE DEF R, s
    <2>3. QED
      BY <2>1, <2>2, RankedSorts
  <1>2. first = FirstOf(Sorted(S, LAMBDA a, b : a < b), 4)
    BY DEF FirstOf
  <1> HIDE DEF s
  <1>3. s \in Seq(S) /\ Len(s) = Cardinality(S)
    BY <1>1, IsASeq, LenProperties
  <1>4. m \in Nat /\ m <= Cardinality(S) /\ (Cardinality(S) # 0 => m # 0)
    BY <1>1, <1>3
  <1> HIDE DEF m
  <1>5. \A i \in 1..m : s[i] \in S
    BY <1>1, <1>4
  <1>6. first \in Seq(S) /\ Len(first) = m
    <2>1. first \in Seq(S) /\ Len(first) = IF 1 <= m THEN m - 1 + 1 ELSE 0
      BY <1>4, <1>5, SubSeqProperties
    <2>2. QED
      BY <1>4, <2>1
  <1>7. S = {} <=> Cardinality(S) = 0
    BY FS_EmptySet
  <1>8. S = {} => first = <<>>
    BY <1>1, <1>4, <1>7, SubSeqEmpty
  <1> HIDE DEF first
  <1>9. S # {} => first # <<>> /\ Len(first) # 0
    BY <1>4, <1>6, <1>7, EmptySeq
  <1>10. DOMAIN first = 1..Len(first) /\ Len(first) \in Nat
    BY <1>6, LenProperties
  <1>11. \A k \in 1..Len(first) : first[k] \in S
    BY <1>6, ElementOfSeq
  <1>12. QED
    BY <1>2, <1>8, <1>9, <1>10, <1>11

-----------------------------------------------------------------------------
(* Induction by the least counterexample. *)

\* Of a set of numbers there is a least one.
LEMMA LeastNumber ==
  ASSUME NEW T \in SUBSET Nat, T # {}
  PROVE  \E m \in T : \A k \in T : m <= k
  <1>1. \E R : IsWellFoundedOn(R, Nat) /\ \A x, y \in Nat : y < x => <<y, x>> \in R
    <2> DEFINE R == OpToRel(<, Nat)
    <2>1. \A x, y \in Nat : y < x => <<y, x>> \in R
      BY DEF OpToRel
    <2>2. IsWellFoundedOn(R, Nat)
      BY NatLessThanWellFounded
    <2>3. QED
      BY <2>1, <2>2
  <1>2. PICK R : IsWellFoundedOn(R, Nat) /\ \A x, y \in Nat : y < x => <<y, x>> \in R
    BY <1>1
  <1>3. PICK m \in T : \A k \in T : ~(<<k, m>> \in R)
    BY <1>2, WFMin
  <1>4. ASSUME NEW k \in T PROVE m <= k
    <2>1. m \in Nat /\ k \in Nat
      OBVIOUS
    <2>2. ~(k < m)
      BY <1>2, <1>3, <2>1
    <2>3. QED
      BY <2>1, <2>2
  <1>5. QED
    BY <1>4

\* Of a set of finite sets there is one of the fewest elements.
LEMMA SmallestSet ==
  ASSUME NEW C, C # {}, \A S \in C : IsFiniteSet(S)
  PROVE  \E S \in C : \A T \in C : Cardinality(S) <= Cardinality(T)
  <1> DEFINE sizes == {Cardinality(S) : S \in C}
  <1>1. sizes \in SUBSET Nat /\ sizes # {}
    BY FS_CardinalityType
  <1>2. PICK m \in sizes : \A k \in sizes : m <= k
    BY <1>1, LeastNumber
  <1>3. QED
    BY <1>2

-----------------------------------------------------------------------------
(* Sums over finite sets.  The order in which a recursion takes the elements  *)
(* does not matter.                                                         *)

\* f adds up p over the subsets of S, taking the elements in some order.
AddsUp(f, p, S) ==
  /\ f[{}] = 0
  /\ \A s \in SUBSET S : s # {} => \E x \in s : f[s] = p[x] + f[s \ {x}]

AddsUpAnyhow(f, p, S) ==
  /\ f[{}] = 0
  /\ \A s \in SUBSET S : f[s] \in Int /\ \A x \in s : f[s] = p[x] + f[s \ {x}]

LEMMA SumExists ==
  ASSUME NEW S, IsFiniteSet(S), NEW p, \A x \in S : p[x] \in Int
  PROVE  \E f \in [SUBSET S -> Int] : AddsUpAnyhow(f, p, S)
  <1> DEFINE Summed(R) == \E f \in [SUBSET R -> Int] : AddsUpAnyhow(f, p, R)
             C == {R \in SUBSET S : ~Summed(R)}
  <1> SUFFICES ASSUME C # {} PROVE FALSE
    OBVIOUS
  <1>1. \A R \in C : IsFiniteSet(R)
    BY FS_Subset
  <1>2. PICK R \in C : \A T \in C : Cardinality(R) <= Cardinality(T)
    <2> HIDE DEF C
    <2>1. QED
      BY <1>1, SmallestSet
  <1>3. R # {}
    <2> SUFFICES ASSUME R = {} PROVE Summed(R)
      BY <1>2
    <2> DEFINE f == [s \in SUBSET R |-> 0]
    <2>1. AddsUpAnyhow(f, p, R)
      BY DEF AddsUpAnyhow
    <2>2. f \in [SUBSET R -> Int]
      OBVIOUS
    <2>3. QED
      BY <2>1, <2>2
  <1>4. PICK x \in R : TRUE
    BY <1>3
  <1>5. R \ {x} \notin C
    <2>1. IsFiniteSet(R) /\ Cardinality(R \ {x}) = Cardinality(R) - 1
      BY <1>1, <1>2, FS_RemoveElement
    <2>2. Cardinality(R) \in Nat
      BY <2>1, FS_CardinalityType
    <2>3. ~(Cardinality(R) <= Cardinality(R \ {x}))
      BY <2>1, <2>2
    <2>4. QED
      BY <1>2, <2>3
  <1>6. PICK f \in [SUBSET (R \ {x}) -> Int] : AddsUpAnyhow(f, p, R \ {x})
    BY <1>5
  <1> DEFINE g == [s \in SUBSET R |-> IF x \in s THEN p[x] + f[s \ {x}] ELSE f[s]]
  <1>7. \A s \in SUBSET R : /\ x \in s => g[s] = p[x] + f[s \ {x}]
                            /\ x \notin s => g[s] = f[s]
    OBVIOUS
  <1>8. \A s \in SUBSET R : s \ {x} \in SUBSET (R \ {x}) /\ f[s \ {x}] \in Int
    <2>1. \A s \in SUBSET R : s \ {x} \in SUBSET (R \ {x})
      OBVIOUS
    <2>2. QED
      BY <1>6, <2>1
  <1>9. R \subseteq S /\ p[x] \in Int /\ \A y \in R : p[y] \in Int
    BY <1>2
  <1>10. ASSUME NEW s \in SUBSET R PROVE g[s] \in Int
    <2>1. CASE x \in s
      BY <1>7, <1>8, <1>9, <2>1
    <2>2. CASE x \notin s
      <3>1. s \ {x} = s
        BY <2>2
      <3>2. QED
        BY <1>7, <1>8, <2>2, <3>1
    <2>3. QED
      BY <2>1, <2>2
  <1>11. g \in [SUBSET R -> Int]
    BY <1>10
  <1> HIDE DEF g
  <1>12. g[{}] = 0
    BY <1>6, <1>7 DEF AddsUpAnyhow
  <1>13. ASSUME NEW s \in SUBSET R, NEW y \in s PROVE g[s] = p[y] + g[s \ {y}]
    <2>1. s \ {y} \in SUBSET R
      OBVIOUS
    <2>2. CASE y = x
      BY <1>7, <2>1, <2>2
    <2>3. CASE y # x /\ x \notin s
      <3>1. s \in SUBSET (R \ {x}) /\ x \notin s \ {y}
        BY <2>3
      <3>2. f[s] = p[y] + f[s \ {y}]
        BY <1>6, <3>1 DEF AddsUpAnyhow
      <3>3. QED
        BY <1>7, <2>1, <2>3, <3>1, <3>2
    <2>4. CASE y # x /\ x \in s
      <3> DEFINE u == s \ {x}  v == s \ {x, y}
      <3>1. u \in SUBSET (R \ {x}) /\ y \in u /\ u \ {y} = v /\ (s \ {y}) \ {x} = v
            /\ v \in SUBSET (R \ {x})
        BY <2>4
      <3>2. f[u] = p[y] + f[v]
        BY <1>6, <3>1 DEF AddsUpAnyhow
      <3>3. g[s] = p[x] + f[u]
        BY <1>7, <2>4
      <3>4. g[s \ {y}] = p[x] + f[v]
        BY <1>7, <2>1, <2>4, <3>1
      <3>5. p[y] \in Int /\ f[v] \in Int
        BY <1>6, <1>9, <3>1
      <3>6. QED
        BY <1>9, <3>2, <3>3, <3>4, <3>5
    <2>5. QED
      BY <2>2, <2>3, <2>4
  <1>14. AddsUpAnyhow(g, p, R)
    BY <1>10, <1>12, <1>13 DEF AddsUpAnyhow
  <1>15. QED
    BY <1>2, <1>11, <1>14

\* One order is as good as another.
LEMMA SumsAgree ==
  ASSUME NEW S, IsFiniteSet(S), NEW p, NEW q, \A x \in S : p[x] \in Int /\ q[x] = p[x],
         NEW f, NEW g, AddsUpAnyhow(f, p, S), AddsUp(g, q, S)
  PROVE  \A s \in SUBSET S : g[s] = f[s]
  <1> DEFINE C == {s \in SUBSET S : g[s] # f[s]}
  <1> SUFFICES ASSUME C # {} PROVE FALSE
    OBVIOUS
  <1>1. \A s \in C : IsFiniteSet(s)
    BY FS_Subset
  <1>2. PICK s \in C : \A t \in C : Cardinality(s) <= Cardinality(t)
    <2> HIDE DEF C
    <2>1. QED
      BY <1>1, SmallestSet
  <1>3. s # {} /\ s \in SUBSET S
    BY <1>2 DEF AddsUp, AddsUpAnyhow
  <1>4. PICK x \in s : g[s] = q[x] + g[s \ {x}]
    BY <1>3 DEF AddsUp
  <1>5. Cardinality(s \ {x}) = Cardinality(s) - 1 /\ Cardinality(s) \in Nat
    BY <1>1, <1>2, FS_RemoveElement, FS_CardinalityType
  <1>6. s \ {x} \notin C
    BY <1>2, <1>5
  <1>7. g[s \ {x}] = f[s \ {x}]
    BY <1>3, <1>6
  <1>8. f[s] = p[x] + f[s \ {x}]
    BY <1>3 DEF AddsUpAnyhow
  <1>9. g[s] = f[s]
    BY <1>3, <1>4, <1>7, <1>8
  <1>10. QED
    BY <1>2, <1>9

LEMMA SumEquation ==
  ASSUME NEW S, IsFiniteSet(S), NEW p, \A x \in S : p[x] \in Int
  PROVE  \E g : AddsUp(g, p, S) /\ Sum(p, S) = g[S]
  <1> DEFINE sum[s \in SUBSET S] ==
               IF s = {} THEN 0 ELSE LET code == CHOOSE x \in s : TRUE IN p[code] + sum[s \ {code}]
  <1>1. Sum(p, S) = sum[S]
    BY DEF Sum
  <1>2. PICK f \in [SUBSET S -> Int] : AddsUpAnyhow(f, p, S)
    BY SumExists
  <1>3. f = [s \in SUBSET S |->
               IF s = {} THEN 0
               ELSE LET code == CHOOSE x \in s : TRUE IN p[code] + f[s \ {code}]]
    BY <1>2 DEF AddsUpAnyhow
  <1>4. sum = [s \in SUBSET S |->
                 IF s = {} THEN 0
                 ELSE LET code == CHOOSE x \in s : TRUE IN p[code] + sum[s \ {code}]]
    BY <1>3
  <1> HIDE DEF sum
  <1>5. sum[{}] = 0
    BY <1>4
  <1>6. ASSUME NEW s \in SUBSET S, s # {}
        PROVE  \E x \in s : sum[s] = p[x] + sum[s \ {x}]
    <2> DEFINE x == CHOOSE x \in s : TRUE
    <2>1. x \in s
      BY <1>6
    <2>2. sum[s] = p[x] + sum[s \ {x}]
      BY <1>4, <1>6
    <2> HIDE DEF x
    <2>3. QED
      BY <2>1, <2>2
  <1>7. QED
    BY <1>1, <1>5, <1>6 DEF AddsUp

\* What Sum adds up: nothing to 0, and any element to the sum of the others; and it
\* reads of p only what it has of the set.
LEMMA SumRules ==
  ASSUME NEW S, IsFiniteSet(S), NEW p, \A x \in S : p[x] \in Int
  PROVE  /\ Sum(p, S) \in Int
         /\ S = {} => Sum(p, S) = 0
         /\ \A x \in S : Sum(p, S) = p[x] + Sum(p, S \ {x})
  <1>1. PICK f \in [SUBSET S -> Int] : AddsUpAnyhow(f, p, S)
    BY SumExists
  <1>2. ASSUME NEW R \in SUBSET S PROVE Sum(p, R) = f[R]
    <2>1. IsFiniteSet(R) /\ \A x \in R : p[x] \in Int
      BY FS_Subset
    <2>2. PICK g : AddsUp(g, p, R) /\ Sum(p, R) = g[R]
      BY <2>1, SumEquation
    <2>3. AddsUpAnyhow(f, p, R)
      BY <1>1 DEF AddsUpAnyhow
    <2>4. g[R] = f[R]
      BY <2>1, <2>2, <2>3, SumsAgree
    <2>5. QED
      BY <2>2, <2>4
  <1>3. S \in SUBSET S /\ \A x \in S : S \ {x} \in SUBSET S
    OBVIOUS
  <1>4. QED
    BY <1>1, <1>2, <1>3 DEF AddsUpAnyhow

LEMMA SumOfSame ==
  ASSUME NEW S, IsFiniteSet(S), NEW p, NEW q, \A x \in S : p[x] \in Int /\ q[x] = p[x]
  PROVE  Sum(q, S) = Sum(p, S)
  <1>1. PICK f \in [SUBSET S -> Int] : AddsUpAnyhow(f, p, S)
    BY SumExists
  <1>2. PICK g : AddsUp(g, p, S) /\ Sum(p, S) = g[S]
    BY SumEquation
  <1>3. PICK h : AddsUp(h, q, S) /\ Sum(q, S) = h[S]
    BY SumEquation
  <1>4. g[S] = f[S] /\ h[S] = f[S]
    BY <1>1, <1>2, <1>3, SumsAgree
  <1>5. QED
    BY <1>2, <1>3, <1>4

LEMMA SumOfUnion ==
  ASSUME NEW A, NEW B, IsFiniteSet(A), IsFiniteSet(B), A \cap B = {},
         NEW p, \A x \in A \cup B : p[x] \in Int
  PROVE  Sum(p, A \cup B) = Sum(p, A) + Sum(p, B)
  <1> DEFINE C == {R \in SUBSET B : Sum(p, A \cup R) # Sum(p, A) + Sum(p, R)}
  <1> SUFFICES ASSUME C # {} PROVE FALSE
    OBVIOUS
  <1>1. \A R \in C : IsFiniteSet(R)
    BY FS_Subset
  <1>2. PICK R \in C : \A T \in C : Cardinality(R) <= Cardinality(T)
    <2> HIDE DEF C
    <2>1. QED
      BY <1>1, SmallestSet
  <1>3. R \in SUBSET B /\ IsFiniteSet(R) /\ Sum(p, A \cup R) # Sum(p, A) + Sum(p, R)
    BY <1>1, <1>2
  <1>4. Sum(p, A) \in Int
    BY SumRules
  <1>5. R # {}
    <2> SUFFICES ASSUME R = {} PROVE Sum(p, A \cup R) = Sum(p, A) + Sum(p, R)
      BY <1>3
    <2>1. A \cup R = A
      OBVIOUS
    <2>2. Sum(p, R) = 0
      BY SumRules, FS_EmptySet
    <2>3. QED
      BY <1>4, <2>1, <2>2
  <1>6. PICK x \in R : TRUE
    BY <1>5
  <1>7. Cardinality(R \ {x}) = Cardinality(R) - 1 /\ Cardinality(R) \in Nat
        /\ IsFiniteSet(R \ {x})
    BY <1>3, FS_RemoveElement, FS_CardinalityType
  <1>8. R \ {x} \notin C
    BY <1>2, <1>7
  <1>9. Sum(p, A \cup (R \ {x})) = Sum(p, A) + Sum(p, R \ {x})
    BY <1>3, <1>8
  <1>10. /\ Sum(p, R) = p[x] + Sum(p, R \ {x}) /\ p[x] \in Int
    BY <1>3, SumRules
  <1>11. Sum(p, R \ {x}) \in Int
    BY <1>3, <1>7, SumRules
  <1>12. Sum(p, A \cup R) = p[x] + Sum(p, A \cup (R \ {x}))
    <2>1. IsFiniteSet(A \cup R)
      BY <1>3, FS_Union
    <2>2. Sum(p, A \cup R) = p[x] + Sum(p, (A \cup R) \ {x})
      BY <1>3, <2>1, SumRules
    <2>3. (A \cup R) \ {x} = A \cup (R \ {x})
      BY <1>3
    <2>4. QED
      BY <2>2, <2>3
  <1>13. QED
    BY <1>3, <1>4, <1>9, <1>10, <1>11, <1>12

\* Of two sums over a set the one with the larger terms is larger.
LEMMA SumGrows ==
  ASSUME NEW S, IsFiniteSet(S), NEW p, NEW q,
         \A x \in S : p[x] \in Int /\ q[x] \in Int /\ p[x] <= q[x]
  PROVE  Sum(p, S) <= Sum(q, S)
  <1> DEFINE C == {R \in SUBSET S : ~(Sum(p, R) <= Sum(q, R))}
  <1> SUFFICES ASSUME C # {} PROVE FALSE
    OBVIOUS
  <1>1. \A R \in C : IsFiniteSet(R)
    BY FS_Subset
  <1>2. PICK R \in C : \A T \in C : Cardinality(R) <= Cardinality(T)
    <2> HIDE DEF C
    <2>1. QED
      BY <1>1, SmallestSet
  <1>3. R \in SUBSET S /\ IsFiniteSet(R) /\ ~(Sum(p, R) <= Sum(q, R))
    BY <1>1, <1>2
  <1>4. R # {}
    <2>1. Sum(p, {}) = 0 /\ Sum(q, {}) = 0
      BY SumRules, FS_EmptySet
    <2>2. Sum(p, {}) <= Sum(q, {})
      BY <2>1
    <2>3. QED
      BY <1>3, <2>2, Zenon
  <1>5. PICK x \in R : TRUE
    BY <1>4
  <1>6. Cardinality(R \ {x}) = Cardinality(R) - 1 /\ Cardinality(R) \in Nat
        /\ IsFiniteSet(R \ {x})
    BY <1>3, FS_RemoveElement, FS_CardinalityType
  <1>7. R \ {x} \notin C
    BY <1>2, <1>6
  <1>8. Sum(p, R \ {x}) <= Sum(q, R \ {x})
    BY <1>3, <1>7
  <1>9. Sum(p, R) = p[x] + Sum(p, R \ {x}) /\ Sum(q, R) = q[x] + Sum(q, R \ {x})
    BY <1>3, SumRules
  <1>10. Sum(p, R \ {x}) \in Int /\ Sum(q, R \ {x}) \in Int
    <2>1. \A y \in R \ {x} : p[y] \in Int /\ q[y] \in Int
      BY <1>3
    <2>2. QED
      BY <1>6, <2>1, SumRules
  <1>11. p[x] \in Int /\ q[x] \in Int /\ p[x] <= q[x]
    BY <1>3
  <1>12. QED
    BY <1>3, <1>8, <1>9, <1>10, <1>11

\* A common factor.
LEMMA SumScaled ==
  ASSUME NEW S, IsFiniteSet(S), NEW k \in Int, NEW p, NEW q,
         \A x \in S : p[x] \in Int /\ q[x] = k * p[x]
  PROVE  Sum(q, S) = k * Sum(p, S)
  <1> DEFINE C == {R \in SUBSET S : Sum(q, R) # k * Sum(p, R)}
  <1> SUFFICES ASSUME C # {} PROVE FALSE
    OBVIOUS
  <1>1. \A R \in C : IsFiniteSet(R)
    BY FS_Subset
  <1>2. PICK R \in C : \A T \in C : Cardinality(R) <= Cardinality(T)
    <2> HIDE DEF C
    <2>1. QED
      BY <1>1, SmallestSet
  <1>3. R \in SUBSET S /\ IsFiniteSet(R) /\ Sum(q, R) # k * Sum(p, R)
    BY <1>1, <1>2
  <1>4. R # {}
    <2>1. Sum(p, {}) = 0 /\ Sum(q, {}) = 0
      BY SumRules, FS_EmptySet
    <2>2. k * 0 = 0
      OBVIOUS
    <2>3. QED
      BY <1>3, <2>1, <2>2
  <1>5. PICK x \in R : TRUE
    BY <1>4
  <1>6. Cardinality(R \ {x}) = Cardinality(R) - 1 /\ Cardinality(R) \in Nat
        /\ IsFiniteSet(R \ {x})
    BY <1>3, FS_RemoveElement, FS_CardinalityType
  <1>7. R \ {x} \notin C
    BY <1>2, <1>6
  <1>8. Sum(q, R \ {x}) = k * Sum(p, R \ {x})
    BY <1>3, <1>7
  <1>9. \A y \in S : p[y] \in Int /\ q[y] \in Int /\ q[y] = k * p[y]
    OBVIOUS
  <1>10. Sum(p, R) = p[x] + Sum(p, R \ {x}) /\ Sum(q, R) = q[x] + Sum(q, R \ {x})
    BY <1>3, <1>9, SumRules
  <1>11. Sum(p, R \ {x}) \in Int
    <2>1. \A y \in R \ {x} : p[y] \in Int
      BY <1>3
    <2>2. QED
      BY <1>6, <2>1, SumRules
  <1>12. \A a, b \in Int : k * (a + b) = k * a + k * b
    OBVIOUS
  <1>13. p[x] \in Int /\ q[x] = k * p[x]
    BY <1>3
  <1>14. k * Sum(p, R) = k * p[x] + k * Sum(p, R \ {x})
    BY <1>10, <1>11, <1>12, <1>13
  <1>15. QED
    BY <1>3, <1>8, <1>10, <1>13, <1>14

\* Of a finite set of numbers there is a largest.
LEMMA LargestNumber ==
  ASSUME NEW T \in SUBSET Nat, T # {}, NEW n \in Nat, \A k \in T : k <= n
  PROVE  Max(T) \in T
  <1> DEFINE U == {n - k : k \in T}
  <1>1. U \in SUBSET Nat /\ U # {}
    <2>1. \A k \in T : k \in Nat /\ k <= n
      OBVIOUS
    <2>2. \A k \in T : n - k \in Nat
      BY <2>1
    <2>3. QED
      BY <2>2
  <1>2. PICK m \in U : \A k \in U : m <= k
    BY <1>1, LeastNumber
  <1>3. PICK x \in T : m = n - x
    BY <1>2
  <1>4. \A y \in T : x >= y
    <2> SUFFICES ASSUME NEW y \in T PROVE x >= y
      OBVIOUS
    <2>1. m <= n - y
      BY <1>2
    <2>2. x \in Nat /\ y \in Nat
      OBVIOUS
    <2>3. QED
      BY <1>3, <2>1, <2>2
  <1>5. \E z \in T : \A y \in T : z >= y
    BY <1>4
  <1>6. QED
    BY <1>5 DEF Max

\* What FoldLeft adds up from left to right is the sum over the places.
LEMMA SumOfIsSum ==
  ASSUME NEW n \in Nat, NEW p, DOMAIN p = 1..n, \A i \in 1..n : p[i] \in Int
  PROVE  SumOf(p) = Sum(p, 1..n)
  <1> DEFINE S == 1..n
             iter[s \in SUBSET S] ==
               IF s = {} THEN 0 ELSE LET x == Max(s) IN iter[s \ {x}] + p[x]
  <1>1. SumOf(p) = iter[S]
    BY DEF SumOf, FoldLeft, MapThenFoldSet
  <1>2. IsFiniteSet(S)
    BY FS_Interval
  <1>3. PICK f \in [SUBSET S -> Int] : AddsUpAnyhow(f, p, S)
    BY <1>2, SumExists
  <1>4. \A s \in SUBSET S : s # {} => Max(s) \in s
    <2> SUFFICES ASSUME NEW s \in SUBSET S, s # {} PROVE Max(s) \in s
      OBVIOUS
    <2>1. s \in SUBSET Nat /\ \A k \in s : k <= n
      OBVIOUS
    <2>2. QED
      BY <2>1, LargestNumber
  <1>5. f = [s \in SUBSET S |->
               IF s = {} THEN 0 ELSE LET x == Max(s) IN f[s \ {x}] + p[x]]
    <2>1. ASSUME NEW s \in SUBSET S
          PROVE  f[s] = IF s = {} THEN 0 ELSE LET x == Max(s) IN f[s \ {x}] + p[x]
      <3>1. CASE s = {}
        BY <1>3, <3>1 DEF AddsUpAnyhow
      <3>2. CASE s # {}
        <4>1. Max(s) \in s
          BY <1>4, <3>2
        <4>2. f[s] = p[Max(s)] + f[s \ {Max(s)}]
          BY <1>3, <4>1 DEF AddsUpAnyhow
        <4>3. s \ {Max(s)} \in SUBSET S
          OBVIOUS
        <4>4. p[Max(s)] \in Int /\ f[s \ {Max(s)}] \in Int
          BY <1>3, <4>1, <4>3
        <4>5. p[Max(s)] + f[s \ {Max(s)}] = f[s \ {Max(s)}] + p[Max(s)]
          BY <4>4
        <4>6. QED
          BY <3>2, <4>2, <4>5, Zenon
      <3>3. QED
        BY <3>1, <3>2
    <2>2. QED
      BY <2>1
  <1>6. iter = [s \in SUBSET S |->
                  IF s = {} THEN 0 ELSE LET x == Max(s) IN iter[s \ {x}] + p[x]]
    BY <1>5
  <1> HIDE DEF iter
  <1>7. iter[{}] = 0
    BY <1>6
  <1> DEFINE C == {s \in SUBSET S : iter[s] # f[s]}
  <1>8. C = {}
    <2> SUFFICES ASSUME C # {} PROVE FALSE
      OBVIOUS
    <2>1. \A s \in C : IsFiniteSet(s)
      BY <1>2, FS_Subset
    <2>2. PICK s \in C : \A t \in C : Cardinality(s) <= Cardinality(t)
      <3> HIDE DEF C
      <3>1. QED
        BY <2>1, SmallestSet
    <2>3. s # {} /\ s \in SUBSET S /\ iter[s] # f[s]
      BY <1>3, <1>7, <2>2 DEF AddsUpAnyhow
    <2>4. Max(s) \in s
      BY <1>4, <2>3
    <2>5. Cardinality(s \ {Max(s)}) = Cardinality(s) - 1 /\ Cardinality(s) \in Nat
      BY <2>1, <2>2, <2>4, FS_RemoveElement, FS_CardinalityType
    <2>6. s \ {Max(s)} \notin C
      BY <2>2, <2>5
    <2>7. iter[s \ {Max(s)}] = f[s \ {Max(s)}]
      BY <2>3, <2>6
    <2>8. iter[s] = iter[s \ {Max(s)}] + p[Max(s)]
      BY <1>6, <2>3
    <2>9. f[s] = f[s \ {Max(s)}] + p[Max(s)]
      BY <1>5, <2>3
    <2>10. QED
      BY <2>3, <2>7, <2>8, <2>9
  <1>9. iter[S] = f[S]
    BY <1>8
  <1>10. PICK g : AddsUp(g, p, S) /\ Sum(p, S) = g[S]
    BY <1>2, SumEquation
  <1>11. \A x \in S : p[x] \in Int /\ p[x] = p[x]
    OBVIOUS
  <1> HIDE DEF S
  <1>12. g[S] = f[S]
    BY <1>2, <1>3, <1>10, <1>11, SumsAgree
  <1>13. QED
    BY <1>1, <1>9, <1>10, <1>12 DEF S

\* Of terms that are not negative the sum is not either.
LEMMA SumNotNegative ==
  ASSUME NEW S, IsFiniteSet(S), NEW p, \A x \in S : p[x] \in Nat
  PROVE  Sum(p, S) \in Nat
  <1> DEFINE zero == [x \in S |-> 0]
  <1>1. \A x \in S : p[x] \in Int /\ zero[x] = 0 * p[x]
    OBVIOUS
  <1>2. Sum(zero, S) = 0 * Sum(p, S) /\ Sum(p, S) \in Int
    BY <1>1, SumScaled, SumRules
  <1>3. \A x \in S : zero[x] \in Int /\ p[x] \in Int /\ zero[x] <= p[x]
    OBVIOUS
  <1> HIDE DEF zero
  <1>4. Sum(zero, S) <= Sum(p, S)
    BY <1>3, SumGrows
  <1>5. QED
    BY <1>2, <1>4

-----------------------------------------------------------------------------
(* What a search leaves of the items that it got. *)

Kept(items) ==
  {i \in DOMAIN items :
     /\ \A j \in 1..(i - 1) : items[j].page # items[i].page
     /\ items[i].titled /\ items[i].content}

ByDate(items) ==
  {p \in Kept(items) \X Kept(items) :
     IF items[p[1]].date = None THEN items[p[2]].date = None /\ p[1] < p[2]
     ELSE \/ items[p[2]].date = None
          \/ items[p[1]].date < items[p[2]].date
          \/ items[p[1]].date = items[p[2]].date /\ p[1] < p[2]}

LEMMA FilterIsRanked ==
  ASSUME NEW items
  PROVE  LET order == Ranked(ByDate(items), Kept(items))
         IN FilterAndSort(items) = [k \in DOMAIN order |-> items[order[k]]]
  <1> DEFINE Before(i, j) ==
               IF items[i].date = None THEN items[j].date = None /\ i < j
               ELSE \/ items[j].date = None \/ items[i].date < items[j].date
                    \/ (items[i].date = items[j].date /\ i < j)
             sorted == [i \in 1..Cardinality(Kept(items)) |->
                          CHOOSE x \in Kept(items) :
                            Cardinality({y \in Kept(items) : Before(y, x)}) = i - 1]
  <1>1. FilterAndSort(items) = [k \in DOMAIN sorted |-> items[sorted[k]]]
    BY DEF FilterAndSort, Sorted, Kept
  <1>2. \A x \in Kept(items) :
          {y \in Kept(items) : Before(y, x)} = Below(ByDate(items), Kept(items), x)
    BY DEF Below, ByDate
  <1>3. sorted = Ranked(ByDate(items), Kept(items))
    <2> HIDE DEF Before
    <2>1. QED
      BY <1>2 DEF Ranked
  <1>4. QED
    BY <1>1, <1>3

LEMMA DatesOrder ==
  ASSUME NEW items \in SearchResults
  PROVE  IsFiniteSet(Kept(items)) /\ StrictOrder(ByDate(items), Kept(items))
  <1> DEFINE n == Len(items)
  <1>1. n \in Nat /\ DOMAIN items = 1..n /\ None \notin Int
        /\ \A i \in 1..n : items[i].date \in Int \cup {None}
    BY ExpertAssumption
  <1>2. Kept(items) \subseteq 1..n
    BY <1>1 DEF Kept
  <1>3. IsFiniteSet(Kept(items))
    <2>1. IsFiniteSet(1..n)
      BY <1>1, FS_Interval
    <2>2. Kept(items) \in SUBSET (1..n)
      BY <1>2
    <2>3. QED
      BY <2>1, <2>2, FS_Subset
  <1> DEFINE date == [i \in 1..n |-> items[i].date]
             R == ByDate(items)
  <1>4. \A i, j \in Kept(items) :
          <<i, j>> \in R <=> IF date[i] = None THEN date[j] = None /\ i < j
                             ELSE \/ date[j] = None
                                  \/ date[i] < date[j]
                                  \/ date[i] = date[j] /\ i < j
    BY <1>1, <1>2 DEF ByDate
  <1>5. R \subseteq Kept(items) \X Kept(items)
    BY DEF ByDate
  <1>6. \A i \in Kept(items) : i \in Int /\ date[i] \in Int \cup {None}
    BY <1>1, <1>2
  <1> HIDE DEF date, R, n
  <1>7. \A x \in Kept(items) : <<x, x>> \notin R
    BY <1>1, <1>4, <1>6
  <1>8. \A x, y, z \in Kept(items) : <<x, y>> \in R /\ <<y, z>> \in R => <<x, z>> \in R
    <2> SUFFICES ASSUME NEW x \in Kept(items), NEW y \in Kept(items), NEW z \in Kept(items),
                        <<x, y>> \in R, <<y, z>> \in R
                 PROVE  <<x, z>> \in R
      OBVIOUS
    <2>1. CASE date[x] = None
      BY <1>1, <1>4, <1>6, <2>1
    <2>2. CASE date[x] # None /\ date[z] = None
      BY <1>4, <2>2
    <2>3. CASE date[x] # None /\ date[z] # None
      <3>1. date[y] # None
        BY <1>4, <2>3
      <3>2. date[x] \in Int /\ date[y] \in Int /\ date[z] \in Int
        BY <1>6, <2>3, <3>1
      <3>3. QED
        BY <1>4, <1>6, <2>3, <3>1, <3>2
    <2>4. QED
      BY <2>1, <2>2, <2>3
  <1>9. \A x, y \in Kept(items) : x # y => <<x, y>> \in R \/ <<y, x>> \in R
    <2> SUFFICES ASSUME NEW x \in Kept(items), NEW y \in Kept(items), x # y
                 PROVE  <<x, y>> \in R \/ <<y, x>> \in R
      OBVIOUS
    <2>1. CASE date[x] = None \/ date[y] = None
      BY <1>4, <1>6, <2>1
    <2>2. CASE date[x] # None /\ date[y] # None
      <3>1. date[x] \in Int /\ date[y] \in Int
        BY <1>6, <2>2
      <3>2. QED
        BY <1>4, <1>6, <2>2, <3>1
    <2>3. QED
      BY <2>1, <2>2
  <1>10. QED
    BY <1>3, <1>7, <1>8, <1>9 DEF StrictOrder, R

\* Items with title and content, one of a page, the undated at the end.
IsFiltered(found) ==
  \A i \in DOMAIN found :
    /\ found[i].titled /\ found[i].content
    /\ \A j \in i+1..Len(found) : /\ found[i].page # found[j].page
                                  /\ found[i].date = None => found[j].date = None

LEMMA FilterFilters ==
  ASSUME NEW items \in SearchResults
  PROVE  /\ IsFiltered(FilterAndSort(items))
         /\ FilterAndSort(items) # <<>> => DOMAIN FilterAndSort(items) # {}
  <1> DEFINE n == Cardinality(Kept(items))
             order == Ranked(ByDate(items), Kept(items))
             found == FilterAndSort(items)
  <1>1. /\ n \in Nat /\ order \in [1..n -> Kept(items)]
        /\ \A i, j \in 1..n : i < j => <<order[i], order[j]>> \in ByDate(items)
    BY DatesOrder, RankedSorts
  <1>2. found = [k \in 1..n |-> items[order[k]]]
    BY <1>1, FilterIsRanked
  <1>3. /\ Kept(items) \subseteq 1..Len(items) /\ Len(items) \in Nat /\ None \notin Int
        /\ \A k \in Kept(items) : items[k].date \in Int \cup {None}
    BY ExpertAssumption DEF Kept
  <1> HIDE DEF found, order, n
  <1>4. ASSUME NEW i \in 1..n, NEW j \in 1..n, i < j
        PROVE  /\ found[i].page # found[j].page
               /\ found[i].date = None => found[j].date = None
    <2> DEFINE x == order[i]  y == order[j]
    <2>1. x \in Kept(items) /\ y \in Kept(items) /\ found[i] = items[x] /\ found[j] = items[y]
      BY <1>1, <1>2
    <2>2. <<x, y>> \in ByDate(items)
      BY <1>1, <1>4
    <2> HIDE DEF x, y
    <2>3. IF items[x].date = None THEN items[y].date = None /\ x < y
          ELSE \/ items[y].date = None
               \/ items[x].date < items[y].date
               \/ items[x].date = items[y].date /\ x < y
      BY <2>2 DEF ByDate
    <2>4. x # y
      <3>1. StrictOrder(ByDate(items), Kept(items))
        BY DatesOrder
      <3>2. QED
        BY <2>1, <2>2, <3>1 DEF StrictOrder
    <2>5. items[x].page # items[y].page
      <3>1. CASE x < y
        BY <1>3, <2>1, <3>1 DEF Kept
      <3>2. CASE y < x
        BY <1>3, <2>1, <3>2 DEF Kept
      <3>3. QED
        BY <1>3, <2>1, <2>4, <3>1, <3>2
    <2>6. items[x].date = None => items[y].date = None
      BY <2>3
    <2>7. QED
      BY <2>1, <2>5, <2>6
  <1>5. IsFiltered(found)
    <2>1. DOMAIN found = 1..n /\ Len(found) = n
      BY <1>1, <1>2, LenProperties
    <2>2. \A i \in 1..n : found[i].titled /\ found[i].content
      BY <1>1, <1>2 DEF Kept
    <2>3. QED
      BY <1>1, <1>4, <2>1, <2>2 DEF IsFiltered
  <1>6. found # <<>> => DOMAIN found # {}
    <2>1. CASE n = 0
      <3>1. 1..n = {} /\ <<>> \in Seq({}) /\ Len(<<>>) = 0
        BY <2>1, EmptySeq
      <3>2. DOMAIN <<>> = {}
        BY EmptySeq
      <3>3. found = <<>>
        BY <1>2, <3>1, <3>2
      <3>4. QED
        BY <3>3
    <2>2. CASE n # 0
      BY <1>1, <1>2, <2>2
    <2>3. QED
      BY <2>1, <2>2
  <1>7. QED
    BY <1>5, <1>6 DEF found

-----------------------------------------------------------------------------
(* The inquiry.  A step that asks the model has read what its expert needs.   *)

Findings == {FilterAndSort(items) : items \in SearchResults} \cup {<<>>}

ItemsOf(found) == UNION {ToSet(found[d]) : d \in DOMAIN found}

\* What a result stands on.
Grounded(q) ==
  CASE q.expert = "technical" -> Len(q.bars) >= MinBars
    [] q.expert = "auditor" -> Len(q.records) \in 1..q.limit
    [] q.expert = "valuation" -> q.records # <<>> /\ q.info.traded
    [] OTHER -> q.info # NoStock /\ ItemsOf(q.found) # {} /\ Len(q.found) = SearchDimensions

\* What has been read at each step.
ReadSoFar(q) ==
  /\ q.step = "bars" => q.expert = "technical"
  /\ q.step = "records" => \/ q.expert = "auditor" /\ q.limit \in 1..20
                           \/ q.expert = "valuation" /\ q.info.traded /\ q.limit = 8
  /\ q.step = "history" => q.expert = "valuation" /\ q.info.traded /\ q.limit = 8
  /\ q.step = "info" => /\ q.expert \in {"valuation", "macro", "catalyst"}
                        /\ q.found = <<>> /\ q.limit = 8
  /\ q.step = "search" => /\ q.expert \in {"macro", "catalyst"} /\ q.info # NoStock
                          /\ Len(q.found) < SearchDimensions
  /\ q.step = "model" => Grounded(q)
  /\ q.step = "idle" => q.found = <<>>
  /\ q.step \notin {"idle", "bars", "info", "history", "records", "search", "model"}
       => q.step = "done"

\* What has been answered.
AnswerStands(q) ==
  q.answer \in {"result", "placeholder"} =>
    /\ q.step = "done" /\ Grounded(q)
    /\ q.expert = "auditor" /\ q.answer = "result" => q.signal = ScoreToSignal(q.score)

InquiryHolds(q) ==
  /\ DOMAIN q = DOMAIN NoInquiry
  /\ q.expert \in ExpertKinds /\ q.found \in Seq(Findings)
  /\ ReadSoFar(q) /\ AnswerStands(q)

LEMMA InquiryInit == ExpertInit => InquiryHolds(inquiry)
  <1>1. <<>> \in Seq(Findings)
    BY EmptySeq
  <1>2. QED
    BY <1>1 DEF ExpertInit, InquiryHolds, NoInquiry, ExpertKinds, ReadSoFar, AnswerStands

\* An error ends an inquiry anywhere.
LEMMA RefusedHolds ==
  ASSUME InquiryHolds(inquiry), NEW reply, reply \notin {"result", "placeholder"},
         NEW q, q = [inquiry EXCEPT !.step = "done", !.answer = reply]
  PROVE  InquiryHolds(q)
  <1>1. /\ DOMAIN q = DOMAIN NoInquiry /\ q.step = "done" /\ q.answer = reply
        /\ q.expert = inquiry.expert /\ q.found = inquiry.found
    BY DEF InquiryHolds, NoInquiry
  <1>2. QED
    BY <1>1 DEF InquiryHolds, ReadSoFar, AnswerStands

LEMMA RefusalHolds ==
  ASSUME InquiryHolds(inquiry), NEW code \in {"400", "422", "500"}, Refused(code)
  PROVE  InquiryHolds(inquiry')
  <1>1. PICK reply \in {"400", "422", "500", "raised"} :
          inquiry' = [inquiry EXCEPT !.step = "done", !.answer = reply]
    BY DEF Refused, InquiryEnds
  <1>2. QED
    BY <1>1, RefusedHolds

LEMMA AskHolds ==
  ASSUME InquiryHolds(inquiry), NEW e \in ExpertKinds, NEW c \in {"rest", "coordinator"},
         NEW n \in {0, 2, 8, 21}, Ask(e, c, n) \/ AskWrongly(e, c, n)
  PROVE  InquiryHolds(inquiry')
  <1>1. CASE Ask(e, c, n)
    <2>1. inquiry' = [inquiry EXCEPT !.expert = e, !.caller = c,
                        !.limit = IF e = "auditor" THEN n ELSE 8, !.step = FirstStep(e)]
          /\ inquiry.step = "idle" /\ n \in 1..20
      BY <1>1 DEF Ask
    <2>2. /\ DOMAIN inquiry' = DOMAIN NoInquiry /\ inquiry'.expert = e
          /\ inquiry'.step = FirstStep(e) /\ inquiry'.found = inquiry.found
          /\ inquiry'.limit = (IF e = "auditor" THEN n ELSE 8)
          /\ inquiry'.answer = inquiry.answer
      BY <2>1 DEF InquiryHolds, NoInquiry
    <2>3. inquiry.found = <<>> /\ inquiry.answer \notin {"result", "placeholder"}
      BY <2>1 DEF InquiryHolds, ReadSoFar, AnswerStands
    <2>4. ReadSoFar(inquiry')
      BY <2>1, <2>2, <2>3 DEF ReadSoFar, FirstStep, ExpertKinds
    <2>5. QED
      BY <2>2, <2>3, <2>4 DEF InquiryHolds, AnswerStands
  <1>2. CASE AskWrongly(e, c, n)
    <2>1. PICK reply \in {"raised", "422", "400"} :
            inquiry' = [inquiry EXCEPT !.expert = e, !.caller = c, !.step = "done",
                                       !.answer = reply]
      BY <1>2 DEF AskWrongly
    <2>2. /\ DOMAIN inquiry' = DOMAIN NoInquiry /\ inquiry'.step = "done"
          /\ inquiry'.expert = e /\ inquiry'.found = inquiry.found /\ inquiry'.answer = reply
      BY <2>1 DEF InquiryHolds, NoInquiry
    <2>3. QED
      BY <2>2 DEF InquiryHolds, ReadSoFar, AnswerStands
  <1>3. QED
    BY <1>1, <1>2

LEMMA BarsHold ==
  ASSUME InquiryHolds(inquiry), NEW bars \in BarLists, ReadYearOfBars(bars)
  PROVE  InquiryHolds(inquiry')
  <1>1. CASE Len(bars) < MinBars
    BY <1>1, RefusalHolds DEF ReadYearOfBars
  <1>2. CASE ~(Len(bars) < MinBars)
    <2>1. inquiry' = [inquiry EXCEPT !.bars = bars, !.step = "model"] /\ inquiry.step = "bars"
      BY <1>2 DEF ReadYearOfBars
    <2>2. /\ DOMAIN inquiry' = DOMAIN NoInquiry /\ inquiry'.step = "model"
          /\ inquiry'.bars = bars /\ inquiry'.expert = inquiry.expert
          /\ inquiry'.found = inquiry.found /\ inquiry'.answer = inquiry.answer
      BY <2>1 DEF InquiryHolds, NoInquiry
    <2>3. inquiry.expert = "technical" /\ inquiry.answer \notin {"result", "placeholder"}
      BY <2>1 DEF InquiryHolds, ReadSoFar, AnswerStands
    <2>4. Grounded(inquiry')
      BY <1>2, <2>2, <2>3, ExpertAssumption DEF Grounded
    <2>5. QED
      BY <2>2, <2>3, <2>4 DEF InquiryHolds, ReadSoFar, AnswerStands
  <1>3. QED
    BY <1>1, <1>2

\* The reports that are read: at least one, at most as many as were asked for.
LEMMA RecentBounded ==
  ASSUME NEW table \in Statements, NEW limit \in Nat \ {0}, Recent(table, limit) # <<>>
  PROVE  Len(Recent(table, limit)) \in 1..limit
  <1> DEFINE S == DOMAIN table
             quarters == Sorted(S, LAMBDA a, b : a > b)
             m == IF Cardinality(S) < limit THEN Cardinality(S) ELSE limit
             reports == Recent(table, limit)
  <1>1. Cardinality(S) \in Nat
    BY ExpertAssumption, FS_CardinalityType
  <1>2. \E f : quarters = [i \in 1..Cardinality(S) |-> f[i]]
    <2>1. quarters = [i \in 1..Cardinality(S) |->
                        CHOOSE x \in S : Cardinality({y \in S : y > x}) = i - 1]
      BY DEF Sorted
    <2>2. quarters = [i \in 1..Cardinality(S) |-> quarters[i]]
      BY <2>1
    <2>3. QED
      BY <2>2
  <1>3. FirstOf(quarters, limit) = SubSeq(quarters, 1, IF Len(quarters) < limit
                                                       THEN Len(quarters) ELSE limit)
    BY DEF FirstOf
  <1>4. reports = [i \in DOMAIN FirstOf(quarters, limit) |->
                     [quarter |-> quarters[i], figures |-> table[quarters[i]]]]
    BY DEF Recent
  <1> HIDE DEF quarters, S
  <1>5. /\ quarters \in Seq({quarters[i] : i \in 1..Cardinality(S)})
        /\ Len(quarters) = Cardinality(S)
    <2>1. quarters \in [1..Cardinality(S) -> {quarters[i] : i \in 1..Cardinality(S)}]
      BY <1>2
    <2>2. QED
      BY <1>1, <2>1, IsASeq, LenProperties
  <1>6. DOMAIN FirstOf(quarters, limit) = 1..m /\ m \in 0..limit
    BY <1>1, <1>3, <1>5, SubSeqProperties
  <1> HIDE DEF m, reports
  <1>7. reports \in [1..m -> {reports[i] : i \in 1..m}]
    BY <1>4, <1>6
  <1>8. reports \in Seq({reports[i] : i \in 1..m}) /\ Len(reports) = m
    BY <1>6, <1>7, IsASeq, LenProperties
  <1>9. m # 0
    BY <1>8, EmptySeq DEF reports
  <1>10. QED
    BY <1>6, <1>8, <1>9 DEF reports

LEMMA RecordsHold ==
  ASSUME InquiryHolds(inquiry), NEW table \in Statements, ReadRecords(table)
  PROVE  InquiryHolds(inquiry')
  <1> DEFINE reports == Recent(table, IF inquiry.expert = "auditor" THEN inquiry.limit ELSE 8)
  <1>1. inquiry.step = "records"
    BY DEF ReadRecords
  <1>2. CASE reports = <<>>
    BY <1>2, RefusalHolds DEF ReadRecords
  <1>3. CASE reports # <<>>
    <2>1. inquiry' = [inquiry EXCEPT !.records = reports, !.step = "model"]
      BY <1>3 DEF ReadRecords
    <2>2. \/ inquiry.expert = "auditor" /\ Len(reports) \in 1..inquiry.limit
          \/ inquiry.expert = "valuation" /\ inquiry.info.traded
      BY <1>1, <1>3, RecentBounded DEF InquiryHolds, ReadSoFar
    <2> HIDE DEF reports
    <2>3. /\ DOMAIN inquiry' = DOMAIN NoInquiry /\ inquiry'.step = "model"
          /\ inquiry'.records = reports /\ inquiry'.expert = inquiry.expert
          /\ inquiry'.found = inquiry.found /\ inquiry'.answer = inquiry.answer
          /\ inquiry'.limit = inquiry.limit /\ inquiry'.info = inquiry.info
      BY <2>1 DEF InquiryHolds, NoInquiry
    <2>4. inquiry.answer \notin {"result", "placeholder"}
      BY <1>1 DEF InquiryHolds, AnswerStands
    <2>5. Grounded(inquiry')
      BY <1>3, <2>2, <2>3 DEF Grounded
    <2>6. QED
      BY <2>3, <2>4, <2>5 DEF InquiryHolds, ReadSoFar, AnswerStands
  <1>4. QED
    BY <1>2, <1>3

LEMMA InfoHolds ==
  ASSUME InquiryHolds(inquiry), NEW info \in Infos, ReadInfo(info)
  PROVE  InquiryHolds(inquiry')
  <1> DEFINE none == info = NoStock \/ (inquiry.expert = "valuation" /\ ~info.traded)
  <1>1. inquiry.step = "info"
    BY DEF ReadInfo
  <1>2. CASE none
    BY <1>2, RefusalHolds DEF ReadInfo
  <1>3. CASE ~none
    <2>1. inquiry' = [inquiry EXCEPT !.info = info,
                        !.step = IF inquiry.expert = "valuation" THEN "history" ELSE "search"]
      BY <1>3 DEF ReadInfo
    <2>2. /\ DOMAIN inquiry' = DOMAIN NoInquiry
          /\ inquiry'.step = (IF inquiry.expert = "valuation" THEN "history" ELSE "search")
          /\ inquiry'.info = info /\ inquiry'.expert = inquiry.expert
          /\ inquiry'.found = inquiry.found /\ inquiry'.answer = inquiry.answer
          /\ inquiry'.limit = inquiry.limit
      BY <2>1 DEF InquiryHolds, NoInquiry
    <2>3. /\ inquiry.expert \in {"valuation", "macro", "catalyst"}
          /\ inquiry.found = <<>> /\ inquiry.limit = 8
          /\ inquiry.answer \notin {"result", "placeholder"}
      BY <1>1 DEF InquiryHolds, ReadSoFar, AnswerStands
    <2>4. Len(inquiry'.found) < SearchDimensions
      <3>1. Len(<<>>) = 0
        BY EmptySeq
      <3>2. QED
        BY <2>2, <2>3, <3>1, ExpertAssumption
    <2>5. CASE inquiry.expert = "valuation"
      BY <1>3, <2>2, <2>3, <2>5 DEF InquiryHolds, ReadSoFar, AnswerStands
    <2>6. CASE inquiry.expert # "valuation"
      BY <1>3, <2>2, <2>3, <2>4, <2>6 DEF InquiryHolds, ReadSoFar, AnswerStands
    <2>7. QED
      BY <2>5, <2>6
  <1>4. QED
    BY <1>2, <1>3

LEMMA HistoryHolds ==
  ASSUME InquiryHolds(inquiry), NEW history \in PeHistories, ReadHistory(history)
  PROVE  InquiryHolds(inquiry')
  <1>1. inquiry.step = "history"
        /\ inquiry' = [inquiry EXCEPT !.history = history, !.step = "records"]
    BY DEF ReadHistory
  <1>2. /\ DOMAIN inquiry' = DOMAIN NoInquiry /\ inquiry'.step = "records"
        /\ inquiry'.info = inquiry.info /\ inquiry'.expert = inquiry.expert
        /\ inquiry'.found = inquiry.found /\ inquiry'.answer = inquiry.answer
        /\ inquiry'.limit = inquiry.limit
    BY <1>1 DEF InquiryHolds, NoInquiry
  <1>3. inquiry.answer \notin {"result", "placeholder"}
    BY <1>1 DEF InquiryHolds, AnswerStands
  <1>4. QED
    BY <1>1, <1>2, <1>3 DEF InquiryHolds, ReadSoFar, AnswerStands

LEMMA SearchedHolds ==
  ASSUME InquiryHolds(inquiry), inquiry.step = "search", NEW more \in Findings,
         Searched(Append(inquiry.found, more))
  PROVE  InquiryHolds(inquiry')
  <1> DEFINE found == Append(inquiry.found, more)
  <1>1. /\ inquiry.found \in Seq(Findings) /\ inquiry.expert \in {"macro", "catalyst"}
        /\ inquiry.info # NoStock /\ Len(inquiry.found) < SearchDimensions
        /\ inquiry.answer \notin {"result", "placeholder"}
    BY DEF InquiryHolds, ReadSoFar, AnswerStands
  <1>2. found \in Seq(Findings) /\ Len(found) = Len(inquiry.found) + 1
    BY <1>1, AppendProperties
  <1> HIDE DEF found
  <1>3. Len(found) <= SearchDimensions /\ DOMAIN found = 1..Len(found) /\ Len(found) \in Nat
    BY <1>1, <1>2, LenProperties, ExpertAssumption
  <1>4. CASE Len(found) < SearchDimensions
    <2>1. inquiry' = [inquiry EXCEPT !.found = found]
      BY <1>4 DEF Searched, found
    <2>2. /\ DOMAIN inquiry' = DOMAIN NoInquiry /\ inquiry'.step = "search"
          /\ inquiry'.info = inquiry.info /\ inquiry'.expert = inquiry.expert
          /\ inquiry'.found = found /\ inquiry'.answer = inquiry.answer
      BY <2>1 DEF InquiryHolds, NoInquiry
    <2>3. QED
      BY <1>1, <1>2, <1>4, <2>2 DEF InquiryHolds, ReadSoFar, AnswerStands
  <1>5. CASE ~(Len(found) < SearchDimensions) /\ \A d \in DOMAIN found : found[d] = <<>>
    <2>1. Refused("400")
      BY <1>5 DEF Searched, found
    <2>2. QED
      BY <2>1, RefusalHolds
  <1>6. CASE ~(Len(found) < SearchDimensions) /\ \E d \in DOMAIN found : found[d] # <<>>
    <2>1. inquiry' = [inquiry EXCEPT !.found = found, !.step = "model"]
      BY <1>6 DEF Searched, found
    <2>2. /\ DOMAIN inquiry' = DOMAIN NoInquiry /\ inquiry'.step = "model"
          /\ inquiry'.info = inquiry.info /\ inquiry'.expert = inquiry.expert
          /\ inquiry'.found = found /\ inquiry'.answer = inquiry.answer
      BY <2>1 DEF InquiryHolds, NoInquiry
    <2>3. ItemsOf(found) # {}
      <3>1. PICK d \in DOMAIN found : found[d] # <<>>
        BY <1>6
      <3>2. found[d] \in Findings
        BY <1>2, <1>3, <3>1, ElementOfSeq
      <3>3. DOMAIN found[d] # {}
        BY <3>1, <3>2, FilterFilters DEF Findings
      <3>4. QED
        <4>1. PICK k : k \in DOMAIN found[d]
          BY <3>3
        <4>2. found[d][k] \in ToSet(found[d])
          BY <4>1 DEF ToSet
        <4>3. QED
          BY <3>1, <4>2 DEF ItemsOf
    <2>4. Grounded(inquiry')
      BY <1>1, <1>3, <1>6, <2>2, <2>3, ExpertAssumption DEF Grounded
    <2>5. QED
      BY <1>1, <1>2, <2>2, <2>4 DEF InquiryHolds, ReadSoFar, AnswerStands
  <1>7. QED
    BY <1>4, <1>5, <1>6

LEMMA ModelHolds ==
  ASSUME InquiryHolds(inquiry),
         \/ \E score \in Scores : ModelAnswers(score)
         \/ ModelAnswersBadly \/ ModelRaises
  PROVE  InquiryHolds(inquiry')
  <1>1. inquiry.step = "model" /\ Grounded(inquiry)
    BY DEF ModelAnswers, ModelAnswersBadly, ModelRaises, InquiryHolds, ReadSoFar
  <1>2. ASSUME NEW score \in Scores, ModelAnswers(score) PROVE InquiryHolds(inquiry')
    <2>1. PICK s, signal :
            /\ inquiry' = [inquiry EXCEPT !.step = "done", !.answer = "result", !.score = s,
                                          !.signal = signal]
            /\ inquiry.expert = "auditor" => signal = ScoreToSignal(s)
      BY <1>2 DEF ModelAnswers
    <2>2. /\ DOMAIN inquiry' = DOMAIN NoInquiry /\ inquiry'.step = "done"
          /\ inquiry'.expert = inquiry.expert /\ inquiry'.found = inquiry.found
          /\ inquiry'.bars = inquiry.bars /\ inquiry'.records = inquiry.records
          /\ inquiry'.limit = inquiry.limit /\ inquiry'.info = inquiry.info
          /\ inquiry'.score = s /\ inquiry'.signal = signal
      BY <2>1 DEF InquiryHolds, NoInquiry
    <2>3. Grounded(inquiry')
      BY <1>1, <2>2 DEF Grounded
    <2>4. QED
      BY <2>1, <2>2, <2>3 DEF InquiryHolds, ReadSoFar, AnswerStands
  <1>3. CASE ModelAnswersBadly
    <2>1. CASE Refused("422")
      BY <2>1, RefusalHolds
    <2>2. CASE inquiry.expert = "macro"
                 /\ inquiry' = [inquiry EXCEPT !.step = "done", !.answer = "placeholder"]
      <3>1. /\ DOMAIN inquiry' = DOMAIN NoInquiry /\ inquiry'.step = "done"
            /\ inquiry'.expert = "macro" /\ inquiry'.found = inquiry.found
            /\ inquiry'.info = inquiry.info
        BY <2>2 DEF InquiryHolds, NoInquiry
      <3>2. Grounded(inquiry')
        BY <1>1, <2>2, <3>1 DEF Grounded
      <3>3. QED
        BY <3>1, <3>2 DEF InquiryHolds, ReadSoFar, AnswerStands, ExpertKinds
    <2>3. CASE inquiry' = [inquiry EXCEPT !.step = "done", !.answer = "500"]
      BY <2>3, RefusedHolds
    <2>4. QED
      BY <1>3, <2>1, <2>2, <2>3 DEF ModelAnswersBadly, InquiryEnds
  <1>4. CASE ModelRaises
    BY <1>4, RefusalHolds DEF ModelRaises
  <1>5. QED
    BY <1>2, <1>3, <1>4

LEMMA InquiryNext == InquiryHolds(inquiry) /\ [ExpertNext]_inquiry => InquiryHolds(inquiry')
  <1> SUFFICES ASSUME InquiryHolds(inquiry), [ExpertNext]_inquiry PROVE InquiryHolds(inquiry')
    OBVIOUS
  <1>1. CASE ReadRaises
    BY <1>1, RefusalHolds DEF ReadRaises
  <1>2. CASE SearchRaises
    BY <1>2, SearchedHolds DEF SearchRaises, Findings
  <1>3. ASSUME NEW items \in SearchResults, Search(items) PROVE InquiryHolds(inquiry')
    BY <1>3, SearchedHolds DEF Search, Findings
  <1>4. CASE UNCHANGED inquiry
    BY <1>4
  <1>5. (\E e \in ExpertKinds, c \in {"rest", "coordinator"}, n \in {0, 2, 8, 21} :
           Ask(e, c, n) \/ AskWrongly(e, c, n)) => InquiryHolds(inquiry')
    BY AskHolds
  <1>6. /\ (\E bars \in BarLists : ReadYearOfBars(bars)) => InquiryHolds(inquiry')
        /\ (\E table \in Statements : ReadRecords(table)) => InquiryHolds(inquiry')
        /\ (\E info \in Infos : ReadInfo(info)) => InquiryHolds(inquiry')
        /\ (\E history \in PeHistories : ReadHistory(history)) => InquiryHolds(inquiry')
    BY BarsHold, RecordsHold, InfoHolds, HistoryHolds
  <1>7. (\/ \E score \in Scores : ModelAnswers(score)
         \/ ModelAnswersBadly \/ ModelRaises) => InquiryHolds(inquiry')
    BY ModelHolds
  <1>8. QED
    BY <1>1, <1>2, <1>3, <1>4, <1>5, <1>6, <1>7 DEF ExpertNext

InquiryInv == InquiryHolds(inquiry)

LEMMA AlwaysInquiryInv == ExpertSpec => []InquiryInv
  <1>1. ExpertInit => InquiryInv
    BY InquiryInit DEF InquiryInv
  <1>2. InquiryInv /\ [ExpertNext]_inquiry => InquiryInv'
    BY InquiryNext DEF InquiryInv
  <1>3. QED
    BY <1>1, <1>2, PTL DEF ExpertSpec

\* No expert answers about a stock of which it has not read what it needs, whatever
\* reads, searches and the model raise and whoever asks; and the auditor's signal
\* is that of its score.
THEOREM ResultsAreGrounded == ExpertSpec => []ResultIsGrounded
  <1>1. InquiryInv => ResultIsGrounded
    <2> SUFFICES ASSUME InquiryInv, inquiry.answer \in {"result", "placeholder"}
                 PROVE  ResultIsGrounded
      BY DEF ResultIsGrounded
    <2>1. Grounded(inquiry) /\ inquiry.expert \in ExpertKinds
      BY DEF InquiryInv, InquiryHolds, AnswerStands
    <2>2. inquiry.expert = "auditor" /\ inquiry.answer = "result"
            => inquiry.signal = ScoreToSignal(inquiry.score)
      BY DEF InquiryInv, InquiryHolds, AnswerStands
    <2>3. Found = ItemsOf(inquiry.found)
      BY DEF Found, ItemsOf
    <2>4. QED
      BY <2>1, <2>2, <2>3 DEF ResultIsGrounded, Grounded
  <1>2. QED
    BY <1>1, AlwaysInquiryInv, PTL

\* filter_and_sort keeps one item of a page and sorts the dated before the undated,
\* for every list of items: the sort by rank is total on them.
THEOREM SearchesAreFiltered == ExpertSpec => []SearchesFiltered
  <1>1. InquiryInv => SearchesFiltered
    <2> SUFFICES ASSUME InquiryInv, NEW d \in DOMAIN inquiry.found
                 PROVE  IsFiltered(inquiry.found[d])
      BY DEF SearchesFiltered, IsFiltered
    <2>1. inquiry.found[d] \in Findings
      BY ElementOfSeq, LenProperties DEF InquiryInv, InquiryHolds
    <2>2. IsFiltered(<<>>)
      BY DEF IsFiltered
    <2>3. QED
      BY <2>1, <2>2, FilterFilters DEF Findings
  <1>2. QED
    BY <1>1, AlwaysInquiryInv, PTL

-----------------------------------------------------------------------------
(* The technical snapshot, and what auditor and modeler compute of the reports. *)

LEMMA ShareInBounds ==
  ASSUME NEW g \in Nat, NEW d \in Nat, d # 0, g <= d
  PROVE  (100 * g) \div d \in 0..100
  OBVIOUS

\* With one volume, the greater price weighs at least as much.
LEMMA WeighsMore ==
  ASSUME NEW a \in Int, NEW b \in Int, a <= b, NEW v \in Nat
  PROVE  a * v <= b * v
  OBVIOUS

Quotes == [high : Int, low : Int, close : Int, vol : Nat]

\* What is known of the bars of a stock.
LEMMA BarsAre ==
  ASSUME NEW bars \in BarLists
  PROVE  /\ bars \in Seq(Quotes)
         /\ Len(bars) \in Nat /\ DOMAIN bars = 1..Len(bars)
         /\ \A i \in 1..Len(bars) :
              /\ bars[i] \in Quotes
              /\ bars[i].low <= bars[i].close /\ bars[i].close <= bars[i].high
  <1>1. bars \in Seq(Quotes)
    BY ExpertAssumption DEF Quotes
  <1>2. Len(bars) \in Nat /\ DOMAIN bars = 1..Len(bars)
    BY <1>1, LenProperties
  <1>3. \A i \in 1..Len(bars) : bars[i] \in Quotes
    BY <1>1, ElementOfSeq
  <1>4. QED
    BY <1>1, <1>2, <1>3, ExpertAssumption

\* The last bars of some: bars of the table, the last one among them.
LEMMA WindowOfBars ==
  ASSUME NEW bars \in BarLists, Len(bars) # 0
  PROVE  LET window == LastOf(bars, Lookback) IN
         /\ Len(window) \in Nat /\ DOMAIN window = 1..Len(window)
         /\ window \in Seq(Quotes)
         /\ \A i \in 1..Len(window) :
              /\ window[i] \in Quotes
              /\ window[i].low <= window[i].close /\ window[i].close <= window[i].high
         /\ \E i \in 1..Len(window) : window[i] = bars[Len(bars)]
  <1> DEFINE n == Len(bars)
             m == IF n > Lookback THEN n - Lookback + 1 ELSE 1
             window == SubSeq(bars, m, n)
  <1>1. n \in Nat /\ n # 0 /\ Lookback \in Nat /\ Lookback # 0
    BY BarsAre, ExpertAssumption
  <1>2. m \in 1..n
    BY <1>1
  <1> HIDE DEF m, n
  <1>3. \A i \in m..n : bars[i] \in Quotes
    BY <1>1, <1>2, BarsAre DEF n
  <1>4. /\ window \in Seq(Quotes) /\ Len(window) = n - m + 1
        /\ \A i \in 1..(n - m + 1) : window[i] = bars[m + i - 1]
    BY <1>1, <1>2, <1>3, SubSeqProperties
  <1>5. window = LastOf(bars, Lookback)
    BY DEF LastOf, m, n
  <1> HIDE DEF window
  <1>6. Len(window) \in Nat /\ DOMAIN window = 1..Len(window)
    BY <1>4, LenProperties
  <1>7. \A i \in 1..Len(window) : m + i - 1 \in 1..n
    BY <1>1, <1>2, <1>4
  <1>8. \A i \in 1..Len(window) :
          /\ window[i] \in Quotes
          /\ window[i].low <= window[i].close /\ window[i].close <= window[i].high
    BY <1>4, <1>7, BarsAre DEF n
  <1>9. \E i \in 1..Len(window) : window[i] = bars[n]
    <2>1. n - m + 1 \in 1..(n - m + 1) /\ m + (n - m + 1) - 1 = n
      BY <1>1, <1>2
    <2>2. window[n - m + 1] = bars[n]
      BY <1>4, <2>1
    <2>3. QED
      BY <1>4, <2>1, <2>2
  <1>10. QED
    BY <1>4, <1>5, <1>6, <1>8, <1>9 DEF n

\* The relative strength is the share of the gains in gains and losses.
LEMMA RsiInBounds ==
  ASSUME NEW bars \in BarLists, Len(bars) >= MinBars
  PROVE  Rsi(Closes(bars)) \in 0..100
  <1> DEFINE n == Len(bars)  closes == Closes(bars)  P == RsiPeriod
  <1>1. n \in Nat /\ P \in Nat /\ n > P
    BY BarsAre, ExpertAssumption
  <1>2. closes \in [1..n -> Int]
    BY BarsAre DEF Closes, Quotes
  <1>3. closes \in Seq(Int) /\ Len(closes) = n
    BY <1>1, <1>2, IsASeq, LenProperties
  <1> HIDE DEF n, closes, P
  <1> DEFINE change(k) == closes[Len(closes) - P + k] - closes[Len(closes) - P + k - 1]
             up == [k \in 1..P |-> Positive(change(k))]
             down == [k \in 1..P |-> Positive(-change(k))]
             gain == SumOf(up)  loss == SumOf(down)
  <1>4. Rsi(closes) = IF Len(closes) < P + 1 THEN None
                      ELSE IF loss = 0 THEN 100 ELSE (100 * gain) \div (gain + loss)
    BY DEF Rsi, P
  <1>5. \A k \in 1..P : change(k) \in Int
    BY <1>1, <1>2, <1>3
  <1> HIDE DEF change
  <1>6. \A k \in 1..P : up[k] \in Nat /\ down[k] \in Nat
    BY <1>5 DEF Positive
  <1>7. DOMAIN up = 1..P /\ DOMAIN down = 1..P
    OBVIOUS
  <1> HIDE DEF up, down
  <1>8. IsFiniteSet(1..P)
    BY <1>1, FS_Interval
  <1>9. gain \in Nat
    <2>1. gain = Sum(up, 1..P)
      BY <1>1, <1>6, <1>7, SumOfIsSum
    <2>2. QED
      BY <1>6, <1>8, <2>1, SumNotNegative
  <1>10. loss \in Nat
    <2>1. loss = Sum(down, 1..P)
      BY <1>1, <1>6, <1>7, SumOfIsSum
    <2>2. QED
      BY <1>6, <1>8, <2>1, SumNotNegative
  <1> HIDE DEF gain, loss
  <1>11. CASE loss = 0
    BY <1>1, <1>3, <1>4, <1>11 DEF closes
  <1>12. CASE loss # 0
    <2>1. gain + loss \in Nat /\ gain + loss # 0 /\ gain <= gain + loss
      BY <1>9, <1>10, <1>12
    <2>2. (100 * gain) \div (gain + loss) \in 0..100
      BY <1>9, <2>1, ShareInBounds
    <2>3. QED
      BY <1>1, <1>3, <1>4, <1>12, <2>2 DEF closes
  <1>13. QED
    BY <1>11, <1>12

\* A close above (below) the average of the typical prices is above the least low
\* (below the greatest high): were it not, all typical prices were at least (at most)
\* the close, and so their average.
LEMMA VwapFits ==
  ASSUME NEW bars \in BarLists, Len(bars) # 0, NEW low \in Int, NEW high \in Int,
         \A i \in DOMAIN LastOf(bars, Lookback) :
            low <= LastOf(bars, Lookback)[i].low /\ LastOf(bars, Lookback)[i].high <= high
  PROVE  LET close == bars[Len(bars)].close IN
         /\ PriceVsVwap(bars) = "above" => low < close
         /\ PriceVsVwap(bars) = "below" => close < high
  <1> DEFINE window == LastOf(bars, Lookback)  n == Len(window)
             close == bars[Len(bars)].close
             vols == [i \in DOMAIN window |-> window[i].vol]
             values == [i \in DOMAIN window |->
                          (window[i].high + window[i].low + window[i].close) * window[i].vol]
             floor == [i \in DOMAIN window |-> (3 * close) * vols[i]]
             traded == SumOf(vols)  value == SumOf(values)
  <1>1. /\ n \in Nat /\ DOMAIN window = 1..n
        /\ \A i \in 1..n : /\ window[i] \in Quotes
                           /\ window[i].low <= window[i].close
                           /\ window[i].close <= window[i].high
    BY WindowOfBars
  <1>2. close \in Int
    <2>1. Len(bars) \in 1..Len(bars)
      BY BarsAre
    <2>2. QED
      BY <2>1, BarsAre DEF Quotes
  <1>3. \A i \in 1..n : low <= window[i].low /\ window[i].high <= high
    BY <1>1
  <1>4. PriceVsVwap(bars) = IF traded = 0 \/ value = 0 THEN ""
                            ELSE IF 3 * close * traded > value THEN "above"
                            ELSE IF 3 * close * traded < value THEN "below" ELSE "level"
    BY DEF PriceVsVwap
  <1>5. \A i \in 1..n : vols[i] = window[i].vol /\ vols[i] \in Nat
    BY <1>1 DEF Quotes
  <1>6. \A i \in 1..n : /\ values[i] = (window[i].high + window[i].low + window[i].close) * vols[i]
                        /\ values[i] \in Int
    BY <1>1 DEF Quotes
  <1>7. \A i \in 1..n : floor[i] = (3 * close) * vols[i] /\ floor[i] \in Int
    BY <1>1, <1>2, <1>5
  <1>8. DOMAIN vols = 1..n /\ DOMAIN values = 1..n /\ DOMAIN floor = 1..n
    BY <1>1
  <1> HIDE DEF window, n, close, vols, values, floor
  <1>9. IsFiniteSet(1..n)
    BY <1>1, FS_Interval
  <1>10. traded = Sum(vols, 1..n) /\ value = Sum(values, 1..n)
    BY <1>1, <1>5, <1>6, <1>8, SumOfIsSum
  <1>11. Sum(floor, 1..n) = (3 * close) * traded /\ traded \in Int /\ value \in Int
    <2>1. 3 * close \in Int
      BY <1>2
    <2>2. \A i \in 1..n : vols[i] \in Int
      BY <1>5
    <2>3. Sum(floor, 1..n) = (3 * close) * Sum(vols, 1..n)
      BY <1>7, <1>9, <2>1, <2>2, SumScaled
    <2>4. QED
      BY <1>6, <1>9, <1>10, <2>2, <2>3, SumRules
  <1> HIDE DEF traded, value
  <1>12. ASSUME close <= low PROVE PriceVsVwap(bars) # "above"
    <2>1. ASSUME NEW i \in 1..n PROVE floor[i] <= values[i]
      <3> DEFINE price == window[i].high + window[i].low + window[i].close
      <3>1. /\ window[i].high \in Int /\ window[i].low \in Int /\ window[i].close \in Int
            /\ window[i].low <= window[i].close /\ window[i].close <= window[i].high
            /\ low <= window[i].low
        BY <1>1, <1>3 DEF Quotes
      <3>2. price \in Int /\ 3 * close <= price /\ 3 * close \in Int
        BY <1>2, <1>12, <3>1
      <3>3. values[i] = price * vols[i]
        BY <1>6
      <3> HIDE DEF price
      <3>4. QED
        BY <1>5, <1>7, <3>2, <3>3, WeighsMore
    <2>2. (3 * close) * traded <= value
      BY <1>6, <1>7, <1>9, <1>10, <1>11, <2>1, SumGrows
    <2>3. 3 * close * traded \in Int /\ value \in Int
      BY <1>2, <1>11
    <2>4. ~(3 * close * traded > value)
      BY <2>2, <2>3
    <2>5. QED
      BY <1>4, <2>4
  <1>13. ASSUME high <= close PROVE PriceVsVwap(bars) # "below"
    <2>1. ASSUME NEW i \in 1..n PROVE values[i] <= floor[i]
      <3> DEFINE price == window[i].high + window[i].low + window[i].close
      <3>1. /\ window[i].high \in Int /\ window[i].low \in Int /\ window[i].close \in Int
            /\ window[i].low <= window[i].close /\ window[i].close <= window[i].high
            /\ window[i].high <= high
        BY <1>1, <1>3 DEF Quotes
      <3>2. price \in Int /\ price <= 3 * close /\ 3 * close \in Int
        BY <1>2, <1>13, <3>1
      <3>3. values[i] = price * vols[i]
        BY <1>6
      <3> HIDE DEF price
      <3>4. QED
        BY <1>5, <1>7, <3>2, <3>3, WeighsMore
    <2>2. value <= (3 * close) * traded
      BY <1>6, <1>7, <1>9, <1>10, <1>11, <2>1, SumGrows
    <2>3. 3 * close * traded \in Int /\ value \in Int
      BY <1>2, <1>11
    <2>4. ~(3 * close * traded < value)
      BY <2>2, <2>3
    <2>5. QED
      BY <1>4, <2>4
  <1>14. QED
    BY <1>2, <1>12, <1>13 DEF close

\* The technical snapshot of enough bars.
LEMMA BarsInBounds ==
  ASSUME NEW bars \in BarLists, Len(bars) >= MinBars
  PROVE  LET s == Indicators(bars)  close == bars[Len(bars)].close
         IN /\ s.rsi \in 0..100
            /\ s.support[1] <= close /\ close <= s.resistance[1]
            /\ s.vwap_status = "above" => s.support[1] < close
            /\ s.vwap_status = "below" => close < s.resistance[1]
  <1> DEFINE window == LastOf(bars, Lookback)  n == Len(window)
             lows == {window[i].low : i \in DOMAIN window}
             highs == {window[i].high : i \in DOMAIN window}
             low == FirstOf(Sorted(lows, LAMBDA a, b : a < b), 3)[1]
             high == FirstOf(Sorted(highs, LAMBDA a, b : a > b), 3)[1]
             close == bars[Len(bars)].close
             s == Indicators(bars)
  <1>1. /\ s.rsi = Rsi(Closes(bars)) /\ s.vwap_status = PriceVsVwap(bars)
        /\ s.support[1] = low /\ s.resistance[1] = high
    BY DEF Indicators
  <1>2. Len(bars) # 0
    BY BarsAre, ExpertAssumption
  <1>3. /\ n \in Nat /\ DOMAIN window = 1..n
        /\ \A i \in 1..n : /\ window[i] \in Quotes
                           /\ window[i].low <= window[i].close
                           /\ window[i].close <= window[i].high
        /\ \E i \in 1..n : window[i] = bars[Len(bars)]
    BY <1>2, WindowOfBars
  <1>4. IsFiniteSet(1..n)
    <2>1. n \in Nat
      BY <1>3
    <2> HIDE DEF n, window
    <2>2. QED
      BY <2>1, FS_Interval
  <1>5. IsFiniteSet(lows) /\ lows # {} /\ lows \subseteq Int
    <2>1. lows = {window[i].low : i \in 1..n}
      BY <1>3
    <2>2. lows # {} /\ lows \subseteq Int
      BY <1>3 DEF Quotes
    <2> DEFINE f == [i \in 1..n |-> window[i].low]
    <2>3. f \in Surjection(1..n, lows)
      BY <2>1 DEF Surjection
    <2> HIDE DEF f
    <2>4. IsFiniteSet(lows)
      BY <1>4, <2>3, FS_Surjection
    <2>5. QED
      BY <2>2, <2>4
  <1>6. IsFiniteSet(highs) /\ highs # {} /\ highs \subseteq Int
    <2>1. highs = {window[i].high : i \in 1..n}
      BY <1>3
    <2>2. highs # {} /\ highs \subseteq Int
      BY <1>3 DEF Quotes
    <2> DEFINE f == [i \in 1..n |-> window[i].high]
    <2>3. f \in Surjection(1..n, highs)
      BY <2>1 DEF Surjection
    <2> HIDE DEF f
    <2>4. IsFiniteSet(highs)
      BY <1>4, <2>3, FS_Surjection
    <2>5. QED
      BY <2>2, <2>4
  <1> HIDE DEF lows, highs, s
  <1>7. low \in Int /\ \A x \in lows : low <= x
    BY <1>5, OutermostLevels
  <1>8. high \in Int /\ \A x \in highs : x <= high
    BY <1>6, OutermostLevels
  <1> HIDE DEF low, high
  <1>9. \A i \in 1..n : low <= window[i].low /\ window[i].high <= high
    BY <1>3, <1>7, <1>8 DEF lows, highs
  <1>10. low <= close /\ close <= high
    <2>1. PICK i \in 1..n : window[i] = bars[Len(bars)]
      BY <1>3
    <2>2. /\ window[i].low \in Int /\ window[i].close \in Int /\ window[i].high \in Int
          /\ window[i].low <= window[i].close /\ window[i].close <= window[i].high
      BY <1>3 DEF Quotes
    <2>3. low <= window[i].low /\ window[i].high <= high
      BY <1>9
    <2>4. low <= window[i].close /\ window[i].close <= high
      BY <1>7, <1>8, <2>2, <2>3
    <2>5. QED
      BY <2>1, <2>4
  <1>11. /\ PriceVsVwap(bars) = "above" => low < close
         /\ PriceVsVwap(bars) = "below" => close < high
    BY <1>2, <1>3, <1>7, <1>8, <1>9, VwapFits
  <1>12. Rsi(Closes(bars)) \in 0..100
    BY RsiInBounds
  <1>13. QED
    BY <1>1, <1>10, <1>11, <1>12 DEF s

\* The reports that are read: of different quarters, each with its figures.
AreReports(records) ==
  /\ Len(records) \in Nat /\ DOMAIN records = 1..Len(records)
  /\ \A i \in 1..Len(records) :
       /\ records[i].quarter \in Int /\ records[i].figures.profit \in Int \cup {None}
       /\ \A j \in 1..Len(records) : i # j => records[i].quarter # records[j].quarter

LEMMA NoReports == AreReports(<<>>)
  <1>1. Len(<<>>) = 0 /\ DOMAIN <<>> = 1..0
    BY EmptySeq
  <1>2. QED
    BY <1>1 DEF AreReports

\* What is read of a table, are reports.
LEMMA RecentAreReports ==
  ASSUME NEW table \in Statements, NEW limit \in Nat \ {0}
  PROVE  AreReports(Recent(table, limit))
  <1> DEFINE S == DOMAIN table
             quarters == Sorted(S, LAMBDA a, b : a > b)
             m == IF Len(quarters) < limit THEN Len(quarters) ELSE limit
             reports == Recent(table, limit)
             R == {p \in S \X S : p[1] > p[2]}
  <1>1. IsFiniteSet(S) /\ S \subseteq Int /\ \A q \in S : table[q].profit \in Int \cup {None}
    BY ExpertAssumption
  <1>2. reports = [i \in DOMAIN SubSeq(quarters, 1, m) |->
                     [quarter |-> quarters[i], figures |-> table[quarters[i]]]]
    BY DEF Recent, FirstOf
  <1>3. /\ Cardinality(S) \in Nat /\ quarters \in [1..Cardinality(S) -> S]
        /\ \A i, j \in 1..Cardinality(S) : i < j => <<quarters[i], quarters[j]>> \in R
    <2>1. StrictOrder(R, S)
      BY <1>1, NumbersOrdered
    <2>2. quarters = Ranked(R, S)
      BY SortedIsRanked
    <2> HIDE DEF R, quarters
    <2>3. QED
      BY <1>1, <2>1, <2>2, RankedSorts
  <1>4. \A i, j \in 1..Cardinality(S) : i < j => quarters[i] > quarters[j]
    BY <1>3
  <1> HIDE DEF quarters, S, R
  <1>5. quarters \in Seq(S) /\ Len(quarters) = Cardinality(S)
    BY <1>3, IsASeq, LenProperties
  <1>6. m \in 0..Cardinality(S)
    BY <1>3, <1>5
  <1> HIDE DEF m
  <1>7. DOMAIN SubSeq(quarters, 1, m) = 1..m
    <2>1. \A i \in 1..m : quarters[i] \in S
      BY <1>3, <1>6
    <2>2. SubSeq(quarters, 1, m) \in Seq(S)
          /\ Len(SubSeq(quarters, 1, m)) = IF 1 <= m THEN m - 1 + 1 ELSE 0
      BY <1>6, <2>1, SubSeqProperties
    <2>3. QED
      BY <1>3, <1>6, <2>2, LenProperties
  <1>8. reports = [i \in 1..m |-> [quarter |-> quarters[i], figures |-> table[quarters[i]]]]
    BY <1>2, <1>7
  <1> HIDE DEF reports
  <1>9. reports \in Seq({reports[i] : i \in 1..m}) /\ Len(reports) = m /\ m \in Nat
        /\ DOMAIN reports = 1..m
    <2>1. m \in Nat
      BY <1>3, <1>6
    <2> DEFINE T == {reports[i] : i \in 1..m}
    <2>2. reports \in [1..m -> T]
      BY <1>8
    <2> HIDE DEF T
    <2>3. reports \in Seq(T) /\ DOMAIN reports = 1..m
      BY <2>1, <2>2, IsASeq
    <2>4. Len(reports) = m
      BY <2>1, <2>3, LenProperties
    <2>5. QED
      BY <2>1, <2>3, <2>4 DEF T
  <1>10. ASSUME NEW i \in 1..m
         PROVE  /\ reports[i].quarter \in Int /\ reports[i].figures.profit \in Int \cup {None}
                /\ \A j \in 1..m : i # j => reports[i].quarter # reports[j].quarter
    <2>1. \A j \in 1..m : j \in 1..Cardinality(S) /\ j \in Int /\ quarters[j] \in S
      BY <1>3, <1>6
    <2>2. reports[i].quarter = quarters[i] /\ reports[i].figures = table[quarters[i]]
      BY <1>8
    <2>3. \A j \in 1..m : reports[j].quarter = quarters[j]
      BY <1>8
    <2>4. \A j \in 1..m : quarters[j] \in Int
      BY <1>1, <2>1
    <2>5. \A j \in 1..m : i # j => quarters[i] # quarters[j]
      <3> SUFFICES ASSUME NEW j \in 1..m, i # j PROVE quarters[i] # quarters[j]
        OBVIOUS
      <3>1. i < j \/ j < i
        BY <2>1
      <3>2. quarters[i] > quarters[j] \/ quarters[j] > quarters[i]
        BY <1>4, <2>1, <3>1
      <3>3. QED
        BY <2>4, <3>2
    <2>6. QED
      BY <1>1, <2>1, <2>2, <2>3, <2>4, <2>5
  <1>11. QED
    BY <1>9, <1>10 DEF AreReports, reports

LEMMA GrowthIsNumber ==
  ASSUME NEW new \in Int, NEW old \in Int, old # 0
  PROVE  Growth(new, old) \in Int
  <1>1. CASE old > 0
    BY <1>1 DEF Growth
  <1>2. CASE ~(old > 0)
    <2>1. -old \in Nat /\ -old > 0 /\ (old - new) * 100 \in Int
      BY <1>2
    <2>2. ((old - new) * 100) \div (-old) \in Int
      BY <2>1
    <2>3. QED
      BY <1>2, <2>2 DEF Growth
  <1>3. QED
    BY <1>1, <1>2

\* The report of the same quarter a year before.
PriorOf(records, i) == {j \in DOMAIN records : records[j].quarter = records[i].quarter - 4}

\* Whose growth is known: of both quarters there is a profit, that of the year before
\* not zero.
Computable(records) ==
  {i \in DOMAIN records :
     /\ records[i].figures.profit # None
     /\ \E j \in PriorOf(records, i) : records[j].figures.profit \notin {None, 0}}

RateOf(records, i) ==
  Growth(records[i].figures.profit, records[CHOOSE j \in PriorOf(records, i) : TRUE].figures.profit)

LEMMA RatesAreNumbers ==
  ASSUME NEW records, AreReports(records), NEW i \in Computable(records)
  PROVE  RateOf(records, i) \in Int
  <1> DEFINE j == CHOOSE j \in PriorOf(records, i) : TRUE
  <1>1. PICK k \in PriorOf(records, i) : records[k].figures.profit \notin {None, 0}
    BY DEF Computable
  <1>2. j \in PriorOf(records, i)
    BY <1>1
  <1> HIDE DEF j
  <1>3. j = k
    BY <1>1, <1>2 DEF PriorOf, AreReports
  <1>4. records[i].figures.profit \in Int /\ records[j].figures.profit \in Int \ {0}
    BY <1>1, <1>3 DEF Computable, PriorOf, AreReports
  <1>5. QED
    BY <1>4, GrowthIsNumber DEF RateOf, j

\* The auditor's series has the growths that are known.
LEMMA SeriesIs ==
  ASSUME NEW records, AreReports(records)
  PROVE  LET series == ProfitGrowthSeries(records) IN
         /\ DOMAIN series = DOMAIN records
         /\ \A i \in DOMAIN records :
              series[i] = IF Len(records) < 2 \/ i \notin Computable(records)
                          THEN None ELSE RateOf(records, i)
  <1> DEFINE series == ProfitGrowthSeries(records)
  <1>1. DOMAIN series = DOMAIN records
    BY DEF ProfitGrowthSeries
  <1>2. ASSUME NEW i \in DOMAIN records
        PROVE  series[i] = IF Len(records) < 2 \/ i \notin Computable(records)
                           THEN None ELSE RateOf(records, i)
    <2> DEFINE j == CHOOSE j \in PriorOf(records, i) : TRUE
               new == records[i].figures.profit
               old == records[j].figures.profit
    <2>1. series[i] = IF Len(records) < 2 \/ PriorOf(records, i) = {} THEN None
                      ELSE IF new = None \/ old = None \/ old = 0 THEN None
                      ELSE Growth(new, old)
      BY DEF ProfitGrowthSeries, PriorOf
    <2>2. CASE PriorOf(records, i) = {}
      BY <2>1, <2>2 DEF Computable
    <2>3. CASE PriorOf(records, i) # {}
      <3>1. j \in PriorOf(records, i)
        BY <2>3
      <3>2. RateOf(records, i) = Growth(new, old)
        BY DEF RateOf
      <3> HIDE DEF j
      <3>3. \A k \in PriorOf(records, i) : k = j
        BY <3>1 DEF PriorOf, AreReports
      <3>4. i \in Computable(records) <=> new # None /\ old \notin {None, 0}
        BY <3>1, <3>3 DEF Computable
      <3>5. QED
        BY <2>1, <2>3, <3>2, <3>4
    <2>4. QED
      BY <2>2, <2>3
  <1>3. QED
    BY <1>1, <1>2

\* The modeler's average is over the first four growths that are known.
LEMMA AverageIs ==
  ASSUME NEW records, AreReports(records)
  PROVE  LET first == FirstOf(Sorted(Computable(records), LAMBDA a, b : a < b), 4) IN
         AverageGrowth(records) =
           IF Len(records) < 2 \/ first = <<>> THEN None
           ELSE [sum |-> SumOf([k \in DOMAIN first |-> RateOf(records, first[k])]),
                 count |-> Len(first)]
  <1> DEFINE old(i) == {j \in DOMAIN records : records[j].quarter + 4 = records[i].quarter}
             computable == {i \in DOMAIN records :
                              /\ records[i].figures.profit # None
                              /\ \E j \in old(i) : records[j].figures.profit \notin {None, 0}}
             first == FirstOf(Sorted(computable, LAMBDA a, b : a < b), 4)
             rate(i) == Growth(records[i].figures.profit,
                               records[CHOOSE j \in old(i) : TRUE].figures.profit)
  <1>1. AverageGrowth(records) =
          IF Len(records) < 2 \/ first = <<>> THEN None
          ELSE [sum |-> SumOf([k \in DOMAIN first |-> rate(first[k])]), count |-> Len(first)]
    BY DEF AverageGrowth
  <1>2. \A i \in DOMAIN records : old(i) = PriorOf(records, i)
    BY DEF PriorOf, AreReports
  <1>3. computable = Computable(records)
    BY <1>2 DEF Computable
  <1>4. \A i \in DOMAIN records : rate(i) = RateOf(records, i)
    BY <1>2 DEF RateOf
  <1>5. first = FirstOf(Sorted(Computable(records), LAMBDA a, b : a < b), 4)
    BY <1>3
  <1>6. IsFiniteSet(Computable(records)) /\ Computable(records) \subseteq Int
    <2>1. IsFiniteSet(1..Len(records))
      BY FS_Interval DEF AreReports
    <2>2. Computable(records) \in SUBSET (1..Len(records))
      BY DEF Computable, AreReports
    <2>3. QED
      BY <2>1, <2>2, FS_Subset DEF AreReports
  <1>7. \A k \in DOMAIN first : first[k] \in DOMAIN records
    BY <1>5, <1>6, FirstFour DEF Computable
  <1> HIDE DEF first, rate, computable
  <1>8. [k \in DOMAIN first |-> rate(first[k])] = [k \in DOMAIN first |-> RateOf(records, first[k])]
    BY <1>4, <1>7
  <1>9. QED
    BY <1>1, <1>5, <1>8

LEMMA ComputableFinite ==
  ASSUME NEW records, AreReports(records)
  PROVE  IsFiniteSet(Computable(records)) /\ Computable(records) \subseteq Int
  <1>1. IsFiniteSet(1..Len(records))
    BY FS_Interval DEF AreReports
  <1>2. Computable(records) \in SUBSET (1..Len(records))
    BY DEF Computable, AreReports
  <1>3. QED
    BY <1>1, <1>2, FS_Subset DEF AreReports

\* Auditor and modeler agree.
LEMMA GrowthsAgree ==
  ASSUME NEW records, AreReports(records)
  PROVE  LET series == ProfitGrowthSeries(records)
             known == {i \in DOMAIN series : series[i] # None}
             first == FirstOf(Sorted(known, LAMBDA a, b : a < b), 4)
             average == AverageGrowth(records)
         IN IF known = {} THEN average = None
            ELSE average = [sum |-> SumOf([k \in DOMAIN first |-> series[first[k]]]),
                            count |-> Len(first)]
  <1> DEFINE series == ProfitGrowthSeries(records)
             known == {i \in DOMAIN series : series[i] # None}
             first == FirstOf(Sorted(known, LAMBDA a, b : a < b), 4)
             average == AverageGrowth(records)
  <1>1. /\ DOMAIN series = DOMAIN records
        /\ \A i \in DOMAIN records :
             series[i] = IF Len(records) < 2 \/ i \notin Computable(records)
                         THEN None ELSE RateOf(records, i)
    BY SeriesIs
  <1>2. \A i \in Computable(records) : RateOf(records, i) # None /\ i \in DOMAIN records
    BY RatesAreNumbers, ExpertAssumption DEF Computable
  <1> HIDE DEF series, average
  <1>3. CASE Len(records) < 2
    <2>1. known = {}
      BY <1>1, <1>3
    <2>2. average = None
      BY <1>3, AverageIs DEF average
    <2>3. QED
      BY <2>1, <2>2 DEF series, average
  <1>4. CASE ~(Len(records) < 2)
    <2>1. known = Computable(records)
      BY <1>1, <1>2, <1>4
    <2>2. first = FirstOf(Sorted(Computable(records), LAMBDA a, b : a < b), 4)
      BY <2>1
    <2>3. average = IF first = <<>> THEN None
                    ELSE [sum |-> SumOf([k \in DOMAIN first |-> RateOf(records, first[k])]),
                          count |-> Len(first)]
      BY <1>4, <2>2, AverageIs DEF average
    <2>4. /\ known = {} => first = <<>>
          /\ known # {} => first # <<>>
          /\ \A k \in DOMAIN first : first[k] \in Computable(records)
      BY <2>1, <2>2, ComputableFinite, FirstFour
    <2> HIDE DEF first, known
    <2>5. [k \in DOMAIN first |-> RateOf(records, first[k])]
            = [k \in DOMAIN first |-> series[first[k]]]
      BY <1>1, <1>2, <1>4, <2>4
    <2>6. IF known = {} THEN average = None
          ELSE average = [sum |-> SumOf([k \in DOMAIN first |-> series[first[k]]]),
                          count |-> Len(first)]
      BY <2>3, <2>4, <2>5
    <2>7. QED
      BY <2>6 DEF series, average, known, first
  <1>5. QED
    BY <1>3, <1>4

\* An average that is known is a number over a positive one.
LEMMA AverageIsNumber ==
  ASSUME NEW records, AreReports(records), AverageGrowth(records) # None
  PROVE  AverageGrowth(records).sum \in Int /\ AverageGrowth(records).count \in Nat \ {0}
  <1> DEFINE first == FirstOf(Sorted(Computable(records), LAMBDA a, b : a < b), 4)
             rates == [k \in DOMAIN first |-> RateOf(records, first[k])]
  <1>1. AverageGrowth(records) = [sum |-> SumOf(rates), count |-> Len(first)] /\ first # <<>>
    BY AverageIs
  <1>2. /\ Len(first) \in Nat \ {0} /\ DOMAIN first = 1..Len(first)
        /\ \A k \in 1..Len(first) : first[k] \in Computable(records)
    <2>1. IsFiniteSet(Computable(records)) /\ Computable(records) \subseteq Int
      BY ComputableFinite
    <2>2. /\ Len(first) \in Nat /\ DOMAIN first = 1..Len(first)
          /\ \A k \in 1..Len(first) : first[k] \in Computable(records)
          /\ Computable(records) = {} => first = <<>>
          /\ Computable(records) # {} => Len(first) # 0
      BY <2>1, FirstFour
    <2> HIDE DEF first
    <2>3. QED
      BY <1>1, <2>2
  <1> HIDE DEF first
  <1>3. DOMAIN rates = 1..Len(first) /\ \A k \in 1..Len(first) : rates[k] \in Int
    BY <1>2, RatesAreNumbers
  <1> HIDE DEF rates
  <1>4. SumOf(rates) = Sum(rates, 1..Len(first)) /\ IsFiniteSet(1..Len(first))
    <2>1. Len(first) \in Nat
      BY <1>2
    <2>2. SumOf(rates) = Sum(rates, 1..Len(first))
      BY <1>3, <2>1, SumOfIsSum
    <2>3. QED
      BY <2>1, <2>2, FS_Interval
  <1>5. SumOf(rates) \in Int
    BY <1>3, <1>4, SumRules
  <1>6. QED
    BY <1>1, <1>2, <1>5

\* The values that count are some of the history, and those below are some of them.
LEMMA PercentileInBounds ==
  ASSUME NEW values \in Seq(Int \cup {None}), NEW current \in Int \cup {None},
         Percentile(values, current) # None
  PROVE  Percentile(values, current) \in 0..100 /\ Len(values) >= MinHistory
  <1> DEFINE n == Len(values)
             valid == {i \in DOMAIN values : values[i] # None /\ values[i] > 0}
             lower == {i \in valid : values[i] <= current}
             rank == Cardinality(lower)
  <1>1. Percentile(values, current) = (rank * 100) \div Cardinality(valid)
        /\ ~(Cardinality(valid) < MinHistory)
    BY DEF Percentile
  <1>2. n \in Nat /\ DOMAIN values = 1..n
    BY LenProperties
  <1>3. valid \in SUBSET (1..n) /\ lower \in SUBSET valid
    BY <1>2
  <1> HIDE DEF valid, lower, n
  <1>4. IsFiniteSet(1..n) /\ Cardinality(1..n) = n
    BY <1>2, FS_Interval
  <1>5. IsFiniteSet(valid) /\ Cardinality(valid) <= n
    BY <1>3, <1>4, FS_Subset
  <1>6. IsFiniteSet(lower) /\ rank <= Cardinality(valid)
    BY <1>3, <1>5, FS_Subset
  <1>7. rank \in Nat /\ Cardinality(valid) \in Nat /\ MinHistory \in Nat \ {0}
    BY <1>5, <1>6, FS_CardinalityType, ExpertAssumption
  <1> HIDE DEF rank
  <1>8. Cardinality(valid) # 0 /\ n >= MinHistory
    BY <1>1, <1>2, <1>5, <1>7
  <1>9. (100 * rank) \div Cardinality(valid) \in 0..100
    BY <1>6, <1>7, <1>8, ShareInBounds
  <1>10. rank * 100 = 100 * rank
    BY <1>7
  <1>11. QED
    BY <1>1, <1>8, <1>9, <1>10 DEF n

-----------------------------------------------------------------------------
(* The figures of an inquiry. *)

\* What has been read is what the tables hold.
FiguresHold(q) ==
  /\ q.bars # <<>> => q.bars \in BarLists /\ Len(q.bars) >= MinBars
  /\ AreReports(q.records) /\ q.history \in Seq(Int \cup {None})
  /\ q.step = "idle" => q.records = <<>>
  /\ q.expert = "valuation" /\ (q.step \in {"history", "records"} \/ q.records # <<>>)
       => q.info \in Infos \ {NoStock}

LEMMA FiguresInit == ExpertInit => FiguresHold(inquiry)
  <1>1. <<>> \in Seq(Int \cup {None})
    BY EmptySeq
  <1>2. QED
    BY <1>1, NoReports DEF ExpertInit, FiguresHold, NoInquiry

\* A step that ends the inquiry, or searches, leaves all figures.
LEMMA FiguresStay ==
  ASSUME InquiryHolds(inquiry), FiguresHold(inquiry), NEW q,
         q.bars = inquiry.bars, q.records = inquiry.records, q.history = inquiry.history,
         q.info = inquiry.info, q.expert = inquiry.expert,
         q.step \in {"done", "search", "model"}
  PROVE  FiguresHold(q)
  BY DEF FiguresHold

LEMMA RefusedKeepsFigures ==
  ASSUME InquiryHolds(inquiry), FiguresHold(inquiry), NEW reply,
         inquiry' = [inquiry EXCEPT !.step = "done", !.answer = reply]
  PROVE  FiguresHold(inquiry')
  <1>1. /\ inquiry'.bars = inquiry.bars /\ inquiry'.records = inquiry.records
        /\ inquiry'.history = inquiry.history /\ inquiry'.info = inquiry.info
        /\ inquiry'.expert = inquiry.expert /\ inquiry'.step = "done"
    BY DEF InquiryHolds, NoInquiry
  <1>2. QED
    BY <1>1, FiguresStay

LEMMA RefusalKeepsFigures ==
  ASSUME InquiryHolds(inquiry), FiguresHold(inquiry), NEW code, Refused(code)
  PROVE  FiguresHold(inquiry')
  BY RefusedKeepsFigures DEF Refused, InquiryEnds

LEMMA AskKeepsFigures ==
  ASSUME InquiryHolds(inquiry), FiguresHold(inquiry), NEW e \in ExpertKinds, NEW c, NEW n,
         Ask(e, c, n) \/ AskWrongly(e, c, n)
  PROVE  FiguresHold(inquiry')
  <1>1. /\ inquiry.step = "idle"
        /\ inquiry'.bars = inquiry.bars /\ inquiry'.records = inquiry.records
        /\ inquiry'.history = inquiry.history
        /\ inquiry'.step \in {"bars", "records", "info", "done"}
        /\ inquiry'.expert = "valuation" => inquiry'.step \in {"info", "done"}
    <2>1. CASE Ask(e, c, n)
      <3>1. inquiry.step = "idle"
            /\ inquiry' = [inquiry EXCEPT !.expert = e, !.caller = c,
                             !.limit = IF e = "auditor" THEN n ELSE 8, !.step = FirstStep(e)]
        BY <2>1 DEF Ask
      <3>2. /\ FirstStep(e) \in {"bars", "records", "info"}
            /\ e = "valuation" => FirstStep(e) = "info"
        BY DEF FirstStep
      <3>3. QED
        BY <3>1, <3>2 DEF InquiryHolds, NoInquiry
    <2>2. CASE AskWrongly(e, c, n)
      <3>1. inquiry.step = "idle" /\ \E reply :
              inquiry' = [inquiry EXCEPT !.expert = e, !.caller = c, !.step = "done",
                                         !.answer = reply]
        BY <2>2 DEF AskWrongly
      <3>2. QED
        BY <3>1 DEF InquiryHolds, NoInquiry
    <2>3. QED
      BY <2>1, <2>2
  <1>2. QED
    BY <1>1 DEF FiguresHold

LEMMA BarsKeepFigures ==
  ASSUME InquiryHolds(inquiry), FiguresHold(inquiry), NEW bars \in BarLists,
         ReadYearOfBars(bars)
  PROVE  FiguresHold(inquiry')
  <1>1. CASE Len(bars) < MinBars
    BY <1>1, RefusalKeepsFigures DEF ReadYearOfBars
  <1>2. CASE ~(Len(bars) < MinBars)
    <2>1. inquiry' = [inquiry EXCEPT !.bars = bars, !.step = "model"]
      BY <1>2 DEF ReadYearOfBars
    <2>2. /\ inquiry'.bars = bars /\ inquiry'.records = inquiry.records
          /\ inquiry'.history = inquiry.history /\ inquiry'.info = inquiry.info
          /\ inquiry'.expert = inquiry.expert /\ inquiry'.step = "model"
      BY <2>1 DEF InquiryHolds, NoInquiry
    <2>3. Len(bars) >= MinBars
      BY <1>2, BarsAre, ExpertAssumption
    <2>4. QED
      BY <2>2, <2>3 DEF FiguresHold
  <1>3. QED
    BY <1>1, <1>2

LEMMA RecordsKeepFigures ==
  ASSUME InquiryHolds(inquiry), FiguresHold(inquiry), NEW table \in Statements,
         ReadRecords(table)
  PROVE  FiguresHold(inquiry')
  <1> DEFINE limit == IF inquiry.expert = "auditor" THEN inquiry.limit ELSE 8
             reports == Recent(table, limit)
  <1>1. inquiry.step = "records" /\ limit \in Nat \ {0}
    BY DEF ReadRecords, InquiryHolds, ReadSoFar
  <1> HIDE DEF limit
  <1>2. AreReports(reports)
    BY <1>1, RecentAreReports
  <1>3. CASE reports = <<>>
    BY <1>3, RefusalKeepsFigures DEF ReadRecords, limit
  <1>4. CASE reports # <<>>
    <2>1. inquiry' = [inquiry EXCEPT !.records = reports, !.step = "model"]
      BY <1>4 DEF ReadRecords, limit
    <2> HIDE DEF reports
    <2>2. /\ inquiry'.bars = inquiry.bars /\ inquiry'.records = reports
          /\ inquiry'.history = inquiry.history /\ inquiry'.info = inquiry.info
          /\ inquiry'.expert = inquiry.expert /\ inquiry'.step = "model"
      BY <2>1 DEF InquiryHolds, NoInquiry
    <2>3. QED
      BY <1>1, <1>2, <2>2 DEF FiguresHold
  <1>5. QED
    BY <1>3, <1>4

LEMMA InfoKeepsFigures ==
  ASSUME InquiryHolds(inquiry), FiguresHold(inquiry), NEW info \in Infos, ReadInfo(info)
  PROVE  FiguresHold(inquiry')
  <1> DEFINE none == info = NoStock \/ (inquiry.expert = "valuation" /\ ~info.traded)
  <1>1. CASE none
    BY <1>1, RefusalKeepsFigures DEF ReadInfo
  <1>2. CASE ~none
    <2>1. \E step \in {"history", "search"} :
            inquiry' = [inquiry EXCEPT !.info = info, !.step = step]
      BY <1>2 DEF ReadInfo
    <2>2. /\ inquiry'.bars = inquiry.bars /\ inquiry'.records = inquiry.records
          /\ inquiry'.history = inquiry.history /\ inquiry'.info = info
          /\ inquiry'.expert = inquiry.expert /\ inquiry'.step \in {"history", "search"}
      BY <2>1 DEF InquiryHolds, NoInquiry
    <2>3. QED
      BY <1>2, <2>2 DEF FiguresHold
  <1>3. QED
    BY <1>1, <1>2

LEMMA HistoryKeepsFigures ==
  ASSUME InquiryHolds(inquiry), FiguresHold(inquiry), NEW history \in PeHistories,
         ReadHistory(history)
  PROVE  FiguresHold(inquiry')
  <1>1. inquiry.step = "history"
        /\ inquiry' = [inquiry EXCEPT !.history = history, !.step = "records"]
    BY DEF ReadHistory
  <1>2. /\ inquiry'.bars = inquiry.bars /\ inquiry'.records = inquiry.records
        /\ inquiry'.history = history /\ inquiry'.info = inquiry.info
        /\ inquiry'.expert = inquiry.expert /\ inquiry'.step = "records"
    BY <1>1 DEF InquiryHolds, NoInquiry
  <1>3. history \in Seq(Int \cup {None})
    BY ExpertAssumption
  <1>4. QED
    BY <1>1, <1>2, <1>3 DEF FiguresHold

LEMMA SearchKeepsFigures ==
  ASSUME InquiryHolds(inquiry), FiguresHold(inquiry), inquiry.step = "search", NEW found,
         Searched(found)
  PROVE  FiguresHold(inquiry')
  <1>1. CASE Refused("400")
    BY <1>1, RefusalKeepsFigures
  <1>2. CASE \/ inquiry' = [inquiry EXCEPT !.found = found]
             \/ inquiry' = [inquiry EXCEPT !.found = found, !.step = "model"]
    <2>1. /\ inquiry'.bars = inquiry.bars /\ inquiry'.records = inquiry.records
          /\ inquiry'.history = inquiry.history /\ inquiry'.info = inquiry.info
          /\ inquiry'.expert = inquiry.expert /\ inquiry'.step \in {"search", "model"}
      BY <1>2 DEF InquiryHolds, NoInquiry
    <2>2. QED
      BY <2>1, FiguresStay
  <1>3. QED
    BY <1>1, <1>2 DEF Searched

LEMMA ModelKeepsFigures ==
  ASSUME InquiryHolds(inquiry), FiguresHold(inquiry),
         \/ \E score \in Scores : ModelAnswers(score)
         \/ ModelAnswersBadly \/ ModelRaises
  PROVE  FiguresHold(inquiry')
  <1>1. ASSUME NEW score \in Scores, ModelAnswers(score) PROVE FiguresHold(inquiry')
    <2>1. \E s, signal : inquiry' = [inquiry EXCEPT !.step = "done", !.answer = "result",
                                                    !.score = s, !.signal = signal]
      BY <1>1 DEF ModelAnswers
    <2>2. /\ inquiry'.bars = inquiry.bars /\ inquiry'.records = inquiry.records
          /\ inquiry'.history = inquiry.history /\ inquiry'.info = inquiry.info
          /\ inquiry'.expert = inquiry.expert /\ inquiry'.step = "done"
      BY <2>1 DEF InquiryHolds, NoInquiry
    <2>3. QED
      BY <2>2, FiguresStay
  <1>2. CASE ModelAnswersBadly
    BY <1>2, RefusalKeepsFigures, RefusedKeepsFigures DEF ModelAnswersBadly, InquiryEnds
  <1>3. CASE ModelRaises
    BY <1>3, RefusalKeepsFigures DEF ModelRaises
  <1>4. QED
    BY <1>1, <1>2, <1>3

FiguresInv == InquiryHolds(inquiry) /\ FiguresHold(inquiry)

LEMMA FiguresNext == FiguresInv /\ [ExpertNext]_inquiry => FiguresHold(inquiry')
  <1> SUFFICES ASSUME FiguresInv, [ExpertNext]_inquiry PROVE FiguresHold(inquiry')
    OBVIOUS
  <1> USE DEF FiguresInv
  <1>1. CASE ReadRaises
    BY <1>1, RefusalKeepsFigures DEF ReadRaises
  <1>2. CASE SearchRaises
    BY <1>2, SearchKeepsFigures DEF SearchRaises
  <1>3. ASSUME NEW items \in SearchResults, Search(items) PROVE FiguresHold(inquiry')
    BY <1>3, SearchKeepsFigures DEF Search
  <1>4. CASE UNCHANGED inquiry
    BY <1>4
  <1>5. (\E e \in ExpertKinds, c \in {"rest", "coordinator"}, n \in {0, 2, 8, 21} :
           Ask(e, c, n) \/ AskWrongly(e, c, n)) => FiguresHold(inquiry')
    BY AskKeepsFigures
  <1>6. /\ (\E bars \in BarLists : ReadYearOfBars(bars)) => FiguresHold(inquiry')
        /\ (\E table \in Statements : ReadRecords(table)) => FiguresHold(inquiry')
        /\ (\E info \in Infos : ReadInfo(info)) => FiguresHold(inquiry')
        /\ (\E history \in PeHistories : ReadHistory(history)) => FiguresHold(inquiry')
    BY BarsKeepFigures, RecordsKeepFigures, InfoKeepsFigures, HistoryKeepsFigures
  <1>7. (\/ \E score \in Scores : ModelAnswers(score)
         \/ ModelAnswersBadly \/ ModelRaises) => FiguresHold(inquiry')
    BY ModelKeepsFigures
  <1>8. QED
    BY <1>1, <1>2, <1>3, <1>4, <1>5, <1>6, <1>7 DEF ExpertNext

LEMMA AlwaysFiguresInv == ExpertSpec => []FiguresInv
  <1>1. ExpertInit => FiguresInv
    BY InquiryInit, FiguresInit DEF FiguresInv
  <1>2. FiguresInv /\ [ExpertNext]_inquiry => FiguresInv'
    BY InquiryNext, FiguresNext DEF FiguresInv
  <1>3. QED
    BY <1>1, <1>2, PTL DEF ExpertSpec

\* The valuation snapshot of what has been read.
LEMMA SnapshotInBounds == FiguresInv => ValuationInBounds
  <1> SUFFICES ASSUME FiguresInv, inquiry.expert = "valuation", inquiry.records # <<>>
               PROVE  LET s == ValuationSnapshot IN
                      /\ s.pe_percentile # None => /\ s.pe_percentile \in 0..100
                                                   /\ Len(inquiry.history) >= MinHistory
                      /\ s.peg # None => s.growth # None /\ s.peg.num > 0 /\ s.peg.den > 0
                      /\ s.safety # None => s.graham # None
                      /\ s.margin = None => s.margin_trend = None
    BY DEF ValuationInBounds
  <1> DEFINE s == ValuationSnapshot
             pe == inquiry.info.pct_chg
             growth == AverageGrowth(inquiry.records)
             margin == inquiry.records[1].figures.margin
  <1>1. /\ s.pe_percentile = Percentile(inquiry.history, pe)
        /\ s.growth = growth /\ s.peg = Peg(pe, growth)
        /\ s.safety = SafetyMargin(s.graham, inquiry.info.close)
        /\ s.margin = IF Plausible(margin) THEN margin ELSE None
        /\ s.margin_trend = MarginTrend(inquiry.records)
    BY DEF ValuationSnapshot
  <1>2. /\ AreReports(inquiry.records) /\ inquiry.history \in Seq(Int \cup {None})
        /\ inquiry.info \in Infos \ {NoStock}
    BY DEF FiguresInv, FiguresHold
  <1>3. pe \in Int \cup {None}
    BY <1>2, ExpertAssumption
  <1> HIDE DEF s, pe, growth
  <1>4. s.pe_percentile # None => /\ s.pe_percentile \in 0..100
                                  /\ Len(inquiry.history) >= MinHistory
    BY <1>1, <1>2, <1>3, PercentileInBounds
  <1>5. s.peg # None => s.growth # None /\ s.peg.num > 0 /\ s.peg.den > 0
    <2> SUFFICES ASSUME s.peg # None PROVE s.growth # None /\ s.peg.num > 0 /\ s.peg.den > 0
      OBVIOUS
    <2>1. /\ pe # None /\ growth # None /\ ~(pe <= 0) /\ ~(growth.sum <= 0)
          /\ s.peg = [num |-> pe * growth.count, den |-> growth.sum]
      BY <1>1 DEF Peg
    <2>2. growth.sum \in Int /\ growth.count \in Nat \ {0}
      BY <1>2, <2>1, AverageIsNumber DEF growth
    <2>3. pe \in Nat \ {0} /\ growth.sum > 0
      BY <1>3, <2>1, <2>2
    <2>4. pe * growth.count > 0
      BY <2>2, <2>3
    <2>5. QED
      BY <1>1, <2>1, <2>3, <2>4
  <1>6. s.safety # None => s.graham # None
    BY <1>1 DEF SafetyMargin
  <1>7. s.margin = None => s.margin_trend = None
    BY <1>1 DEF MarginTrend, Plausible
  <1>8. QED
    BY <1>4, <1>5, <1>6, <1>7 DEF s

\* What the experts compute and answer, for all that the tables of the stock hold and
\* the searches find: a percentile and a relative strength in their range, the last
\* close between the levels and on the side of them that the average price says, no
\* ratio and no margin without what it is computed of, and one growth for auditor and
\* modeler, who compute it each in their own way.
THEOREM ExpertsComputeInBounds == ExpertSpec => []ExpertAnswersHold
  <1>1. FiguresInv => TechnicalInBounds
    <2> SUFFICES ASSUME FiguresInv, inquiry.bars # <<>> PROVE TechnicalInBounds
      BY DEF TechnicalInBounds
    <2>1. inquiry.bars \in BarLists /\ Len(inquiry.bars) >= MinBars
      BY DEF FiguresInv, FiguresHold
    <2>2. QED
      BY <2>1, BarsInBounds DEF TechnicalInBounds
  <1>2. FiguresInv => ExpertsAgreeOnGrowth
    <2>1. FiguresInv => AreReports(inquiry.records)
      BY DEF FiguresInv, FiguresHold
    <2>2. QED
      BY <2>1, GrowthsAgree DEF ExpertsAgreeOnGrowth
  <1>3. FiguresInv /\ SearchesFiltered /\ ResultIsGrounded => ExpertAnswersHold
    BY <1>1, <1>2, SnapshotInBounds DEF ExpertAnswersHold
  <1>4. QED
    BY <1>3, AlwaysFiguresInv, SearchesAreFiltered, ResultsAreGrounded, PTL

-----------------------------------------------------------------------------
(* The types of an inquiry *)

InquiryTyped(q) ==
  /\ q.caller \in {"rest", "coordinator"}
  /\ q.bars \in BarLists \cup {<<>>} /\ q.history \in PeHistories \cup {<<>>}
  /\ q.info \in Infos \cup {NoStock}
  /\ Len(q.found) \in 0..SearchDimensions /\ q.signal \in Signals
  /\ q.answer \in {"none", "result", "placeholder", "400", "422", "500", "raised"}

InquiryFields == {"step", "expert", "caller", "limit", "bars", "records", "info", "history",
                  "found", "signal", "score", "answer"}

LEMMA FieldsAre == DOMAIN NoInquiry = InquiryFields
  BY DEF NoInquiry, InquiryFields

LEMMA EndsTyped ==
  ASSUME InquiryHolds(inquiry), InquiryTyped(inquiry),
         NEW answer \in {"result", "placeholder", "400", "422", "500", "raised"},
         InquiryEnds(answer)
  PROVE  InquiryTyped(inquiry')
  BY FieldsAre DEF InquiryEnds, InquiryHolds, InquiryFields, InquiryTyped

LEMMA RefusalTyped ==
  ASSUME InquiryHolds(inquiry), InquiryTyped(inquiry), NEW code \in {"400", "422", "500"},
         Refused(code)
  PROVE  InquiryTyped(inquiry')
  BY EndsTyped DEF Refused

LEMMA AskTyped ==
  ASSUME InquiryHolds(inquiry), InquiryTyped(inquiry), NEW e \in ExpertKinds,
         NEW c \in {"rest", "coordinator"}, NEW n, Ask(e, c, n) \/ AskWrongly(e, c, n)
  PROVE  InquiryTyped(inquiry')
  <1>1. CASE Ask(e, c, n)
    <2>1. \E limit, step : inquiry' = [inquiry EXCEPT !.expert = e, !.caller = c, !.limit = limit,
                                                     !.step = step]
      BY <1>1 DEF Ask
    <2>2. QED
      BY <2>1, FieldsAre DEF InquiryHolds, InquiryFields, InquiryTyped
  <1>2. CASE AskWrongly(e, c, n)
    <2>1. \E answer \in {"raised", "422", "400"} :
            inquiry' = [inquiry EXCEPT !.expert = e, !.caller = c, !.step = "done",
                                       !.answer = answer]
      BY <1>2 DEF AskWrongly
    <2>2. QED
      BY <2>1, FieldsAre DEF InquiryHolds, InquiryFields, InquiryTyped
  <1>3. QED
    BY <1>1, <1>2

LEMMA ReadsTyped ==
  ASSUME InquiryHolds(inquiry), InquiryTyped(inquiry),
         \/ \E bars \in BarLists : ReadYearOfBars(bars)
         \/ \E table \in Statements : ReadRecords(table)
         \/ \E info \in Infos : ReadInfo(info)
         \/ \E history \in PeHistories : ReadHistory(history)
         \/ ReadRaises
  PROVE  InquiryTyped(inquiry')
  <1>1. ASSUME Refused("400") \/ Refused("500") PROVE InquiryTyped(inquiry')
    BY <1>1, RefusalTyped
  <1>2. ASSUME NEW bars \in BarLists, ReadYearOfBars(bars) PROVE InquiryTyped(inquiry')
    <2>1. Refused("400") \/ inquiry' = [inquiry EXCEPT !.bars = bars, !.step = "model"]
      BY <1>2 DEF ReadYearOfBars
    <2>2. QED
      BY <1>1, <2>1, FieldsAre DEF InquiryHolds, InquiryFields, InquiryTyped
  <1>3. ASSUME NEW table \in Statements, ReadRecords(table) PROVE InquiryTyped(inquiry')
    <2>1. Refused("400") \/ \E records :
            inquiry' = [inquiry EXCEPT !.records = records, !.step = "model"]
      BY <1>3 DEF ReadRecords
    <2>2. QED
      BY <1>1, <2>1, FieldsAre DEF InquiryHolds, InquiryFields, InquiryTyped
  <1>4. ASSUME NEW info \in Infos, ReadInfo(info) PROVE InquiryTyped(inquiry')
    <2>1. Refused("400") \/ \E step :
            inquiry' = [inquiry EXCEPT !.info = info, !.step = step]
      BY <1>4 DEF ReadInfo
    <2>2. QED
      BY <1>1, <2>1, FieldsAre DEF InquiryHolds, InquiryFields, InquiryTyped
  <1>5. ASSUME NEW history \in PeHistories, ReadHistory(history) PROVE InquiryTyped(inquiry')
    <2>1. inquiry' = [inquiry EXCEPT !.history = history, !.step = "records"]
      BY <1>5 DEF ReadHistory
    <2>2. QED
      BY <2>1, FieldsAre DEF InquiryHolds, InquiryFields, InquiryTyped
  <1>6. CASE ReadRaises
    BY <1>1, <1>6 DEF ReadRaises
  <1>7. QED
    BY <1>2, <1>3, <1>4, <1>5, <1>6

LEMMA SearchedTyped ==
  ASSUME InquiryHolds(inquiry), InquiryTyped(inquiry), inquiry.step = "search", NEW items,
         Searched(Append(inquiry.found, items))
  PROVE  InquiryTyped(inquiry')
  <1> DEFINE found == Append(inquiry.found, items)
  <1>1. Len(found) \in 0..SearchDimensions
    <2>1. Len(inquiry.found) \in Nat /\ Len(inquiry.found) < SearchDimensions
          /\ SearchDimensions \in Nat
      BY ExpertAssumption DEF InquiryHolds, ReadSoFar
    <2>2. Len(found) = Len(inquiry.found) + 1
      BY DEF InquiryHolds
    <2>3. QED
      BY <2>1, <2>2
  <1>2. \/ Refused("400")
        \/ inquiry' = [inquiry EXCEPT !.found = found]
        \/ inquiry' = [inquiry EXCEPT !.found = found, !.step = "model"]
    BY DEF Searched
  <1> HIDE DEF found
  <1>3. QED
    BY <1>1, <1>2, RefusalTyped, FieldsAre DEF InquiryHolds, InquiryFields, InquiryTyped

LEMMA SignalTyped == \A score \in Scores : ScoreToSignal(score) \in Signals
  <1> SUFFICES ASSUME NEW score \in Int PROVE ScoreToSignal(score) \in Signals
    BY ExpertAssumption
  <1>1. \/ score >= 90
        \/ score >= 75 /\ score < 90
        \/ score >= 50 /\ score < 75
        \/ score >= 30 /\ score < 50
        \/ score < 30
    OBVIOUS
  <1>2. QED
    BY <1>1 DEF ScoreToSignal, Signals

LEMMA ModelTyped ==
  ASSUME InquiryHolds(inquiry), InquiryTyped(inquiry),
         \/ \E score \in Scores : ModelAnswers(score)
         \/ ModelAnswersBadly \/ ModelRaises
  PROVE  InquiryTyped(inquiry')
  <1>1. ASSUME NEW score \in Scores, ModelAnswers(score) PROVE InquiryTyped(inquiry')
    <2>1. \E s, signal : /\ signal \in Signals
                        /\ inquiry' = [inquiry EXCEPT !.step = "done", !.answer = "result",
                                                      !.score = s, !.signal = signal]
      <3>1. ScoreToSignal(score) \in Signals /\ inquiry.signal \in Signals
        BY SignalTyped DEF InquiryTyped
      <3>2. QED
        BY <1>1, <3>1 DEF ModelAnswers
    <2>2. QED
      BY <2>1, FieldsAre DEF InquiryHolds, InquiryFields, InquiryTyped
  <1>2. CASE ModelAnswersBadly
    BY <1>2, RefusalTyped, EndsTyped DEF ModelAnswersBadly
  <1>3. CASE ModelRaises
    BY <1>3, RefusalTyped DEF ModelRaises
  <1>4. QED
    BY <1>1, <1>2, <1>3

LEMMA InquiryTypedNext ==
  ASSUME InquiryHolds(inquiry), InquiryTyped(inquiry), [ExpertNext]_inquiry
  PROVE  InquiryTyped(inquiry')
  <1>1. (\E e \in ExpertKinds, c \in {"rest", "coordinator"}, n \in {0, 2, 8, 21} :
           Ask(e, c, n) \/ AskWrongly(e, c, n)) => InquiryTyped(inquiry')
    BY AskTyped
  <1>2. (\E items \in SearchResults : Search(items)) \/ SearchRaises => InquiryTyped(inquiry')
    BY SearchedTyped DEF Search, SearchRaises
  <1>3. QED
    BY <1>1, <1>2, ReadsTyped, ModelTyped DEF ExpertNext

\* An inquiry never collects more than its dimensions, and what it answers is one of
\* the signals, whatever score the model gives.
THEOREM InquiryTypes == ExpertSpec => []ExpertTypeOK
  <1> DEFINE Inv == InquiryHolds(inquiry) /\ InquiryTyped(inquiry)
  <1>1. Inv => ExpertTypeOK
    BY DEF InquiryHolds, ReadSoFar, InquiryTyped, ExpertTypeOK
  <1>2. ExpertInit => Inv
    <2>1. 0 \in 0..SearchDimensions
      BY ExpertAssumption
    <2>2. QED
      BY <2>1, InquiryInit DEF ExpertInit, NoInquiry, InquiryTyped, Signals
  <1>3. Inv /\ [ExpertNext]_inquiry => Inv'
    BY InquiryNext, InquiryTypedNext
  <1>4. QED
    BY <1>1, <1>2, <1>3, PTL DEF ExpertSpec

-----------------------------------------------------------------------------
(* The report of the day (MarketInsight).  A row of either table is what the *)
(* run that saved it has computed, and no run computes again: so the figures *)
(* of two rows of one run fit together as those of its memory do.            *)

\* Both copies of the rules.
LEMMA RulesAgree ==
  ASSUME NEW st, NEW stInConcept, NEW pct, NEW code, code \in st <=> code \in stInConcept
  PROVE  IsLimitUp(code \in stInConcept, pct, code)
           <=> pct >= Threshold[LimitType(code \in st, code)]
  <1>1. CASE code \in st
    BY <1>1 DEF IsLimitUp, LimitType, Threshold
  <1>2. CASE code \notin st
    <2> HIDE DEF StartsWith
    <2>1. CASE StartsWith(code, <<4>>) \/ StartsWith(code, <<8>>)
      BY <1>2, <2>1 DEF IsLimitUp, LimitType, Threshold
    <2>2. CASE /\ ~(StartsWith(code, <<4>>) \/ StartsWith(code, <<8>>))
               /\ StartsWith(code, <<6, 8>>)
      BY <1>2, <2>2 DEF IsLimitUp, LimitType, Threshold
    <2>3. CASE /\ ~(StartsWith(code, <<4>>) \/ StartsWith(code, <<8>>))
               /\ ~StartsWith(code, <<6, 8>>)
               /\ StartsWith(code, <<3>>)
      BY <1>2, <2>3 DEF IsLimitUp, LimitType, Threshold
    <2>4. CASE /\ ~(StartsWith(code, <<4>>) \/ StartsWith(code, <<8>>))
               /\ ~StartsWith(code, <<6, 8>>)
               /\ ~StartsWith(code, <<3>>)
      BY <1>2, <2>4 DEF IsLimitUp, LimitType, Threshold
    <2>5. QED
      BY <2>1, <2>2, <2>3, <2>4
  <1>3. QED
    BY <1>1, <1>2

\* What the heats count of a concept and what the scan finds of it.
LEMMA HeatIsScan ==
  ASSUME NEW bars, NEW stocks, NEW st, NEW stInConcept,
         \A c \in DOMAIN stocks : \A code \in stocks[c] : code \in st <=> code \in stInConcept,
         NEW c \in DOMAIN Heats(bars, stocks, stInConcept)
  PROVE  LET limits == Scan(bars, st, stocks)
         IN Heats(bars, stocks, stInConcept)[c].limit_up_count
              = Cardinality({code \in DOMAIN limits : c \in limits[code].concepts})
  <1> DEFINE limits == Scan(bars, st, stocks)
             counted == {code \in stocks[c] \cap DOMAIN bars :
                           IsLimitUp(code \in stInConcept, bars[code], code)}
             found == {code \in DOMAIN limits : c \in limits[code].concepts}
  <1>1. c \in DOMAIN stocks /\ Heats(bars, stocks, stInConcept)[c].limit_up_count
                                 = Cardinality(counted)
    BY DEF Heats
  <1>2. DOMAIN limits = {code \in DOMAIN bars :
                           bars[code] >= Threshold[LimitType(code \in st, code)]}
    BY DEF Scan
  <1>3. \A code \in DOMAIN limits :
          limits[code].concepts = {k \in DOMAIN stocks : code \in stocks[k]}
    BY DEF Scan
  <1>5. \A code \in stocks[c] \cap DOMAIN bars :
          IsLimitUp(code \in stInConcept, bars[code], code)
            <=> bars[code] >= Threshold[LimitType(code \in st, code)]
    BY <1>1, RulesAgree
  <1>6. counted = found
    <2> HIDE DEF limits
    <2>1. QED
      BY <1>1, <1>2, <1>3, <1>5
  <1>7. QED
    BY <1>1, <1>6

\* Each heat counts the limit-ups of its concept.
CountedIn(heats, limits) ==
  \A c \in DOMAIN heats :
    heats[c].limit_up_count = Cardinality({code \in DOMAIN limits : c \in limits[code].concepts})

HeatsCounted(run) == run.names_agree => CountedIn(run.heats, run.limits)

\* A row is of a run that has read the concepts, and is what this run computed.
HeatOfRun(c) ==
  LET run == report[heatTable[c].run] IN
  /\ heatTable[c].run \in ReportRuns
  /\ run.pc \notin {"idle", "bars", "concepts"}
  /\ c \in DOMAIN run.heats /\ heatTable[c].row = run.heats[c]

LimitOfRun(code) ==
  LET run == report[limitTable[code].run] IN
  /\ limitTable[code].run \in ReportRuns
  /\ run.pc \notin {"idle", "bars", "concepts"}
  /\ code \in DOMAIN run.limits /\ limitTable[code].row = run.limits[code]

ReportShape ==
  /\ DOMAIN report = ReportRuns
  /\ \A r \in ReportRuns : DOMAIN report[r] = DOMAIN IdleReport

InsightInv ==
  /\ ReportShape
  /\ \A r \in ReportRuns : HeatsCounted(report[r])
  /\ \A c \in DOMAIN heatTable : HeatOfRun(c)
  /\ \A code \in DOMAIN limitTable : LimitOfRun(code)

LEMMA InsightInvInit == InsightInit => InsightInv
  <1> SUFFICES ASSUME InsightInit PROVE InsightInv
    OBVIOUS
  <1>1. DOMAIN <<>> = {}
    OBVIOUS
  <1>2. HeatsCounted(IdleReport)
    BY <1>1 DEF HeatsCounted, CountedIn, IdleReport
  <1>3. QED
    BY <1>1, <1>2 DEF InsightInit, InsightInv, ReportShape

\* A step of one run that changes neither what it computed nor a table.
RunKeeps(r) ==
  /\ \E run : /\ DOMAIN run = DOMAIN IdleReport
              /\ report' = [report EXCEPT ![r] = run]
              /\ run.heats = report[r].heats /\ run.limits = report[r].limits
              /\ run.names_agree = report[r].names_agree
              /\ run.pc \in {"idle", "bars", "concepts"}
                   => report[r].pc \in {"idle", "bars", "concepts"}

LEMMA KeepsHolds ==
  ASSUME InsightInv, NEW r \in ReportRuns, RunKeeps(r)
  PROVE  /\ ReportShape'
         /\ \A q \in ReportRuns : HeatsCounted(report'[q])
         /\ UNCHANGED heatTable => \A c \in DOMAIN heatTable : HeatOfRun(c)'
         /\ UNCHANGED limitTable => \A code \in DOMAIN limitTable : LimitOfRun(code)'
  <1>1. PICK run : /\ DOMAIN run = DOMAIN IdleReport
                   /\ report' = [report EXCEPT ![r] = run]
                   /\ run.heats = report[r].heats /\ run.limits = report[r].limits
                   /\ run.names_agree = report[r].names_agree
                   /\ run.pc \in {"idle", "bars", "concepts"}
                        => report[r].pc \in {"idle", "bars", "concepts"}
    BY DEF RunKeeps
  <1>2. /\ DOMAIN report' = ReportRuns /\ report'[r] = run
        /\ \A q \in ReportRuns : q # r => report'[q] = report[q]
    BY <1>1 DEF InsightInv, ReportShape
  <1>3. ReportShape'
    BY <1>1, <1>2 DEF InsightInv, ReportShape
  <1>4. ASSUME NEW q \in ReportRuns
        PROVE  /\ report'[q].heats = report[q].heats /\ report'[q].limits = report[q].limits
               /\ report'[q].names_agree = report[q].names_agree
               /\ report'[q].pc \in {"idle", "bars", "concepts"}
                    => report[q].pc \in {"idle", "bars", "concepts"}
    BY <1>1, <1>2
  <1>5. \A q \in ReportRuns : HeatsCounted(report'[q])
    BY <1>4 DEF InsightInv, HeatsCounted
  <1>6. UNCHANGED heatTable => \A c \in DOMAIN heatTable : HeatOfRun(c)'
    BY <1>4 DEF InsightInv, HeatOfRun
  <1>7. UNCHANGED limitTable => \A code \in DOMAIN limitTable : LimitOfRun(code)'
    BY <1>4 DEF InsightInv, LimitOfRun
  <1>8. QED
    BY <1>3, <1>5, <1>6, <1>7

\* The steps of a run that compute nothing of heats and limits.
LEMMA OtherStepsKeep ==
  ASSUME InsightInv, NEW r \in ReportRuns,
         \/ StartReport(r) \/ ReadBars(r) \/ SaveHeats(r) \/ SaveScanned(r)
         \/ \E pool \in Pools : AnalyseSentiment(r, pool)
         \/ \E list \in Lists : AnalyseCapitalFlow(r, list)
         \/ ReportStatementFails(r) \/ AnalysisFails(r) \/ WriteReport(r)
  PROVE  RunKeeps(r)
  <1> DEFINE early == {"idle", "bars", "concepts"}
  <1>1. r \in DOMAIN report /\ DOMAIN report[r] = DOMAIN IdleReport
    BY DEF InsightInv, ReportShape
  <1>2. CASE StartReport(r)
    <2>1. report' = [report EXCEPT ![r] = [report[r] EXCEPT !.pc = "bars"]]
      BY <1>2 DEF StartReport
    <2>2. QED
      BY <1>1, <1>2, <2>1 DEF RunKeeps, IdleReport, StartReport
  <1>3. CASE ReadBars(r)
    <2>1. report[r].pc = "bars" /\ \E pc \in {"done", "concepts"} :
            report' = [report EXCEPT ![r] = [report[r] EXCEPT !.bars = feed.bars,
                                               !.st = feed.st, !.pc = pc]]
      BY <1>3 DEF ReadBars
    <2>2. QED
      BY <1>1, <2>1 DEF RunKeeps, IdleReport
  <1>4. CASE SaveHeats(r)
    <2>1. \E pc \in {"sentiment", "limit"} :
            report' = [report EXCEPT ![r] = [report[r] EXCEPT !.pc = pc]]
      BY <1>4 DEF SaveHeats, AfterHeat
    <2>2. QED
      BY <1>1, <2>1 DEF RunKeeps, IdleReport
  <1>5. CASE SaveScanned(r)
    <2> DEFINE run == [report[r] EXCEPT !.pc = "sentiment"]
    <2>1. report' = [report EXCEPT ![r] = run]
      BY <1>5 DEF SaveScanned
    <2>2. /\ DOMAIN run = DOMAIN IdleReport /\ run.pc = "sentiment"
          /\ run.heats = report[r].heats /\ run.limits = report[r].limits
          /\ run.names_agree = report[r].names_agree
      BY <1>1 DEF IdleReport
    <2> HIDE DEF run
    <2>3. QED
      BY <2>1, <2>2 DEF RunKeeps
  <1>6. ASSUME NEW pool \in Pools, AnalyseSentiment(r, pool) PROVE RunKeeps(r)
    <2>1. \E metrics, analysed :
            report' = [report EXCEPT ![r] = [report[r] EXCEPT !.pc = "flow", !.pool = pool,
                                               !.metrics = metrics, !.analysed = analysed]]
      BY <1>6 DEF AnalyseSentiment
    <2>2. QED
      BY <1>1, <2>1 DEF RunKeeps, IdleReport
  <1>7. ASSUME NEW list \in Lists, AnalyseCapitalFlow(r, list) PROVE RunKeeps(r)
    <2>1. \E flow, analysed :
            report' = [report EXCEPT ![r] = [report[r] EXCEPT !.pc = "write", !.list = list,
                                               !.flow = flow, !.analysed = analysed]]
      BY <1>7 DEF AnalyseCapitalFlow
    <2>2. QED
      BY <1>1, <2>1 DEF RunKeeps, IdleReport
  <1>8. CASE ReportStatementFails(r)
    <2> DEFINE run == [report[r] EXCEPT !.pc = "failed", !.faulted = TRUE]
    <2>1. report' = [report EXCEPT ![r] = run]
      BY <1>8 DEF ReportStatementFails
    <2>2. /\ DOMAIN run = DOMAIN IdleReport /\ run.pc = "failed"
          /\ run.heats = report[r].heats /\ run.limits = report[r].limits
          /\ run.names_agree = report[r].names_agree
      BY <1>1 DEF IdleReport
    <2> HIDE DEF run
    <2>3. QED
      BY <2>1, <2>2 DEF RunKeeps
  <1>9. CASE AnalysisFails(r)
    <2>1. \E pc \in {"flow", "write"} : \E session :
            report' = [report EXCEPT ![r] = [report[r] EXCEPT !.session = session,
                                               !.faulted = TRUE, !.pc = pc]]
      BY <1>9 DEF AnalysisFails
    <2>2. QED
      BY <1>1, <2>1 DEF RunKeeps, IdleReport
  <1>10. CASE WriteReport(r)
    <2>1. \E pc \in {"done", "failed"} :
            report' = [report EXCEPT ![r] = [report[r] EXCEPT !.pc = pc]]
      BY <1>10 DEF WriteReport
    <2>2. QED
      BY <1>1, <2>1 DEF RunKeeps, IdleReport
  <1>11. QED
    BY <1>2, <1>3, <1>4, <1>5, <1>6, <1>7, <1>8, <1>9, <1>10

\* A run computes heats and limits when no row is its own yet.
LEMMA ReadConceptsHolds ==
  ASSUME InsightInv, NEW r \in ReportRuns, ReadConcepts(r)
  PROVE  InsightInv'
  <1> DEFINE heats == Heats(report[r].bars, feed.stocks, feed.st_in_concept)
             limits == Scan(report[r].bars, report[r].st, feed.stocks)
             agree == \A c \in DOMAIN feed.stocks : \A code \in feed.stocks[c] :
                        code \in report[r].st <=> code \in feed.st_in_concept
  <1>1. /\ report[r].pc = "concepts" /\ UNCHANGED <<heatTable, limitTable>>
        /\ \E pc : report' = [report EXCEPT ![r] =
                     [report[r] EXCEPT !.heats = heats, !.limits = limits,
                                       !.names_agree = agree, !.pc = pc]]
    BY DEF ReadConcepts
  <1>2. agree => CountedIn(heats, limits)
    BY HeatIsScan DEF CountedIn
  <1> HIDE DEF heats, limits, agree
  <1>3. r \in DOMAIN report /\ DOMAIN report[r] = DOMAIN IdleReport
    BY DEF InsightInv, ReportShape
  <1>4. /\ DOMAIN report'[r] = DOMAIN IdleReport
        /\ report'[r].heats = heats /\ report'[r].limits = limits
        /\ report'[r].names_agree = agree
        /\ DOMAIN report' = ReportRuns
        /\ \A q \in ReportRuns : q # r => report'[q] = report[q]
    BY <1>1, <1>3 DEF InsightInv, ReportShape, IdleReport
  <1>5. ReportShape'
    BY <1>4 DEF InsightInv, ReportShape
  <1>6. \A q \in ReportRuns : HeatsCounted(report'[q])
    <2>1. HeatsCounted(report'[r])
      BY <1>2, <1>4 DEF HeatsCounted
    <2>2. QED
      BY <1>4, <2>1 DEF InsightInv
  <1>7. \A c \in DOMAIN heatTable : heatTable[c].run # r /\ HeatOfRun(c)'
    BY <1>1, <1>4 DEF InsightInv, HeatOfRun
  <1>8. \A code \in DOMAIN limitTable : limitTable[code].run # r /\ LimitOfRun(code)'
    BY <1>1, <1>4 DEF InsightInv, LimitOfRun
  <1>9. QED
    BY <1>1, <1>5, <1>6, <1>7, <1>8 DEF InsightInv

LEMMA SaveHeatsHolds ==
  ASSUME InsightInv, NEW r \in ReportRuns, SaveHeats(r)
  PROVE  InsightInv'
  <1>1. RunKeeps(r)
    BY OtherStepsKeep
  <1>2. /\ ReportShape' /\ \A q \in ReportRuns : HeatsCounted(report'[q])
        /\ \A code \in DOMAIN limitTable : LimitOfRun(code)'
        /\ UNCHANGED limitTable
    BY <1>1, KeepsHolds DEF SaveHeats
  <1>3. ASSUME NEW c \in DOMAIN heatTable' PROVE HeatOfRun(c)'
    <2>1. /\ report[r].pc = "heat" /\ r \in DOMAIN report /\ DOMAIN report[r] = DOMAIN IdleReport
          /\ \E pc \in {"sentiment", "limit"} :
               report' = [report EXCEPT ![r] = [report[r] EXCEPT !.pc = pc]]
      BY DEF SaveHeats, AfterHeat, InsightInv, ReportShape
    <2>2. /\ report'[r].heats = report[r].heats /\ report'[r].pc \in {"sentiment", "limit"}
          /\ \A q \in ReportRuns : /\ report'[q].heats = report[q].heats
                                   /\ q # r => report'[q] = report[q]
      BY <2>1 DEF IdleReport, InsightInv, ReportShape
    <2>3. heatTable' = UpsertedRows(heatTable, report[r].heats, r)
      BY DEF SaveHeats
    <2>4. CASE c \in DOMAIN report[r].heats
      <3>1. heatTable'[c] = [row |-> report[r].heats[c], run |-> r]
        BY <2>3, <2>4 DEF UpsertedRows
      <3>2. QED
        BY <2>2, <2>4, <3>1 DEF HeatOfRun
    <2>5. CASE c \notin DOMAIN report[r].heats
      <3>1. c \in DOMAIN heatTable /\ heatTable'[c] = heatTable[c]
        BY <2>3, <2>5 DEF UpsertedRows
      <3>2. HeatOfRun(c)
        BY <3>1 DEF InsightInv
      <3>3. QED
        BY <2>2, <3>1, <3>2 DEF HeatOfRun
    <2>6. QED
      BY <2>4, <2>5
  <1>4. QED
    BY <1>2, <1>3 DEF InsightInv

LEMMA SaveScannedHolds ==
  ASSUME InsightInv, NEW r \in ReportRuns, SaveScanned(r)
  PROVE  InsightInv'
  <1>1. RunKeeps(r)
    BY OtherStepsKeep
  <1>2. /\ ReportShape' /\ \A q \in ReportRuns : HeatsCounted(report'[q])
        /\ \A c \in DOMAIN heatTable : HeatOfRun(c)'
        /\ UNCHANGED heatTable
    BY <1>1, KeepsHolds DEF SaveScanned
  <1>3. ASSUME NEW code \in DOMAIN limitTable' PROVE LimitOfRun(code)'
    <2>1. /\ report[r].pc = "limit" /\ r \in DOMAIN report /\ DOMAIN report[r] = DOMAIN IdleReport
          /\ report' = [report EXCEPT ![r] = [report[r] EXCEPT !.pc = "sentiment"]]
      BY DEF SaveScanned, InsightInv, ReportShape
    <2>2. /\ report'[r].limits = report[r].limits /\ report'[r].pc = "sentiment"
          /\ \A q \in ReportRuns : /\ report'[q].limits = report[q].limits
                                   /\ q # r => report'[q] = report[q]
      BY <2>1 DEF IdleReport, InsightInv, ReportShape
    <2>3. limitTable' = UpsertedRows(limitTable, report[r].limits, r)
      BY DEF SaveScanned
    <2>4. CASE code \in DOMAIN report[r].limits
      <3>1. limitTable'[code] = [row |-> report[r].limits[code], run |-> r]
        BY <2>3, <2>4 DEF UpsertedRows
      <3>2. QED
        BY <2>2, <2>4, <3>1 DEF LimitOfRun
    <2>5. CASE code \notin DOMAIN report[r].limits
      <3>1. code \in DOMAIN limitTable /\ limitTable'[code] = limitTable[code]
        BY <2>3, <2>5 DEF UpsertedRows
      <3>2. LimitOfRun(code)
        BY <3>1 DEF InsightInv
      <3>3. QED
        BY <2>2, <3>1, <3>2 DEF LimitOfRun
    <2>6. QED
      BY <2>4, <2>5
  <1>4. QED
    BY <1>2, <1>3 DEF InsightInv

LEMMA InsightInvNext == InsightInv /\ [InsightNext]_insightVars => InsightInv'
  <1> SUFFICES ASSUME InsightInv, [InsightNext]_insightVars PROVE InsightInv'
    OBVIOUS
  <1>1. CASE UNCHANGED <<heatTable, limitTable, report>>
    BY <1>1 DEF InsightInv, ReportShape, HeatOfRun, LimitOfRun
  <1>2. ASSUME NEW r \in ReportRuns, UNCHANGED <<heatTable, limitTable>>,
               \/ StartReport(r) \/ ReadBars(r)
               \/ \E pool \in Pools : AnalyseSentiment(r, pool)
               \/ \E list \in Lists : AnalyseCapitalFlow(r, list)
               \/ ReportStatementFails(r) \/ AnalysisFails(r) \/ WriteReport(r)
        PROVE  InsightInv'
    <2>1. RunKeeps(r)
      BY <1>2, OtherStepsKeep
    <2>2. QED
      BY <1>2, <2>1, KeepsHolds DEF InsightInv
  <1>3. ASSUME NEW f \in Feeds, FeedChanges(f) PROVE InsightInv'
    BY <1>1, <1>3 DEF FeedChanges
  <1>4. ASSUME NEW r \in ReportRuns,
               \/ StartReport(r) \/ ReadBars(r)
               \/ \E pool \in Pools : AnalyseSentiment(r, pool)
               \/ \E list \in Lists : AnalyseCapitalFlow(r, list)
               \/ ReportStatementFails(r) \/ AnalysisFails(r) \/ WriteReport(r)
        PROVE  UNCHANGED <<heatTable, limitTable>>
    BY <1>4 DEF StartReport, ReadBars, AnalyseSentiment, AnalyseCapitalFlow,
                ReportStatementFails, AnalysisFails, WriteReport
  <1>5. QED
    BY <1>1, <1>2, <1>3, <1>4, ReadConceptsHolds, SaveHeatsHolds, SaveScannedHolds
       DEF InsightNext, insightVars

\* The limit-ups that ConceptHeatCalculator counts of a concept are the ones that
\* LimitUpScanner lists of it, whatever the day's bars, codes and names: the rules
\* of the boards are written twice and the rows are saved by statements of their
\* own, between which other requests save theirs.
THEOREM HeatsTellTheListedLimitUps == InsightSpec => []HeatCountsLimitUps
  <1>1. ASSUME InsightInv, NEW c \in DOMAIN heatTable,
               report[heatTable[c].run].names_agree,
               {code \in DOMAIN limitTable : limitTable[code].run = heatTable[c].run}
                 = DOMAIN report[heatTable[c].run].limits
        PROVE  heatTable[c].row.limit_up_count
                 = Cardinality(
                     {code \in DOMAIN limitTable : limitTable[code].run = heatTable[c].run}
                       \cap LimitUpsOf(c))
    <2> DEFINE r == heatTable[c].run
               mine == {code \in DOMAIN limitTable : limitTable[code].run = r}
               limits == report[r].limits
               found == {code \in DOMAIN limits : c \in limits[code].concepts}
    <2>1. HeatOfRun(c) /\ HeatsCounted(report[r])
      BY <1>1 DEF InsightInv, HeatOfRun
    <2>2. heatTable[c].row.limit_up_count = Cardinality(found)
      BY <1>1, <2>1 DEF HeatOfRun, HeatsCounted, CountedIn
    <2>3. \A code \in mine : limitTable[code].row = limits[code]
      BY <1>1 DEF InsightInv, LimitOfRun
    <2>4. mine \cap LimitUpsOf(c) = found
      BY <1>1, <2>3 DEF LimitUpsOf
    <2>5. QED
      BY <2>2, <2>4
  <1>2. InsightInv => HeatCountsLimitUps
    BY <1>1 DEF HeatCountsLimitUps
  <1>3. QED
    BY <1>2, InsightInvInit, InsightInvNext, PTL DEF InsightSpec

-----------------------------------------------------------------------------
(* The analyses of a pool and of a list *)

\* The sum over a set is the sum, over the values of a key, of the sums over its
\* elements with that key.
LEMMA SumByParts ==
  ASSUME NEW D, IsFiniteSet(D), NEW p, \A i \in D : p[i] \in Int,
         NEW key, NEW K, IsFiniteSet(K), \A i \in D : key[i] \in K,
         NEW parts, \A x \in K : parts[x] = Sum(p, {i \in D : key[i] = x})
  PROVE  Sum(p, D) = Sum(parts, K)
  <1> DEFINE With(R) == {i \in D : key[i] \in R}
             C == {R \in SUBSET K : Sum(p, With(R)) # Sum(parts, R)}
  <1>1. \A x \in K : parts[x] \in Int
    <2> SUFFICES ASSUME NEW x \in K PROVE parts[x] \in Int
      OBVIOUS
    <2> DEFINE part == {i \in D : key[i] = x}
    <2>1. IsFiniteSet(part) /\ \A i \in part : p[i] \in Int
      BY FS_Subset
    <2> HIDE DEF part
    <2>2. Sum(p, part) \in Int
      BY <2>1, SumRules
    <2>3. QED
      BY <2>2 DEF part
  <1>2. C = {}
    <2> SUFFICES ASSUME C # {} PROVE FALSE
      OBVIOUS
    <2>1. \A R \in C : IsFiniteSet(R)
      BY FS_Subset
    <2>2. PICK R \in C : \A T \in C : Cardinality(R) <= Cardinality(T)
      <3> HIDE DEF C
      <3>1. QED
        BY <2>1, SmallestSet
    <2>3. R \in SUBSET K /\ IsFiniteSet(R) /\ Sum(p, With(R)) # Sum(parts, R)
      BY <2>1, <2>2
    <2>4. R # {}
      <3> SUFFICES ASSUME R = {} PROVE FALSE
        OBVIOUS
      <3>1. With(R) = {}
        OBVIOUS
      <3>2. Sum(p, {}) = 0 /\ Sum(parts, {}) = 0
        BY SumRules, FS_EmptySet
      <3>3. QED
        BY <2>3, <3>1, <3>2
    <2>5. PICK x \in R : TRUE
      BY <2>4
    <2>6. Cardinality(R \ {x}) = Cardinality(R) - 1 /\ Cardinality(R) \in Nat
      BY <2>3, FS_RemoveElement, FS_CardinalityType
    <2>7. R \ {x} \notin C
      BY <2>2, <2>6
    <2>8. Sum(p, With(R \ {x})) = Sum(parts, R \ {x})
      BY <2>3, <2>7
    <2>9. Sum(parts, R) = parts[x] + Sum(parts, R \ {x})
      BY <1>1, <2>3, SumRules
    <2>10. Sum(p, With(R)) = Sum(p, With(R \ {x})) + parts[x]
      <3> DEFINE rest == With(R \ {x})  part == {i \in D : key[i] = x}
      <3>1. IsFiniteSet(rest) /\ IsFiniteSet(part) /\ rest \cap part = {}
            /\ \A i \in rest \cup part : p[i] \in Int
        BY FS_Subset
      <3>2. With(R) = rest \cup part /\ parts[x] = Sum(p, part)
        BY <2>3
      <3> HIDE DEF rest, part
      <3>3. Sum(p, rest \cup part) = Sum(p, rest) + Sum(p, part)
        BY <3>1, SumOfUnion
      <3>4. QED
        BY <3>2, <3>3 DEF rest
    <2>11. parts[x] \in Int /\ Sum(parts, R \ {x}) \in Int
      <3>1. IsFiniteSet(R \ {x}) /\ \A y \in R \ {x} : parts[y] \in Int
        BY <1>1, <2>3, FS_Subset
      <3>2. QED
        BY <1>1, <2>3, <3>1, SumRules
    <2> HIDE DEF C, With
    <2>12. QED
      BY <2>3, <2>8, <2>9, <2>10, <2>11
  <1>3. K \notin C /\ With(K) = D
    BY <1>2
  <1>4. QED
    BY <1>3

LEMMA DragonTigerAddsUp ==
  ASSUME NEW list \in Lists
  PROVE  DragonTiger(list).total_net_buy = Sum(DragonTiger(list).net, DragonTiger(list).stocks)
  <1> DEFINE D == DOMAIN list
             codes == {list[i].code : i \in D}
             key == [i \in D |-> list[i].code]
             p == [i \in D |-> list[i].net]
             parts == [code \in codes |-> Sum(p, {i \in D : list[i].code = code})]
  <1>1. IsFiniteSet(D) /\ \A i \in D : p[i] \in Int
    BY InsightAssumption
  <1>2. IsFiniteSet(codes)
    <2>1. key \in Surjection(D, codes)
      BY DEF Surjection
    <2>2. QED
      BY <1>1, <2>1, FS_Surjection
  <1>3. \A i \in D : key[i] \in codes
    OBVIOUS
  <1>4. \A x \in codes : parts[x] = Sum(p, {i \in D : key[i] = x})
    <2> SUFFICES ASSUME NEW x \in codes
                 PROVE  parts[x] = Sum(p, {i \in D : key[i] = x})
      OBVIOUS
    <2>1. {i \in D : key[i] = x} = {i \in D : list[i].code = x}
      OBVIOUS
    <2>2. parts[x] = Sum(p, {i \in D : list[i].code = x})
      OBVIOUS
    <2>3. QED
      BY <2>1, <2>2
  <1>5. /\ DragonTiger(list).total_net_buy = Sum(p, D)
        /\ DragonTiger(list).net = parts /\ DragonTiger(list).stocks = codes
    <2>1. DragonTiger(list).total_net_buy = Sum(p, D)
      BY DEF DragonTiger
    <2>2. DragonTiger(list).stocks = codes
      BY DEF DragonTiger
    <2>3. DragonTiger(list).net = parts
      BY DEF DragonTiger
    <2>4. QED
      BY <2>1, <2>2, <2>3
  <1> HIDE DEF D, codes, key, p, parts
  <1>6. Sum(p, D) = Sum(parts, codes)
    BY <1>1, <1>2, <1>3, <1>4, SumByParts
  <1>7. QED
    BY <1>5, <1>6

\* The ladder of a pool: every stock on one rung, the rungs from high to low.
OnOneRung(tiers, pool) ==
  /\ \A i \in DOMAIN pool : Cardinality({t \in DOMAIN tiers : i \in tiers[t].stocks}) = 1
  /\ \A t \in 2..Len(tiers) : tiers[t].board_count < tiers[t - 1].board_count

LEMMA LadderClimbs ==
  ASSUME NEW pool \in Pools
  PROVE  LET ladder == Ladder(pool) IN
         /\ OnOneRung(ladder.tiers, pool)
         /\ ladder.tiers # <<>> => ladder.max_height = ladder.tiers[1].board_count
  <1> DEFINE D == DOMAIN pool
             boards == {pool[i] : i \in D}
             R == {q \in boards \X boards : q[1] > q[2]}
             Higher(b) == {c \in boards : c > b}
             n == Cardinality(boards)
             heights == [t \in 1..n |-> CHOOSE b \in boards : Cardinality(Higher(b)) = t - 1]
             tiers == [t \in 1..n |-> [board_count |-> heights[t],
                                       stocks |-> {i \in D : pool[i] = heights[t]}]]
  <1>1. IsFiniteSet(D) /\ boards \subseteq Int
    BY InsightAssumption
  <1>2. IsFiniteSet(boards)
    <2>1. [i \in D |-> pool[i]] \in Surjection(D, boards)
      BY DEF Surjection
    <2>2. QED
      BY <1>1, <2>1, FS_Surjection
  <1>3. n \in Nat
    BY <1>2, FS_CardinalityType
  <1>4. StrictOrder(R, boards)
    <2>1. \A x, y : <<x, y>> \in R <=> x \in boards /\ y \in boards /\ x > y
      OBVIOUS
    <2> HIDE DEF R
    <2>2. QED
      BY <1>1, <2>1 DEF StrictOrder
  <1>5. \A b \in boards : Below(R, boards, b) = Higher(b)
    BY DEF Below
  <1>6. DOMAIN heights = 1..n /\ \A t \in 1..n :
          heights[t] \in boards /\ Cardinality(Higher(heights[t])) = t - 1
    <2> SUFFICES ASSUME NEW t \in 1..n
                 PROVE  heights[t] \in boards /\ Cardinality(Higher(heights[t])) = t - 1
      OBVIOUS
    <2>1. \E b \in boards : Cardinality(Below(R, boards, b)) = t - 1
      <3> HIDE DEF boards, R
      <3>1. QED
        BY <1>2, <1>4, RankOnto
    <2>2. \E b \in boards : Cardinality(Higher(b)) = t - 1
      BY <1>5, <2>1
    <2> HIDE DEF boards, Higher
    <2>3. QED
      BY <2>2
  <1>7. \A b, c \in boards : b > c => Cardinality(Higher(b)) < Cardinality(Higher(c))
    <2> SUFFICES ASSUME NEW b \in boards, NEW c \in boards, b > c
                 PROVE  Cardinality(Higher(b)) < Cardinality(Higher(c))
      OBVIOUS
    <2>1. <<b, c>> \in R
      OBVIOUS
    <2> HIDE DEF boards, R, Higher
    <2>2. Cardinality(Below(R, boards, b)) < Cardinality(Below(R, boards, c))
      BY <1>2, <1>4, <2>1, BelowGrows
    <2>3. QED
      BY <1>5, <2>2
  <1>8. \A b \in boards : Cardinality(Higher(b)) \in 0..(n - 1)
    <2> SUFFICES ASSUME NEW b \in boards PROVE Cardinality(Higher(b)) \in 0..(n - 1)
      OBVIOUS
    <2>1. IsFiniteSet(boards \ {b}) /\ Cardinality(boards \ {b}) = n - 1
      BY <1>2, FS_RemoveElement
    <2>2. Higher(b) \subseteq boards \ {b}
      BY <1>1
    <2> HIDE DEF boards, Higher, n
    <2>3. IsFiniteSet(Higher(b)) /\ Cardinality(Higher(b)) <= n - 1
      BY <2>1, <2>2, FS_Subset
    <2>4. QED
      BY <1>3, <2>3, FS_CardinalityType
  <1> DEFINE Rank(b) == Cardinality(Higher(b)) + 1
  <1>9. \A b \in boards : \A t \in 1..n : heights[t] = b <=> t = Rank(b)
    <2> SUFFICES ASSUME NEW b \in boards, NEW t \in 1..n
                 PROVE  heights[t] = b <=> t = Rank(b)
      OBVIOUS
    <2>1. heights[t] \in boards /\ Cardinality(Higher(heights[t])) = t - 1
      BY <1>6
    <2>2. heights[t] \in Int /\ b \in Int
      BY <1>1, <2>1
    <2> HIDE DEF heights, boards, Higher, n
    <2>3. heights[t] > b => Cardinality(Higher(heights[t])) < Cardinality(Higher(b))
      BY <1>7, <2>1
    <2>4. b > heights[t] => Cardinality(Higher(b)) < Cardinality(Higher(heights[t]))
      BY <1>7, <2>1
    <2>5. Cardinality(Higher(b)) \in Int
      BY <1>3, <1>8
    <2>6. QED
      BY <1>3, <2>1, <2>2, <2>3, <2>4, <2>5
  <1>10. ASSUME NEW i \in D
         PROVE  Cardinality({t \in DOMAIN tiers : i \in tiers[t].stocks}) = 1
    <2>1. pool[i] \in boards
      OBVIOUS
    <2>2. \A t \in 1..n : i \in tiers[t].stocks <=> heights[t] = pool[i]
      <3> HIDE DEF heights, n
      <3>1. QED
        OBVIOUS
    <2>3. DOMAIN tiers = 1..n
      OBVIOUS
    <2> HIDE DEF tiers, heights, boards, Higher
    <2>4. Rank(pool[i]) \in 1..n
      <3>1. Cardinality(Higher(pool[i])) \in 0..(n - 1)
        BY <1>8, <2>1
      <3> HIDE DEF n
      <3>2. QED
        BY <1>3, <3>1
    <2> HIDE DEF n
    <2>5. {t \in DOMAIN tiers : i \in tiers[t].stocks} = {Rank(pool[i])}
      <3> HIDE DEF Rank
      <3>1. QED
        BY <1>9, <2>1, <2>2, <2>3, <2>4
    <2>6. QED
      BY <2>5, FS_Singleton
  <1>11. tiers \in Seq({tiers[t] : t \in 1..n}) /\ Len(tiers) = n
    <2> DEFINE E == {tiers[t] : t \in 1..n}
    <2>1. tiers \in [1..n -> E]
      OBVIOUS
    <2> HIDE DEF tiers, n, E
    <2>2. tiers \in Seq(E)
      BY <1>3, <2>1
    <2>3. QED
      BY <1>3, <2>1, <2>2 DEF E
  <1>12. ASSUME NEW t \in 2..n PROVE tiers[t].board_count < tiers[t - 1].board_count
    <2>1. t \in 1..n /\ t - 1 \in 1..n
      BY <1>3
    <2>2. tiers[t].board_count = heights[t] /\ tiers[t - 1].board_count = heights[t - 1]
      <3> HIDE DEF heights, n
      <3>1. \A k \in 1..n : tiers[k].board_count = heights[k]
        OBVIOUS
      <3> HIDE DEF tiers
      <3>2. QED
        BY <2>1, <3>1
    <2> DEFINE b == heights[t]  c == heights[t - 1]
    <2>3. /\ b \in boards /\ Cardinality(Higher(b)) = t - 1
          /\ c \in boards /\ Cardinality(Higher(c)) = t - 2
      <3>1. \A k \in 1..n : heights[k] \in boards /\ Cardinality(Higher(heights[k])) = k - 1
        BY <1>6
      <3>2. t - 1 - 1 = t - 2
        BY <1>3
      <3> HIDE DEF heights, boards, Higher, n
      <3>3. QED
        BY <2>1, <3>1, <3>2
    <2>4. b \in Int /\ c \in Int
      BY <1>1, <2>3
    <2> HIDE DEF b, c, boards, Higher, heights, tiers
    <2>5. b # c /\ ~(b > c)
      BY <1>3, <1>7, <2>3
    <2>6. b < c
      BY <2>4, <2>5
    <2>7. QED
      BY <2>2, <2>6 DEF b, c
  <1>13. /\ DOMAIN heights = 1..n
         /\ Ladder(pool).max_height = (IF pool = <<>> THEN 0 ELSE heights[1])
         /\ Ladder(pool).tiers = tiers
    BY DEF Ladder
  <1>14. pool = <<>> => tiers = <<>>
    <2> SUFFICES ASSUME pool = <<>> PROVE tiers = <<>>
      OBVIOUS
    <2>1. boards = {}
      OBVIOUS
    <2>2. n = 0
      BY <2>1, FS_EmptySet
    <2> HIDE DEF tiers
    <2>3. QED
      BY <1>11, <2>2, EmptySeq
  <1>15. tiers # <<>> => tiers[1].board_count = heights[1]
    <2> SUFFICES ASSUME tiers # <<>> PROVE tiers[1].board_count = heights[1]
      OBVIOUS
    <2>1. n # 0
      <3> HIDE DEF tiers, n
      <3>1. QED
        BY <1>11, EmptySeq
    <2>2. 1 \in 1..n
      <3> HIDE DEF n
      <3>1. QED
        BY <1>3, <2>1
    <2> HIDE DEF heights, n
    <2>3. QED
      BY <2>2
  <1> HIDE DEF D, boards, R, Higher, n, heights, tiers, Rank
  <1>16. QED
    BY <1>10, <1>11, <1>12, <1>13, <1>14, <1>15 DEF OnOneRung, D

\* What a run has analysed is the pool and the list that it read.
Analysed(run) ==
  /\ "sentiment" \in run.analysed => run.pool \in Pools /\ run.metrics = Ladder(run.pool)
  /\ "flow" \in run.analysed => run.list \in Lists /\ run.flow = DragonTiger(run.list)

AnalysedInv == InsightInv /\ \A r \in ReportRuns : Analysed(report[r])

LEMMA AnalysedInvInit == InsightInit => AnalysedInv
  <1> SUFFICES ASSUME InsightInit PROVE AnalysedInv
    OBVIOUS
  <1>1. Analysed(IdleReport)
    BY DEF Analysed, IdleReport
  <1>2. QED
    BY <1>1, InsightInvInit DEF InsightInit, AnalysedInv

\* A step of one run that leaves what it analysed alone.
LeavesAnalyses(r) ==
  \E run : /\ report' = [report EXCEPT ![r] = run]
          /\ run.analysed = report[r].analysed
          /\ run.pool = report[r].pool /\ run.metrics = report[r].metrics
          /\ run.list = report[r].list /\ run.flow = report[r].flow

LEMMA OtherStepsLeaveAnalyses ==
  ASSUME InsightInv, NEW r \in ReportRuns,
         \/ StartReport(r) \/ ReadBars(r) \/ ReadConcepts(r) \/ SaveHeats(r) \/ SaveScanned(r)
         \/ ReportStatementFails(r) \/ AnalysisFails(r) \/ WriteReport(r)
  PROVE  LeavesAnalyses(r)
  <1>1. DOMAIN report[r] = DOMAIN IdleReport
    BY DEF InsightInv, ReportShape
  <1>2. ASSUME NEW pc, report' = [report EXCEPT ![r] = [report[r] EXCEPT !.pc = pc]]
        PROVE  LeavesAnalyses(r)
    <2> DEFINE run == [report[r] EXCEPT !.pc = pc]
    <2>1. /\ run.analysed = report[r].analysed
          /\ run.pool = report[r].pool /\ run.metrics = report[r].metrics
          /\ run.list = report[r].list /\ run.flow = report[r].flow
      BY <1>1 DEF IdleReport
    <2>3. report' = [report EXCEPT ![r] = run]
      BY <1>2
    <2> HIDE DEF run
    <2>4. QED
      BY <2>1, <2>3 DEF LeavesAnalyses
  <1>3. CASE StartReport(r)
    BY <1>2, <1>3 DEF StartReport
  <1>4. CASE ReadBars(r)
    <2>1. \E pc : report' = [report EXCEPT ![r] = [report[r] EXCEPT !.bars = feed.bars,
                                                 !.st = feed.st, !.pc = pc]]
      BY <1>4 DEF ReadBars
    <2>2. QED
      BY <1>1, <2>1 DEF LeavesAnalyses, IdleReport
  <1>5. CASE ReadConcepts(r)
    <2> DEFINE heats == Heats(report[r].bars, feed.stocks, feed.st_in_concept)
               limits == Scan(report[r].bars, report[r].st, feed.stocks)
               agree == \A c \in DOMAIN feed.stocks : \A code \in feed.stocks[c] :
                          code \in report[r].st <=> code \in feed.st_in_concept
    <2>1. PICK pc : report' = [report EXCEPT ![r] = [report[r] EXCEPT !.heats = heats,
                      !.limits = limits, !.names_agree = agree, !.pc = pc]]
      BY <1>5 DEF ReadConcepts
    <2> HIDE DEF heats, limits, agree
    <2> DEFINE run == [report[r] EXCEPT !.heats = heats, !.limits = limits,
                                        !.names_agree = agree, !.pc = pc]
    <2>2. /\ run.analysed = report[r].analysed
          /\ run.pool = report[r].pool /\ run.metrics = report[r].metrics
          /\ run.list = report[r].list /\ run.flow = report[r].flow
      BY <1>1 DEF IdleReport
    <2>3. report' = [report EXCEPT ![r] = run]
      BY <2>1
    <2> HIDE DEF run
    <2>4. QED
      BY <2>2, <2>3 DEF LeavesAnalyses
  <1>6. CASE SaveHeats(r)
    BY <1>2, <1>6 DEF SaveHeats
  <1>7. CASE SaveScanned(r)
    BY <1>2, <1>7 DEF SaveScanned
  <1>8. CASE ReportStatementFails(r)
    <2> DEFINE run == [report[r] EXCEPT !.pc = "failed", !.faulted = TRUE]
    <2>1. report' = [report EXCEPT ![r] = run]
      BY <1>8 DEF ReportStatementFails
    <2>2. /\ run.analysed = report[r].analysed
          /\ run.pool = report[r].pool /\ run.metrics = report[r].metrics
          /\ run.list = report[r].list /\ run.flow = report[r].flow
      BY <1>1 DEF IdleReport
    <2> HIDE DEF run
    <2>3. QED
      BY <2>1, <2>2 DEF LeavesAnalyses
  <1>9. CASE AnalysisFails(r)
    <2>1. \E pc \in {"flow", "write"} : \E session :
            report' = [report EXCEPT ![r] = [report[r] EXCEPT !.session = session,
                                               !.faulted = TRUE, !.pc = pc]]
      BY <1>9 DEF AnalysisFails
    <2>2. QED
      BY <1>1, <2>1 DEF LeavesAnalyses, IdleReport
  <1>10. CASE WriteReport(r)
    <2>1. \E pc \in {"done", "failed"} :
            report' = [report EXCEPT ![r] = [report[r] EXCEPT !.pc = pc]]
      BY <1>10 DEF WriteReport
    <2>2. QED
      BY <1>2, <2>1
  <1>11. QED
    BY <1>3, <1>4, <1>5, <1>6, <1>7, <1>8, <1>9, <1>10

LEMMA AnalysedInvNext == AnalysedInv /\ [InsightNext]_insightVars => AnalysedInv'
  <1> SUFFICES ASSUME AnalysedInv, [InsightNext]_insightVars
               PROVE  \A r \in ReportRuns : Analysed(report'[r])
    BY InsightInvNext DEF AnalysedInv
  <1>1. InsightInv /\ DOMAIN report = ReportRuns
        /\ \A r \in ReportRuns : Analysed(report[r]) /\ DOMAIN report[r] = DOMAIN IdleReport
    BY DEF AnalysedInv, InsightInv, ReportShape
  <1>2. CASE UNCHANGED report
    BY <1>1, <1>2
  <1>3. ASSUME NEW r \in ReportRuns, LeavesAnalyses(r)
        PROVE  \A q \in ReportRuns : Analysed(report'[q])
    <2>1. PICK run : /\ report' = [report EXCEPT ![r] = run]
                     /\ run.analysed = report[r].analysed
                     /\ run.pool = report[r].pool /\ run.metrics = report[r].metrics
                     /\ run.list = report[r].list /\ run.flow = report[r].flow
      BY <1>3 DEF LeavesAnalyses
    <2>2. Analysed(run)
      BY <1>1, <2>1 DEF Analysed
    <2>3. QED
      BY <1>1, <2>1, <2>2
  <1>4. ASSUME NEW r \in ReportRuns, NEW pool \in Pools, AnalyseSentiment(r, pool)
        PROVE  \A q \in ReportRuns : Analysed(report'[q])
    <2> DEFINE run == [report[r] EXCEPT !.pc = "flow", !.pool = pool, !.metrics = Ladder(pool),
                                        !.analysed = report[r].analysed \cup {"sentiment"}]
    <2>1. report' = [report EXCEPT ![r] = run]
      BY <1>4 DEF AnalyseSentiment
    <2>2. /\ run.pool = pool /\ run.metrics = Ladder(pool)
          /\ run.analysed = report[r].analysed \cup {"sentiment"}
          /\ run.list = report[r].list /\ run.flow = report[r].flow
      BY <1>1 DEF IdleReport
    <2> HIDE DEF run
    <2>3. Analysed(run)
      BY <1>1, <2>2 DEF Analysed
    <2>4. QED
      BY <1>1, <2>1, <2>3
  <1>5. ASSUME NEW r \in ReportRuns, NEW list \in Lists, AnalyseCapitalFlow(r, list)
        PROVE  \A q \in ReportRuns : Analysed(report'[q])
    <2> DEFINE run == [report[r] EXCEPT !.pc = "write", !.list = list,
                                        !.flow = DragonTiger(list),
                                        !.analysed = report[r].analysed \cup {"flow"}]
    <2>1. report' = [report EXCEPT ![r] = run]
      BY <1>5 DEF AnalyseCapitalFlow
    <2>2. /\ run.list = list /\ run.flow = DragonTiger(list)
          /\ run.analysed = report[r].analysed \cup {"flow"}
          /\ run.pool = report[r].pool /\ run.metrics = report[r].metrics
      BY <1>1 DEF IdleReport
    <2> HIDE DEF run
    <2>3. Analysed(run)
      BY <1>1, <2>2 DEF Analysed
    <2>4. QED
      BY <1>1, <2>1, <2>3
  <1>6. ASSUME NEW f \in Feeds, FeedChanges(f) PROVE UNCHANGED report
    BY <1>6 DEF FeedChanges
  <1>7. ASSUME NEW r \in ReportRuns,
               \/ StartReport(r) \/ ReadBars(r) \/ ReadConcepts(r) \/ SaveHeats(r)
               \/ SaveScanned(r) \/ ReportStatementFails(r) \/ AnalysisFails(r)
               \/ WriteReport(r)
        PROVE  \A q \in ReportRuns : Analysed(report'[q])
    BY <1>1, <1>3, <1>7, OtherStepsLeaveAnalyses
  <1>8. QED
    BY <1>2, <1>4, <1>5, <1>6, <1>7 DEF InsightNext, insightVars

\* The report's figures agree with each other, for every pool and every list: its
\* heats with its limit-ups, the rungs of the ladder with the pool, and the net
\* purchases by stock with the total over the lines of the list.
THEOREM ReportFiguresAgree == InsightSpec => []InsightAnswersHold
  <1>1. ASSUME AnalysedInv, NEW r \in ReportRuns, "sentiment" \in report[r].analysed
        PROVE  LET tiers == report[r].metrics.tiers IN
               /\ \A i \in DOMAIN report[r].pool :
                    Cardinality({t \in DOMAIN tiers : i \in tiers[t].stocks}) = 1
               /\ \A t \in 2..Len(tiers) : tiers[t].board_count < tiers[t - 1].board_count
               /\ tiers # <<>> => report[r].metrics.max_height = tiers[1].board_count
    <2>1. report[r].pool \in Pools /\ report[r].metrics = Ladder(report[r].pool)
      BY <1>1 DEF AnalysedInv, Analysed
    <2>2. QED
      BY <2>1, LadderClimbs DEF OnOneRung
  <1>2. ASSUME AnalysedInv, NEW r \in ReportRuns, "flow" \in report[r].analysed
        PROVE  report[r].flow.total_net_buy = Sum(report[r].flow.net, report[r].flow.stocks)
    <2>1. report[r].list \in Lists /\ report[r].flow = DragonTiger(report[r].list)
      BY <1>2 DEF AnalysedInv, Analysed
    <2>2. QED
      BY <2>1, DragonTigerAddsUp
  <1>3. AnalysedInv => AnalysesAddUp
    BY <1>1, <1>2 DEF AnalysesAddUp
  <1>4. InsightSpec => []HeatCountsLimitUps
    BY HeatsTellTheListedLimitUps
  <1>5. AnalysesAddUp /\ HeatCountsLimitUps => InsightAnswersHold
    BY DEF InsightAnswersHold
  <1>6. QED
    BY <1>3, <1>4, <1>5, AnalysedInvInit, AnalysedInvNext, PTL DEF InsightSpec

-----------------------------------------------------------------------------
(* The types of the report.  A run has limits only once it has read the bars  *)
(* that they are limits of.                                                 *)

ReportTyped(run) ==
  /\ run.pc \in {"idle", "bars", "concepts", "heat", "limit", "sentiment", "flow",
                 "write", "done", "failed"}
  /\ run.pc \in {"idle", "bars", "concepts"} => DOMAIN run.limits = {}
  /\ DOMAIN run.heats \subseteq ReportConcepts
  /\ DOMAIN run.limits \subseteq DOMAIN run.bars /\ DOMAIN run.bars \subseteq ReportCodes
  /\ run.analysed \subseteq {"sentiment", "flow"}
  /\ run.session \in {"fine", "unusable"}

InsightTyped ==
  /\ feed \in Feeds
  /\ DOMAIN heatTable \subseteq ReportConcepts /\ DOMAIN limitTable \subseteq ReportCodes
  /\ \A r \in ReportRuns : ReportTyped(report[r])
  /\ reportFaults \in 0..MaxReportFaults

LEMMA InsightTypedInit == InsightInit => InsightTyped
  <1>1. ReportTyped(IdleReport)
    BY DEF ReportTyped, IdleReport
  <1>2. DOMAIN <<>> = {}
    OBVIOUS
  <1>3. QED
    BY <1>1, <1>2, InsightAssumption DEF InsightInit, InsightTyped

LEMMA TypedReportMoves ==
  ASSUME InsightInv, InsightTyped, NEW r \in ReportRuns, NEW run, ReportTyped(run),
         report' = [report EXCEPT ![r] = run], feed' = feed,
         DOMAIN heatTable' \subseteq ReportConcepts, DOMAIN limitTable' \subseteq ReportCodes,
         reportFaults' \in 0..MaxReportFaults
  PROVE  InsightTyped'
  <1>1. report'[r] = run /\ \A q \in ReportRuns : q # r => report'[q] = report[q]
    BY DEF InsightInv, ReportShape
  <1>2. \A q \in ReportRuns : ReportTyped(report'[q])
    BY <1>1 DEF InsightTyped
  <1>3. QED
    BY <1>2 DEF InsightTyped, ReportTyped, ReportConcepts, ReportCodes

LEMMA UpsertedDomain ==
  ASSUME NEW table, NEW rows, NEW r
  PROVE  DOMAIN UpsertedRows(table, rows, r) = DOMAIN table \cup DOMAIN rows
  BY DEF UpsertedRows

\* The steps that leave what a run has read and computed.
LEMMA LaterStepsTyped ==
  ASSUME InsightInv, InsightTyped, NEW r \in ReportRuns,
         \/ StartReport(r) \/ SaveHeats(r) \/ SaveScanned(r)
         \/ \E pool \in Pools : AnalyseSentiment(r, pool)
         \/ \E list \in Lists : AnalyseCapitalFlow(r, list)
         \/ ReportStatementFails(r) \/ AnalysisFails(r) \/ WriteReport(r)
  PROVE  InsightTyped'
  <1> DEFINE old == report[r]
  <1>1. ReportTyped(old) /\ DOMAIN old = DOMAIN IdleReport
    BY DEF InsightTyped, InsightInv, ReportShape
  <1>2. /\ feed' = feed /\ reportFaults' \in 0..MaxReportFaults
        /\ heatTable' = heatTable \/ heatTable' = UpsertedRows(heatTable, old.heats, r)
        /\ limitTable' = limitTable \/ limitTable' = UpsertedRows(limitTable, old.limits, r)
    <2>1. MaxReportFaults \in Nat /\ reportFaults \in 0..MaxReportFaults
      BY InsightAssumption DEF InsightTyped
    <2>2. ReportFault => reportFaults' \in 0..MaxReportFaults
      BY <2>1 DEF ReportFault
    <2>3. reportFaults' = reportFaults \/ ReportFault
      BY DEF StartReport, SaveHeats, SaveScanned, AnalyseSentiment, AnalyseCapitalFlow,
           ReportStatementFails, AnalysisFails, WriteReport
    <2>4. CASE SaveHeats(r) \/ SaveScanned(r)
      BY <2>1, <2>2, <2>3, <2>4 DEF SaveHeats, SaveScanned
    <2>5. CASE ~(SaveHeats(r) \/ SaveScanned(r))
      <3>1. UNCHANGED <<feed, heatTable, limitTable>>
        BY <2>5 DEF StartReport, AnalyseSentiment, AnalyseCapitalFlow, ReportStatementFails,
             AnalysisFails, WriteReport
      <3>2. QED
        BY <2>1, <2>2, <2>3, <3>1
    <2>6. QED
      BY <2>4, <2>5
  <1> DEFINE Moves(run) ==
               /\ report' = [report EXCEPT ![r] = run] /\ run.heats = old.heats
               /\ run.limits = old.limits /\ run.bars = old.bars
               /\ run.analysed \subseteq {"sentiment", "flow"}
               /\ run.session \in {"fine", "unusable"}
               /\ \/ run.pc = "bars" /\ old.pc = "idle"
                  \/ run.pc \in {"heat", "limit", "sentiment", "flow", "write", "done", "failed"}
  <1>3. DOMAIN heatTable' \subseteq ReportConcepts /\ DOMAIN limitTable' \subseteq ReportCodes
    <2>1. DOMAIN heatTable \subseteq ReportConcepts /\ DOMAIN limitTable \subseteq ReportCodes
      BY DEF InsightTyped
    <2>2. DOMAIN old.heats \subseteq ReportConcepts /\ DOMAIN old.limits \subseteq ReportCodes
      BY <1>1 DEF ReportTyped
    <2>3. /\ DOMAIN UpsertedRows(heatTable, old.heats, r) = DOMAIN heatTable \cup DOMAIN old.heats
          /\ DOMAIN UpsertedRows(limitTable, old.limits, r)
               = DOMAIN limitTable \cup DOMAIN old.limits
      BY UpsertedDomain
    <2> HIDE DEF old
    <2>4. QED
      BY <1>2, <2>1, <2>2, <2>3
  <1>4. ASSUME NEW run, Moves(run) PROVE InsightTyped'
    <2>1. ReportTyped(run)
      BY <1>1, <1>4 DEF ReportTyped
    <2>2. QED
      BY <1>2, <1>3, <1>4, <2>1, TypedReportMoves
  <1>5. CASE \/ StartReport(r) \/ SaveHeats(r) \/ SaveScanned(r) \/ WriteReport(r)
    <2>1. \E pc : /\ report' = [report EXCEPT ![r] = [old EXCEPT !.pc = pc]]
                  /\ \/ pc = "bars" /\ old.pc = "idle"
                     \/ pc \in {"limit", "sentiment", "done", "failed"}
      BY <1>5 DEF StartReport, SaveHeats, SaveScanned, WriteReport, AfterHeat
    <2>2. PICK pc : /\ report' = [report EXCEPT ![r] = [old EXCEPT !.pc = pc]]
                    /\ \/ pc = "bars" /\ old.pc = "idle"
                       \/ pc \in {"limit", "sentiment", "done", "failed"}
      BY <2>1
    <2> DEFINE run == [old EXCEPT !.pc = pc]
    <2>3. Moves(run)
      BY <1>1, <2>2 DEF ReportTyped, IdleReport
    <2> HIDE DEF run, Moves
    <2>4. QED
      BY <1>4, <2>3
  <1>6. CASE ReportStatementFails(r)
    <2> DEFINE run == [old EXCEPT !.pc = "failed", !.faulted = TRUE]
    <2>1. report' = [report EXCEPT ![r] = run]
      BY <1>6 DEF ReportStatementFails
    <2>2. Moves(run)
      BY <1>1, <2>1 DEF ReportTyped, IdleReport
    <2> HIDE DEF run, Moves
    <2>3. QED
      BY <1>4, <2>2
  <1>7. CASE AnalysisFails(r)
    <2>1. PICK session \in {old.session, "unusable"} :
            report' = [report EXCEPT ![r].session = session, ![r].faulted = TRUE,
                                     ![r].pc = IF @ = "sentiment" THEN "flow" ELSE "write"]
      BY <1>7 DEF AnalysisFails
    <2> DEFINE run == [old EXCEPT !.session = session, !.faulted = TRUE,
                                  !.pc = IF old.pc = "sentiment" THEN "flow" ELSE "write"]
    <2>2. report' = [report EXCEPT ![r] = run]
      BY <2>1
    <2>3. Moves(run)
      BY <1>1, <2>2 DEF ReportTyped, IdleReport
    <2> HIDE DEF run, Moves
    <2>4. QED
      BY <1>4, <2>3
  <1>8. ASSUME NEW pool \in Pools, AnalyseSentiment(r, pool) PROVE InsightTyped'
    <2> DEFINE run == [old EXCEPT !.pc = "flow", !.pool = pool, !.metrics = Ladder(pool),
                                  !.analysed = old.analysed \cup {"sentiment"}]
    <2>1. report' = [report EXCEPT ![r] = run]
      BY <1>8 DEF AnalyseSentiment
    <2>2. Moves(run)
      BY <1>1, <2>1 DEF ReportTyped, IdleReport
    <2> HIDE DEF run, Moves
    <2>3. QED
      BY <1>4, <2>2
  <1>9. ASSUME NEW list \in Lists, AnalyseCapitalFlow(r, list) PROVE InsightTyped'
    <2> DEFINE run == [old EXCEPT !.pc = "write", !.list = list, !.flow = DragonTiger(list),
                                  !.analysed = old.analysed \cup {"flow"}]
    <2>1. report' = [report EXCEPT ![r] = run]
      BY <1>9 DEF AnalyseCapitalFlow
    <2>2. Moves(run)
      BY <1>1, <2>1 DEF ReportTyped, IdleReport
    <2> HIDE DEF run, Moves
    <2>3. QED
      BY <1>4, <2>2
  <1>10. QED
    BY <1>5, <1>6, <1>7, <1>8, <1>9

LEMMA ReadingTyped ==
  ASSUME InsightInv, InsightTyped, NEW r \in ReportRuns, ReadBars(r) \/ ReadConcepts(r)
  PROVE  InsightTyped'
  <1> DEFINE old == report[r]
  <1>1. ReportTyped(old) /\ DOMAIN old = DOMAIN IdleReport /\ feed \in Feeds
    BY DEF InsightTyped, InsightInv, ReportShape
  <1>2. feed' = feed /\ UNCHANGED <<heatTable, limitTable, reportFaults>>
    BY DEF ReadBars, ReadConcepts
  <1>3. ASSUME NEW run, ReportTyped(run), report' = [report EXCEPT ![r] = run] PROVE InsightTyped'
    BY <1>2, <1>3, TypedReportMoves DEF InsightTyped
  <1>4. DOMAIN feed.bars \subseteq ReportCodes /\ DOMAIN feed.stocks \subseteq ReportConcepts
    BY <1>1 DEF ReportCodes, ReportConcepts
  <1>5. CASE ReadBars(r)
    <2>1. PICK pc \in {"done", "concepts"} :
            report' = [report EXCEPT ![r] = [old EXCEPT !.bars = feed.bars, !.st = feed.st,
                                                        !.pc = pc]]
      BY <1>5 DEF ReadBars
    <2> DEFINE run == [old EXCEPT !.bars = feed.bars, !.st = feed.st, !.pc = pc]
    <2>2. /\ run.bars = feed.bars /\ run.pc = pc /\ run.limits = old.limits
          /\ run.heats = old.heats /\ run.analysed = old.analysed /\ run.session = old.session
      BY <1>1 DEF IdleReport
    <2>3. old.pc = "bars"
      BY <1>5 DEF ReadBars
    <2> HIDE DEF run
    <2>4. ReportTyped(run)
      BY <1>1, <1>4, <2>2, <2>3 DEF ReportTyped
    <2>5. QED
      BY <1>3, <2>1, <2>4 DEF run
  <1>6. CASE ReadConcepts(r)
    <2> DEFINE heats == Heats(old.bars, feed.stocks, feed.st_in_concept)
               limits == Scan(old.bars, old.st, feed.stocks)
    <2>1. \E agree, pc :
            /\ report' = [report EXCEPT ![r] = [old EXCEPT !.heats = heats, !.limits = limits,
                                                           !.names_agree = agree, !.pc = pc]]
            /\ pc \in {"heat", "limit", "sentiment"}
      <3>1. \E agree : report' = [report EXCEPT ![r] =
              [old EXCEPT !.heats = heats, !.limits = limits, !.names_agree = agree,
                          !.pc = IF DOMAIN heats = {} THEN AfterHeat(limits) ELSE "heat"]]
        <4> DEFINE agree == \A c \in DOMAIN feed.stocks : \A code \in feed.stocks[c] :
                              code \in old.st <=> code \in feed.st_in_concept
        <4>1. report' = [report EXCEPT ![r] =
                [old EXCEPT !.heats = heats, !.limits = limits, !.names_agree = agree,
                            !.pc = IF DOMAIN heats = {} THEN AfterHeat(limits) ELSE "heat"]]
          BY <1>6 DEF ReadConcepts
        <4> HIDE DEF agree
        <4>2. QED
          BY <4>1
      <3> HIDE DEF heats, limits
      <3>2. AfterHeat(limits) \in {"limit", "sentiment"}
        BY DEF AfterHeat
      <3>3. QED
        BY <3>1, <3>2
    <2>2. PICK agree, pc :
            /\ report' = [report EXCEPT ![r] = [old EXCEPT !.heats = heats, !.limits = limits,
                                                           !.names_agree = agree, !.pc = pc]]
            /\ pc \in {"heat", "limit", "sentiment"}
      BY <2>1
    <2>3. DOMAIN heats \subseteq DOMAIN feed.stocks /\ DOMAIN limits \subseteq DOMAIN old.bars
      BY DEF Heats, Scan
    <2> HIDE DEF heats, limits
    <2> DEFINE run == [old EXCEPT !.heats = heats, !.limits = limits, !.names_agree = agree,
                                  !.pc = pc]
    <2>4. /\ run.bars = old.bars /\ run.pc = pc /\ run.limits = limits
          /\ run.heats = heats /\ run.analysed = old.analysed /\ run.session = old.session
      BY <1>1 DEF IdleReport
    <2> HIDE DEF run
    <2>5. ReportTyped(run)
      BY <1>1, <1>4, <2>2, <2>3, <2>4 DEF ReportTyped
    <2>6. QED
      BY <1>3, <2>2, <2>5 DEF run
  <1>7. QED
    BY <1>5, <1>6

LEMMA InsightTypedNext ==
  ASSUME InsightInv, InsightTyped, [InsightNext]_insightVars PROVE InsightTyped'
  <1>1. CASE UNCHANGED insightVars
    BY <1>1 DEF insightVars, InsightTyped, ReportTyped
  <1>2. ASSUME NEW f \in Feeds, FeedChanges(f) PROVE InsightTyped'
    BY <1>2 DEF FeedChanges, InsightTyped, ReportTyped
  <1>3. QED
    BY <1>1, <1>2, LaterStepsTyped, ReadingTyped DEF InsightNext

\* The limits of a run are of codes whose bars it has read itself, also when the
\* day's data are stored anew between its reads, and neither table gets a concept
\* or a code that the data never had.
THEOREM ReportTypes == InsightSpec => []InsightTypeOK
  <1>1. InsightTyped => InsightTypeOK
    BY DEF InsightTyped, ReportTyped, InsightTypeOK
  <1>2. QED
    BY <1>1, InsightInvInit, InsightInvNext, InsightTypedInit, InsightTypedNext, PTL DEF InsightSpec
=============================================================================
