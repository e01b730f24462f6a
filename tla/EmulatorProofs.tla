---------------------------- MODULE EmulatorProofs ----------------------------
(***************************************************************************)
(* Proofs about Emulator, for any number of orders and any numbers.        *)
(*                                                                         *)
(* TypeCorrect follows the arithmetic: what an order locks is a whole      *)
(* number of steps times a whole number of ticks, so that no division      *)
(* leaves the integers and no amount that is taken is larger than what is  *)
(* there.  PositionKept says that the volumes of the history sum up to the *)
(* balance of the coin; it needs facts about sums and the assumptions *)
(* OneAtATime, CoinsApart and DepositsWhole, defined before the theorem.   *)
(***************************************************************************)
EXTENDS Emulator, FiniteSetTheorems, WellFoundedInduction, NaturalsInduction,
        SequenceTheorems, TLAPS

-----------------------------------------------------------------------------
(* Sums over finite sets.  SumFunctionOnSet is a fold: a recursive         *)
(* function on the subsets of the set, that takes out one element after    *)
(* the other in an order of its own.  These lemmas say that there is such  *)
(* a function, and that the order does not matter.                         *)

(* The element that the fold takes out of a set.                           *)
AnyOf(s) == CHOOSE x \in s : TRUE

(* The function sums f over each subset of S.                              *)
SumsUp(sums, f, S) ==
  sums = [s \in SUBSET S |-> IF s = {} THEN 0 ELSE f[AnyOf(s)] + sums[s \ {AnyOf(s)}]]

(* The function sums f over the subsets of S with at most n elements.      *)
SumsSmall(n, sums, f, S) ==
  sums = [s \in {t \in SUBSET S : Cardinality(t) <= n} |->
            IF s = {} THEN 0 ELSE f[AnyOf(s)] + sums[s \ {AnyOf(s)}]]

(* What is summed over the elements of s is the same.                      *)
SameOn(f, g, s) == \A x \in s : f[x] = g[x]

(* A set of numbers that is not empty has a least one.                     *)
LEMMA LeastNumber ==
  ASSUME NEW T, T \subseteq Nat, T # {}
  PROVE  \E x \in T : \A y \in T : x <= y
<1> DEFINE Below == {pair \in Nat \X Nat : pair[1] < pair[2]}
<1>1. IsWellFoundedOn(Below, Nat)
  BY NatLessThanWellFounded DEF OpToRel
<1>2. PICK x \in T : \A y \in T : ~(<<y, x>> \in Below)
  <2> HIDE DEF Below
  <2>1. \E x \in T : \A y \in T : ~(<<y, x>> \in Below)
    BY <1>1, WFMin
  <2>2. QED
    BY <2>1
<1>3. ASSUME NEW y \in T
      PROVE  x <= y
  <2>1. x \in Nat /\ y \in Nat /\ ~(<<y, x>> \in Below)
    BY <1>2
  <2>2. QED
    BY <2>1
<1>4. QED
  BY <1>3

(* Of some subsets of a finite set, one is such that taking out an element *)
(* leaves none of them.                                                    *)
LEMMA SmallestSet ==
  ASSUME NEW S, IsFiniteSet(S), NEW B \in SUBSET SUBSET S, B # {}
  PROVE  \E s \in B : \A x \in s : s \ {x} \notin B
<1> DEFINE T == {Cardinality(s) : s \in B}
<1>1. \A s \in B : IsFiniteSet(s) /\ Cardinality(s) \in Nat
  BY FS_Subset, FS_CardinalityType
<1>2. PICK n \in T : \A m \in T : n <= m
  <2>1. T \subseteq Nat /\ T # {}
    BY <1>1
  <2> HIDE DEF T
  <2>2. QED
    BY <2>1, LeastNumber
<1>3. PICK s \in B : Cardinality(s) = n
  BY <1>2
<1>4. ASSUME NEW x \in s, s \ {x} \in B PROVE FALSE
  <2>1. Cardinality(s \ {x}) = Cardinality(s) - 1
    BY <1>1, FS_RemoveElement
  <2>2. n <= Cardinality(s \ {x}) /\ n \in Nat
    BY <1>1, <1>2, <1>3, <1>4
  <2>3. QED
    BY <1>3, <2>1, <2>2
<1>5. QED
  BY <1>3, <1>4

(* There is a function that sums f over the small subsets of S, for any    *)
(* bound of their size.                                                    *)
LEMMA SumsUpTo ==
  ASSUME NEW f, NEW S, IsFiniteSet(S), NEW n \in Nat
  PROVE  \E sums : SumsSmall(n, sums, f, S)
<1> DEFINE Small(m) == {t \in SUBSET S : Cardinality(t) <= m}
           Sums(m, g) == g = [s \in Small(m) |-> IF s = {} THEN 0 ELSE f[AnyOf(s)] + g[s \ {AnyOf(s)}]]
           Bad == {m \in Nat : ~\E g : Sums(m, g)}
<1>1. \A s \in SUBSET S : IsFiniteSet(s) /\ Cardinality(s) \in Nat /\ (Cardinality(s) = 0 <=> s = {})
  BY FS_Subset, FS_CardinalityType, FS_EmptySet
<1>2. ASSUME NEW s \in SUBSET S, s # {}
      PROVE  AnyOf(s) \in s /\ s \ {AnyOf(s)} \in SUBSET S /\ Cardinality(s \ {AnyOf(s)}) = Cardinality(s) - 1
  <2>1. AnyOf(s) \in s
    BY <1>2 DEF AnyOf
  <2>2. QED
    BY <1>1, <2>1, FS_RemoveElement
<1>3. ASSUME Bad # {} PROVE FALSE
  <2>1. PICK m \in Bad : \A k \in Bad : m <= k
    <3>1. Bad \subseteq Nat
      OBVIOUS
    <3> HIDE DEF Bad
    <3>2. QED
      BY <1>3, <3>1, LeastNumber
  <2>2. m # 0
    <3>1. Small(0) = {{}}
      BY <1>1
    <3>2. PICK g : g = [s \in {{}} |-> 0]
      OBVIOUS
    <3>3. g = [s \in Small(0) |-> IF s = {} THEN 0 ELSE f[AnyOf(s)] + g[s \ {AnyOf(s)}]]
      <4> HIDE DEF Small
      <4>1. QED
        BY <3>1, <3>2
    <3>4. QED
      BY ZenonT(40), <3>3
  <2>3. m - 1 \in Nat /\ m - 1 \notin Bad
    <3>1. m \in Nat
      BY <2>1
    <3> HIDE DEF Bad
    <3>2. m - 1 \in Nat /\ ~(m <= m - 1)
      BY <2>2, <3>1
    <3>3. QED
      BY <2>1, <3>2
  <2>4. PICK g : Sums(m - 1, g)
    BY <2>3
  <2> DEFINE h == [s \in Small(m) |-> IF s = {} THEN 0 ELSE f[AnyOf(s)] + g[s \ {AnyOf(s)}]]
  <2>5. ASSUME NEW s \in Small(m), s # {}
        PROVE  s \ {AnyOf(s)} \in Small(m - 1) /\ s \ {AnyOf(s)} \in Small(m)
    BY <1>1, <1>2, <2>3, <2>5
  <2>6. ASSUME NEW t \in Small(m - 1), t \in Small(m) PROVE h[t] = g[t]
    BY <2>4, <2>6
  <2>7. \A s \in Small(m) : s # {} => h[s \ {AnyOf(s)}] = g[s \ {AnyOf(s)}]
    <3> HIDE DEF h, Small
    <3>1. QED
      BY <2>5, <2>6
  <2>8. h = [s \in Small(m) |-> IF s = {} THEN 0 ELSE f[AnyOf(s)] + h[s \ {AnyOf(s)}]]
    <3>1. PICK k : k = h
      OBVIOUS
    <3>2. \A s \in Small(m) : s # {} => k[s \ {AnyOf(s)}] = g[s \ {AnyOf(s)}]
      BY <2>7, <3>1
    <3> HIDE DEF Small
    <3>3. k = [s \in Small(m) |-> IF s = {} THEN 0 ELSE f[AnyOf(s)] + g[s \ {AnyOf(s)}]]
      BY <3>1
    <3>4. k = [s \in Small(m) |-> IF s = {} THEN 0 ELSE f[AnyOf(s)] + k[s \ {AnyOf(s)}]]
      BY <3>2, <3>3
    <3> HIDE DEF h
    <3>5. QED
      BY <3>1, <3>4
  <2>9. QED
    BY <2>1, <2>8
<1>4. QED
  BY <1>3 DEF SumsSmall

(* There is a function that sums f over every subset of S.                 *)
LEMMA SumsExist ==
  ASSUME NEW f, NEW S, IsFiniteSet(S)
  PROVE  \E sums : SumsUp(sums, f, S)
<1>1. PICK n \in Nat : n = Cardinality(S)
  BY FS_CardinalityType
<1>2. {t \in SUBSET S : Cardinality(t) <= n} = SUBSET S
  BY <1>1, FS_Subset
<1>3. \E sums : SumsSmall(n, sums, f, S)
  BY SumsUpTo
<1>4. QED
  BY <1>2, <1>3 DEF SumsUp, SumsSmall

(* The sum is the value of such a function at the whole set.               *)
LEMMA SumIsSum ==
  ASSUME NEW f, NEW S, IsFiniteSet(S)
  PROVE  \E sums : SumsUp(sums, f, S) /\ SumFunctionOnSet(f, S) = sums[S]
<1> DEFINE the == CHOOSE sums : SumsUp(sums, f, S)
<1>1. SumsUp(the, f, S)
  BY SumsExist
<1>2. SumFunctionOnSet(f, S) = the[S]
  BY DEF SumFunctionOnSet, FoldFunctionOnSet, MapThenFoldSet, SumsUp, AnyOf
<1> HIDE DEF the
<1>3. QED
  BY <1>1, <1>2

(* Two such functions agree where the numbers they sum do.                 *)
LEMMA SumsAgree ==
  ASSUME NEW f, NEW g, NEW S, NEW T, IsFiniteSet(S), NEW sums, SumsUp(sums, f, S),
         NEW others, SumsUp(others, g, T), NEW s \in SUBSET S, s \subseteq T,
         SameOn(f, g, s)
  PROVE  sums[s] = others[s]
<1> DEFINE B == {t \in SUBSET S : t \subseteq s /\ sums[t] # others[t]}
<1>1. ASSUME B # {} PROVE FALSE
  <2>1. PICK t \in B : \A x \in t : t \ {x} \notin B
    <3>1. B \in SUBSET SUBSET S
      OBVIOUS
    <3> HIDE DEF B
    <3>2. QED
      BY <1>1, <3>1, SmallestSet
  <2>2. t \in SUBSET S /\ t \in SUBSET T /\ t \subseteq s /\ sums[t] # others[t]
    BY <2>1
  <2>3. /\ sums[t] = IF t = {} THEN 0 ELSE f[AnyOf(t)] + sums[t \ {AnyOf(t)}]
        /\ others[t] = IF t = {} THEN 0 ELSE g[AnyOf(t)] + others[t \ {AnyOf(t)}]
    BY <2>2 DEF SumsUp
  <2>4. t # {} /\ AnyOf(t) \in t
    BY <2>2, <2>3 DEF AnyOf
  <2>5. t \ {AnyOf(t)} \in SUBSET S /\ t \ {AnyOf(t)} \subseteq s /\ t \ {AnyOf(t)} \notin B
    BY <2>1, <2>2, <2>4
  <2>6. sums[t \ {AnyOf(t)}] = others[t \ {AnyOf(t)}] /\ f[AnyOf(t)] = g[AnyOf(t)]
    BY <2>2, <2>4, <2>5 DEF SameOn
  <2>7. QED
    BY <2>2, <2>3, <2>4, <2>6
<1>2. QED
  BY <1>1

(* The sums of integers are integers.                                      *)
LEMMA SumsTyped ==
  ASSUME NEW f, NEW S, IsFiniteSet(S), NEW N \in {Nat, Int}, \A x \in S : f[x] \in N,
         NEW sums, SumsUp(sums, f, S), NEW s \in SUBSET S
  PROVE  sums[s] \in N
<1> DEFINE B == {t \in SUBSET S : sums[t] \notin N}
<1>1. ASSUME B # {} PROVE FALSE
  <2>1. PICK t \in B : \A x \in t : t \ {x} \notin B
    <3>1. B \in SUBSET SUBSET S
      OBVIOUS
    <3> HIDE DEF B
    <3>2. QED
      BY <1>1, <3>1, SmallestSet
  <2>2. t \in SUBSET S /\ sums[t] \notin N
    BY <2>1
  <2>3. sums[t] = IF t = {} THEN 0 ELSE f[AnyOf(t)] + sums[t \ {AnyOf(t)}]
    BY <2>2 DEF SumsUp
  <2>4. t # {} /\ AnyOf(t) \in t
    BY <2>2, <2>3 DEF AnyOf
  <2>5. sums[t \ {AnyOf(t)}] \in N /\ f[AnyOf(t)] \in N
    BY <2>1, <2>2, <2>4
  <2>6. QED
    BY <2>2, <2>3, <2>4, <2>5
<1>2. QED
  BY <1>1

(* Any element may be taken out first.                                     *)
LEMMA SumsTakeOut ==
  ASSUME NEW f, NEW S, IsFiniteSet(S), \A x \in S : f[x] \in Int,
         NEW sums, SumsUp(sums, f, S), NEW s \in SUBSET S, NEW y \in s
  PROVE  sums[s] = f[y] + sums[s \ {y}]
<1> DEFINE B == {t \in SUBSET S : \E x \in t : sums[t] # f[x] + sums[t \ {x}]}
<1>1. \A t \in SUBSET S : sums[t] \in Int
  BY SumsTyped
<1>2. ASSUME B # {} PROVE FALSE
  <2>1. PICK t \in B : \A x \in t : t \ {x} \notin B
    <3>1. B \in SUBSET SUBSET S
      OBVIOUS
    <3> HIDE DEF B
    <3>2. QED
      BY <1>2, <3>1, SmallestSet
  <2>2. PICK x \in t : sums[t] # f[x] + sums[t \ {x}]
    BY <2>1
  <2>3. t \in SUBSET S /\ t # {} /\ AnyOf(t) \in t
    BY <2>1, <2>2 DEF AnyOf
  <2>4. sums[t] = f[AnyOf(t)] + sums[t \ {AnyOf(t)}]
    BY <2>3 DEF SumsUp
  <2>5. x # AnyOf(t)
    BY <2>2, <2>4
  <2>6. /\ t \ {x} \in SUBSET S /\ t \ {x} \notin B /\ AnyOf(t) \in t \ {x}
        /\ t \ {AnyOf(t)} \in SUBSET S /\ t \ {AnyOf(t)} \notin B /\ x \in t \ {AnyOf(t)}
    BY <2>1, <2>2, <2>3, <2>5
  <2>7. sums[t \ {x}] = f[AnyOf(t)] + sums[(t \ {x}) \ {AnyOf(t)}]
    BY <2>6
  <2>8. sums[t \ {AnyOf(t)}] = f[x] + sums[(t \ {AnyOf(t)}) \ {x}]
    BY <2>6
  <2>9. (t \ {x}) \ {AnyOf(t)} = (t \ {AnyOf(t)}) \ {x} /\ (t \ {x}) \ {AnyOf(t)} \in SUBSET S
    BY <2>6
  <2>10. PICK rest \in Int : rest = sums[(t \ {x}) \ {AnyOf(t)}]
    BY <1>1, <2>9
  <2>11. PICK a \in Int, b \in Int : a = f[x] /\ b = f[AnyOf(t)]
    BY <2>2, <2>3
  <2>12. sums[t] = b + (a + rest)
    BY <2>4, <2>8, <2>9, <2>10, <2>11
  <2>13. sums[t] # a + (b + rest)
    BY <2>2, <2>7, <2>10, <2>11
  <2>14. b + (a + rest) = a + (b + rest)
    OBVIOUS
  <2>15. QED
    BY <2>12, <2>13, <2>14
<1>3. QED
  BY <1>2

-----------------------------------------------------------------------------
(* What is used of sums.                                                   *)

(* Nothing adds up to nothing.                                             *)
LEMMA SumEmpty ==
  ASSUME NEW f
  PROVE  SumFunctionOnSet(f, {}) = 0
<1>1. PICK sums : SumsUp(sums, f, {}) /\ SumFunctionOnSet(f, {}) = sums[{}]
  BY SumIsSum, FS_EmptySet
<1>2. QED
  BY <1>1 DEF SumsUp

(* A sum of integers is one, and a sum of naturals is one.                 *)
LEMMA SumTyped ==
  ASSUME NEW f, NEW S, IsFiniteSet(S), NEW N \in {Nat, Int}, \A x \in S : f[x] \in N
  PROVE  SumFunctionOnSet(f, S) \in N
<1>1. PICK sums : SumsUp(sums, f, S) /\ SumFunctionOnSet(f, S) = sums[S]
  BY SumIsSum
<1>2. QED
  BY <1>1, SumsTyped

(* Equal numbers have equal sums.                                          *)
LEMMA SumEqual ==
  ASSUME NEW f, NEW g, NEW S, IsFiniteSet(S), \A x \in S : f[x] = g[x]
  PROVE  SumFunctionOnSet(f, S) = SumFunctionOnSet(g, S)
<1>1. PICK sums : SumsUp(sums, f, S) /\ SumFunctionOnSet(f, S) = sums[S]
  BY SumIsSum
<1>2. PICK others : SumsUp(others, g, S) /\ SumFunctionOnSet(g, S) = others[S]
  BY SumIsSum
<1>3. sums[S] = others[S]
  <2>1. PICK s \in SUBSET S : s = S
    OBVIOUS
  <2>2. s \subseteq S /\ SameOn(f, g, s)
    BY DEF SameOn
  <2>3. SumsUp(sums, f, S) /\ SumsUp(others, g, S)
    BY <1>1, <1>2
  <2>4. sums[s] = others[s]
    BY <2>1, <2>2, <2>3, SumsAgree
  <2>5. QED
    BY <2>1, <2>4
<1>4. QED
  BY <1>1, <1>2, <1>3

(* An element more adds its number.                                        *)
LEMMA SumAdd ==
  ASSUME NEW f, NEW S, IsFiniteSet(S), NEW x, x \notin S, \A y \in S \cup {x} : f[y] \in Int
  PROVE  SumFunctionOnSet(f, S \cup {x}) = f[x] + SumFunctionOnSet(f, S)
<1> DEFINE all == S \cup {x}
<1>1. IsFiniteSet(all) /\ all \ {x} = S /\ x \in all /\ S \in SUBSET all
  BY FS_AddElement
<1>2. \A y \in all : f[y] \in Int
  OBVIOUS
<1> HIDE DEF all
<1>3. PICK sums : SumsUp(sums, f, all) /\ SumFunctionOnSet(f, all) = sums[all]
  BY <1>1, SumIsSum
<1>4. PICK others : SumsUp(others, f, S) /\ SumFunctionOnSet(f, S) = others[S]
  BY SumIsSum
<1>5. sums[all] = f[x] + sums[S]
  BY <1>1, <1>2, <1>3, SumsTakeOut
<1>6. sums[S] = others[S]
  <2>1. SameOn(f, f, S)
    BY DEF SameOn
  <2>2. QED
    BY <1>1, <1>3, <1>4, <2>1, SumsAgree
<1>7. QED
  BY <1>3, <1>4, <1>5, <1>6 DEF all

(* A sum of naturals of which one is not zero is not zero.                 *)
LEMMA SumPositive ==
  ASSUME NEW f, NEW S, IsFiniteSet(S), \A y \in S : f[y] \in Nat, NEW x \in S, f[x] > 0
  PROVE  SumFunctionOnSet(f, S) \in Nat \ {0}
<1>1. IsFiniteSet(S \ {x}) /\ (S \ {x}) \cup {x} = S /\ x \notin S \ {x}
  BY FS_RemoveElement
<1>2. SumFunctionOnSet(f, S \ {x}) \in Nat
  BY <1>1, SumTyped
<1>3. SumFunctionOnSet(f, S) = f[x] + SumFunctionOnSet(f, S \ {x})
  <2> DEFINE R == S \ {x}
  <2>1. \A y \in R \cup {x} : f[y] \in Int
    OBVIOUS
  <2>2. IsFiniteSet(R) /\ x \notin R /\ R \cup {x} = S
    BY <1>1
  <2> HIDE DEF R
  <2>3. SumFunctionOnSet(f, R \cup {x}) = f[x] + SumFunctionOnSet(f, R)
    BY <2>1, <2>2, SumAdd
  <2>4. QED
    BY <2>2, <2>3 DEF R
<1>4. QED
  BY <1>2, <1>3

-----------------------------------------------------------------------------
(* The arithmetic of steps and ticks.                                      *)

(* Integer division leaves a remainder that is less than the divisor.      *)
LEMMA Division ==
  ASSUME NEW x \in Int, NEW d \in Nat \ {0}
  PROVE  /\ x \div d \in Int /\ (x \div d) * d <= x /\ x < (x \div d) * d + d
         /\ x \in Nat => x \div d \in Nat
         /\ x >= d => x \div d > 0
<1>1. x \div d \in Int /\ x = d * (x \div d) + (x % d) /\ x % d \in 0 .. d - 1
  OBVIOUS
<1>2. PICK q \in Int, r \in 0 .. d - 1 : q = x \div d /\ x = d * q + r
  BY <1>1
<1>3. q * d <= x /\ x < q * d + d
  BY <1>2
<1>4. q < 0 => q * d + d <= 0
  BY <1>2
<1>5. x \in Nat => q \in Nat
  BY <1>2, <1>3, <1>4
<1>6. q <= 0 => q * d <= 0
  BY <1>2
<1>7. x >= d => q > 0
  BY <1>2, <1>3, <1>6
<1>8. QED
  BY <1>2, <1>3, <1>5, <1>7

(* A number of whole steps.                                                *)
Whole(n, value) == \E k \in Int : n = k * value
Multiple(n) == Whole(n, StepSize)

(* Rounding cuts less than a step and leaves what is whole steps.          *)
LEMMA RoundingDown ==
  ASSUME NEW value \in Nat \ {0}, NEW x \in Int
  PROVE  /\ rounding(value, x) \in Int
         /\ rounding(value, x) <= x /\ x < rounding(value, x) + value
         /\ Whole(rounding(value, x), value)
         /\ x \in Nat => rounding(value, x) \in Nat
         /\ x >= value => rounding(value, x) >= value
         /\ Whole(x, value) => rounding(value, x) = x
<1>1. PICK q \in Int : q = x \div value /\ q * value <= x /\ x < q * value + value
                       /\ (x \in Nat => q \in Nat) /\ (x >= value => q > 0)
  BY Division
<1>2. rounding(value, x) = q * value
  BY <1>1 DEF rounding
<1>3. x \in Nat => q * value \in Nat
  BY <1>1
<1>4. q > 0 => q * value >= value
  <2>1. ASSUME q > 0 PROVE (q - 1) * value >= 0
    BY <2>1
  <2>2. (q - 1) * value = q * value - value
    BY <1>1
  <2>3. QED
    BY <2>1, <2>2
<1>5. ASSUME NEW k \in Int, x = k * value PROVE q = k
  <2>1. q * value <= k * value /\ k * value < q * value + value
    BY <1>1, <1>5
  <2>2. ASSUME q < k PROVE FALSE
    <3>1. (k - q - 1) * value >= 0
      BY <2>2
    <3>2. (k - q - 1) * value = k * value - q * value - value
      OBVIOUS
    <3>3. QED
      BY <2>1, <3>1, <3>2
  <2>3. ASSUME k < q PROVE FALSE
    <3>1. (q - k) * value > 0
      BY <2>3
    <3>2. (q - k) * value = q * value - k * value
      OBVIOUS
    <3>3. QED
      BY <2>1, <3>1, <3>2
  <2>4. QED
    BY <2>2, <2>3
<1>6. PICK m \in Int : m = q * value
  BY <1>1
<1>7. m <= x /\ x < m + value /\ (x \in Nat => m \in Nat) /\ (x >= value => m >= value)
  BY <1>1, <1>3, <1>4, <1>6
<1>8. Whole(m, value)
  BY <1>1, <1>6 DEF Whole
<1>9. Whole(x, value) => m = x
  BY <1>5, <1>6 DEF Whole
<1>10. rounding(value, x) = m
  BY <1>2, <1>6
<1>11. QED
  BY ONLY <1>6, <1>7, <1>8, <1>9, <1>10

(* Rounding up adds less than a step.                                      *)
LEMMA RoundingUp ==
  ASSUME NEW value \in Nat \ {0}, NEW x \in Int
  PROVE  /\ roundingCeil(value, x) \in Int
         /\ roundingCeil(value, x) >= x /\ roundingCeil(value, x) < x + value
         /\ Whole(roundingCeil(value, x), value)
         /\ x > 0 => roundingCeil(value, x) >= value
<1> DEFINE y == x + value - 1
<1>1. y \in Int /\ roundingCeil(value, x) = rounding(value, y)
  BY DEF roundingCeil, rounding
<1>2. x > 0 => y >= value
  OBVIOUS
<1>3. /\ rounding(value, y) \in Int
      /\ rounding(value, y) <= y /\ y < rounding(value, y) + value
      /\ Whole(rounding(value, y), value)
      /\ y >= value => rounding(value, y) >= value
  <2> HIDE DEF y
  <2>1. QED
    BY <1>1, RoundingDown
<1>4. QED
  BY <1>1, <1>2, <1>3

(* A purchase that is made larger is made one of a step at least.          *)
LEMMA RaisedTyped ==
  ASSUME NEW price \in Nat \ {0}, NEW step \in Int, step >= StepSize, price * step <= MinNotional
  PROVE  RaisedVolume(price) \in Nat \ {0} /\ Multiple(RaisedVolume(price))
<1>1. /\ Unit \in Nat \ {0} /\ StepSize \in Nat \ {0} /\ MinNotional \in Nat /\ TradeFee \in Nat
  BY FiltersAssumption, SharesAssumption
<1>2. PICK a \in Nat : a = price * StepSize
  BY <1>1
<1>3. a > 0 /\ a <= MinNotional
  <2>1. price * (step - StepSize) >= 0
    BY <1>1
  <2>2. price * (step - StepSize) = price * step - price * StepSize
    BY <1>1
  <2>3. price * StepSize > 0
    BY <1>1
  <2>4. QED
    BY <1>1, <1>2, <2>1, <2>2, <2>3
<1>4. PICK x \in Int : x = MinNotional * (Unit + TradeFee)
  BY <1>1
<1>5. PICK d \in Int : d = Unit * price * StepSize
  BY <1>1
<1>6. d = Unit * a
  BY <1>1, <1>2, <1>5
<1>7. d > 0
  BY <1>1, <1>3, <1>6
<1>8. x >= d
  <2>1. Unit * (MinNotional - a) >= 0
    BY <1>1, <1>3
  <2>2. Unit * (MinNotional - a) = Unit * MinNotional - Unit * a
    BY <1>1
  <2>3. x = Unit * MinNotional + MinNotional * TradeFee
    BY <1>1, <1>4
  <2>4. MinNotional * TradeFee >= 0
    BY <1>1
  <2>5. PICK u \in Int, m \in Int : u = Unit * MinNotional /\ m = MinNotional * TradeFee
    BY <1>1
  <2>6. QED
    BY <1>6, <2>1, <2>2, <2>3, <2>4, <2>5
<1>9. PICK q \in Int : q = x \div d /\ q > 0
  BY <1>7, <1>8, Division
<1>10. RaisedVolume(price) = q * StepSize
  BY <1>4, <1>5, <1>9 DEF RaisedVolume
<1>11. q * StepSize > 0
  BY <1>1, <1>9
<1>12. QED
  BY <1>1, <1>9, <1>10, <1>11 DEF Multiple, Whole

(* The order that is sent for what is asked for: tick its price, sent its  *)
(* volume.                                                                 *)
Sent(side, price, volume, tick, sent) ==
  /\ Fitted(side, price, volume) = FittedOrder(side, tick, sent)
  /\ tick * sent \in Nat /\ Multiple(sent)
  /\ side = "Buy" => sent > 0
  /\ side = "Sell" => sent = rounding(StepSize, volume)

(* What is sent of an order that a step asks for: a price of whole ticks,  *)
(* a volume of whole steps, and a purchase is of something.                *)
LEMMA FittedTyped ==
  ASSUME NEW side \in {"Buy", "Sell"}, NEW price \in Nat, NEW volume \in Nat,
         side = "Buy" => price >= TickSize /\ volume > 0
  PROVE  \E tick \in Nat, sent \in Nat : Sent(side, price, volume, tick, sent)
<1> DEFINE tick == rounding(TickSize, price)
           step == IF side = "Buy" THEN roundingCeil(StepSize, volume) ELSE rounding(StepSize, volume)
           small == side = "Buy" /\ tick * step <= MinNotional
           sent == IF small THEN RaisedVolume(tick) ELSE step
<1>1. TickSize \in Nat \ {0} /\ StepSize \in Nat \ {0}
  BY FiltersAssumption
<1>2. tick \in Nat /\ (side = "Buy" => tick > 0)
  BY <1>1, RoundingDown
<1>3. step \in Nat /\ Multiple(step) /\ (side = "Buy" => step >= StepSize)
  <2>1. /\ roundingCeil(StepSize, volume) \in Int /\ roundingCeil(StepSize, volume) >= volume
        /\ Multiple(roundingCeil(StepSize, volume))
        /\ volume > 0 => roundingCeil(StepSize, volume) >= StepSize
    <3>1. /\ roundingCeil(StepSize, volume) \in Int
          /\ roundingCeil(StepSize, volume) >= volume
          /\ Whole(roundingCeil(StepSize, volume), StepSize)
          /\ volume > 0 => roundingCeil(StepSize, volume) >= StepSize
      BY ONLY <1>1, volume \in Nat, RoundingUp
    <3>2. QED
      BY <3>1 DEF Multiple
  <2>2. rounding(StepSize, volume) \in Nat /\ Multiple(rounding(StepSize, volume))
    <3>1. /\ rounding(StepSize, volume) \in Nat
          /\ Whole(rounding(StepSize, volume), StepSize)
      BY ONLY <1>1, volume \in Nat, RoundingDown
    <3>2. QED
      BY <3>1 DEF Multiple
  <2>3. QED
    BY <1>1, <2>1, <2>2
<1> HIDE DEF tick, step
<1>4. small => RaisedVolume(tick) \in Nat \ {0} /\ Multiple(RaisedVolume(tick))
  BY <1>2, <1>3, RaisedTyped
<1>5. sent \in Nat /\ Multiple(sent) /\ (side = "Buy" => sent > 0) /\ (side = "Sell" => sent = step)
  BY <1>1, <1>3, <1>4
<1>6. Fitted(side, price, volume) = FittedOrder(side, tick, sent)
  BY DEF Fitted, tick, step
<1> HIDE DEF sent
<1>7. tick * sent \in Nat
  BY <1>2, <1>5
<1>8. side = "Sell" => sent = rounding(StepSize, volume)
  BY <1>5 DEF step
<1>9. Sent(side, price, volume, tick, sent)
  BY <1>5, <1>6, <1>7, <1>8 DEF Sent
<1>10. QED
  BY <1>2, <1>5, <1>9

(* The price of a sale is a number when something was bought.              *)
LEMMA StopLossTyped ==
  ASSUME NEW baseVolume \in Nat, NEW volume \in Nat \ {0}, NEW profit \in Nat
  PROVE  calculateStopLoss(baseVolume, volume, profit) \in Nat
<1>1. Unit \in Nat \ {0} /\ TradeFee \in Nat
  BY FiltersAssumption, SharesAssumption
<1>2. PICK a \in Nat : a = baseVolume * (Unit + TradeFee) * (Unit + profit + TradeFee)
  <2>1. baseVolume * (Unit + TradeFee) \in Nat /\ Unit + profit + TradeFee \in Nat
    BY <1>1
  <2>2. QED
    BY <2>1
<1>3. PICK d \in Nat \ {0} : d = Unit * Unit * volume
  <2>1. Unit * Unit \in Nat \ {0}
    BY <1>1
  <2>2. Unit * Unit * volume \in Nat \ {0}
    BY <2>1
  <2>3. QED
    BY <2>2
<1>4. calculateStopLoss(baseVolume, volume, profit) = a \div d
  BY <1>2, <1>3 DEF calculateStopLoss
<1>5. QED
  BY <1>2, <1>3, <1>4, Division

-----------------------------------------------------------------------------
(* Types.  A sale's price divides by what the cycle bought, so a purchase  *)
(* of nothing must not be in the history; and what is posted must be of    *)
(* its kind, so that a merge leaves the storages well formed.              *)

GoodOrders == {o \in Orders : Multiple(o.volume) /\ (o.side = "Buy" => o.volume > 0)}
Sales == {o \in GoodOrders : o.side = "Sell"}
Places == Currencies \union {Unknown}
Changes == UNION {[S -> Amounts] : S \in SUBSET Places}
Posts == [kind : {"open"}, pair : Pairs, data : Sales]
         \union [kind : {"trade"}, pair : Pairs, data : GoodOrders]
         \union [kind : {"balances"}, pair : Pairs, data : Changes]

TypeInv ==
  /\ balances \in [Currencies -> Amounts]
  /\ openOrders \subseteq Sales
  /\ history \in [Pairs -> Seq(GoodOrders)]
  /\ queue \in Seq(Posts)
  /\ submitted \in 0 .. MaxOrders
  /\ running \in BOOLEAN

(* The filters and the constants are what they are assumed to be.          *)
LEMMA ConstantsTyped ==
  /\ Unit \in Nat \ {0} /\ TickSize \in Nat \ {0} /\ StepSize \in Nat \ {0}
  /\ TradeFee \in Nat /\ MinNotional \in Nat /\ Profit \in Nat /\ MaxOrders \in Nat
  /\ Unknown \notin Currencies
  /\ \A p \in Pairs : /\ Coin[p] \in Currencies /\ Base[p] \in Currencies
                      /\ CoinSlice[p] \in Places /\ BaseSlice[p] \in Places
BY FiltersAssumption, SharesAssumption, EmulatorAssumption, CoinsAssumption, SlicesAssumption
   DEF Places

(* Nothing is cut from whole steps.                                        *)
LEMMA WholeStepsKept ==
  ASSUME NEW amount \in Nat, Multiple(amount)
  PROVE  rounding(StepSize, amount) = amount
<1>1. StepSize \in Nat \ {0} /\ amount \in Int
  BY ConstantsTyped
<1>2. Whole(amount, StepSize)
  BY DEF Multiple
<1>3. QED
  BY ONLY <1>1, <1>2, RoundingDown

(* A balance made of two amounts is one.                                   *)
LEMMA BalanceTyped ==
  ASSUME NEW available \in Int, NEW held \in Nat
  PROVE  Balance(available, held) \in Amounts
BY DEF Balance, Amounts

(* What is found of a currency, known or not, is a balance.                *)
LEMMA FoundTyped ==
  ASSUME balances \in [Currencies -> Amounts], NEW c
  PROVE  find(c) \in Amounts /\ find(c).available \in Int /\ find(c).held \in Nat
<1>1. Balance(0, 0) \in Amounts
  BY BalanceTyped
<1>2. find(c) \in Amounts
  BY <1>1 DEF find
<1>3. QED
  BY <1>2 DEF Amounts

(* What is paid or received leaves a balance.                              *)
LEMMA AddedTyped ==
  ASSUME balances \in [Currencies -> Amounts], NEW c, NEW amount \in Int
  PROVE  Added(c, amount) \in Amounts
BY FoundTyped, BalanceTyped DEF Added

(* A change of one balance.                                                *)
LEMMA EntryTyped ==
  ASSUME NEW c \in Places, NEW balance \in Amounts
  PROVE  Entry(c, balance) \in Changes
<1>1. {c} \in SUBSET Places /\ Entry(c, balance) \in [{c} -> Amounts]
  BY DEF Entry
<1>2. QED
  BY <1>1 DEF Changes

(* A change of the two balances of a pair.                                 *)
LEMMA EntriesTyped ==
  ASSUME NEW p \in Pairs, NEW coin \in Amounts, NEW base \in Amounts
  PROVE  Entries(p, coin, base) \in Changes
<1> DEFINE both == {CoinSlice[p], BaseSlice[p]}
<1>1. both \in SUBSET Places
  BY ConstantsTyped
<1>2. Entries(p, coin, base) \in [both -> Amounts]
  BY DEF Entries
<1>3. QED
  BY <1>1, <1>2 DEF Changes

(* What is posted waits in the queue.                                      *)
LEMMA PostedTyped ==
  ASSUME NEW p \in Pairs, NEW kind, NEW data,
         \/ kind = "open" /\ data \in Sales
         \/ kind = "trade" /\ data \in GoodOrders
         \/ kind = "balances" /\ data \in Changes
  PROVE  Posted(p, kind, data) \in Seq(Posts)
<1>1. [kind |-> kind, pair |-> p, data |-> data] \in Posts
  BY DEF Posts
<1>2. QED
  BY <1>1 DEF Posted

(* The storage keeps balances when it merges a change.                     *)
LEMMA MergedTyped ==
  ASSUME NEW stored \in [Currencies -> Amounts], NEW entries \in Changes
  PROVE  Merged(stored, entries) \in [Currencies -> Amounts]
<1>1. \A c \in DOMAIN entries : entries[c] \in Amounts
  BY DEF Changes
<1>2. QED
  BY <1>1 DEF Merged

(* The trades of a pair have numbers that can be summed up.                *)
LEMMA HistoryTyped ==
  ASSUME history \in [Pairs -> Seq(GoodOrders)], NEW p \in Pairs
  PROVE  /\ IsFiniteSet(DOMAIN history[p])
         /\ \A i \in DOMAIN history[p] :
              /\ history[p][i] \in GoodOrders
              /\ history[p][i].volume \in Nat /\ history[p][i].base \in Nat
<1>1. PICK trades \in Seq(GoodOrders) : trades = history[p]
  OBVIOUS
<1>2. DOMAIN trades = 1 .. Len(trades) /\ Len(trades) \in Nat
  BY LenProperties
<1>3. IsFiniteSet(DOMAIN trades)
  BY <1>2, FS_Interval
<1>4. ASSUME NEW i \in DOMAIN trades PROVE trades[i] \in GoodOrders
  BY <1>2, ElementOfSeq
<1>5. QED
  BY <1>1, <1>3, <1>4 DEF GoodOrders, Orders

(* What some of them add up to is a number.                                *)
LEMMA TradesSum ==
  ASSUME history \in [Pairs -> Seq(GoodOrders)], NEW p \in Pairs,
         NEW I \in SUBSET DOMAIN history[p], NEW amount \in {"volume", "base"}
  PROVE  /\ Sum(p, I, amount) \in Nat /\ IsFiniteSet(I)
         /\ \A i \in I : [j \in I |-> history[p][j][amount]][i] \in Nat
<1>1. IsFiniteSet(I)
  BY HistoryTyped, FS_Subset
<1>2. \A i \in I : [j \in I |-> history[p][j][amount]][i] \in Nat
  BY HistoryTyped
<1>3. PICK f : f = [j \in I |-> history[p][j][amount]]
  OBVIOUS
<1>4. SumFunctionOnSet(f, I) \in Nat
  BY <1>1, <1>2, <1>3, SumTyped
<1>5. QED
  BY <1>1, <1>2, <1>3, <1>4 DEF Sum

(* The cycle has a price: something was bought in it.                      *)
LEMMA CyclePriced ==
  ASSUME history \in [Pairs -> Seq(GoodOrders)], NEW p \in Pairs, Cycle(p) # {}
  PROVE  calculateStopLoss(Sum(p, Cycle(p), "base"), Sum(p, Cycle(p), "volume"), Profit) \in Nat
<1>1. Cycle(p) \in SUBSET DOMAIN history[p] /\ \A i \in Cycle(p) : history[p][i].side = "Buy"
  BY DEF Cycle
<1>2. PICK I : I = Cycle(p)
  OBVIOUS
<1>3. PICK x : x \in I
  BY <1>2
<1>4. history[p][x].volume > 0
  BY <1>1, <1>2, <1>3, HistoryTyped DEF GoodOrders
<1>5. PICK f : f = [j \in I |-> history[p][j]["volume"]]
  OBVIOUS
<1>6. IsFiniteSet(I) /\ (\A i \in I : f[i] \in Nat) /\ f[x] > 0
  BY <1>1, <1>2, <1>3, <1>4, <1>5, TradesSum
<1>7. SumFunctionOnSet(f, I) \in Nat \ {0}
  BY <1>3, <1>6, SumPositive
<1>8. Sum(p, I, "volume") \in Nat \ {0}
  BY <1>5, <1>7 DEF Sum
<1>9. Sum(p, I, "base") \in Nat
  BY <1>1, <1>2, TradesSum
<1>10. QED
  BY <1>2, <1>8, <1>9, ConstantsTyped, StopLossTyped

(* What a step submits is an order.                                        *)
LEMMA OrderTyped ==
  ASSUME submitted \in 0 .. MaxOrders, submitted < MaxOrders, NEW p \in Pairs,
         NEW side \in {"Buy", "Sell"}, NEW price \in Nat, NEW volume \in Nat,
         side = "Buy" => price >= TickSize /\ volume > 0
  PROVE  LET order == Order(p, Fitted(side, price, volume))
         IN /\ order \in GoodOrders /\ order.pair = p /\ order.side = side
            /\ order.volume \in Nat /\ order.base \in Nat
            /\ side = "Sell" => order.volume = rounding(StepSize, volume)
<1> DEFINE order == Order(p, Fitted(side, price, volume))
<1>0. PICK tick \in Nat, sent \in Nat : Sent(side, price, volume, tick, sent)
  BY FittedTyped
<1>1. /\ Fitted(side, price, volume) = FittedOrder(side, tick, sent)
      /\ tick * sent \in Nat /\ Multiple(sent)
      /\ side = "Buy" => sent > 0
      /\ side = "Sell" => sent = rounding(StepSize, volume)
  BY <1>0 DEF Sent
<1>2. PICK paid \in Nat : paid = tick * sent
  BY <1>1
<1>3. order = [id |-> submitted + 1, pair |-> p, side |-> side,
               price |-> tick, volume |-> sent, base |-> paid]
  BY <1>1, <1>2 DEF Order, FittedOrder
<1>4. submitted + 1 \in 1 .. MaxOrders
  BY ConstantsTyped
<1> HIDE DEF order
<1>5. order \in Orders
  BY <1>3, <1>4 DEF Orders
<1>6. order \in GoodOrders
  BY <1>1, <1>3, <1>5 DEF GoodOrders
<1>7. QED
  BY <1>1, <1>2, <1>3, <1>6 DEF order

(* Submitting it posts what it is and what it does to the balances.        *)
LEMMA SubmitTyped ==
  ASSUME TypeInv, NEW p \in Pairs, NEW side \in {"Buy", "Sell"},
         NEW price \in Nat, NEW volume \in Nat,
         side = "Buy" => price >= TickSize /\ volume > 0, submitOrder(p, side, price, volume)
  PROVE  TypeInv'
<1>1. /\ balances \in [Currencies -> Amounts] /\ queue \in Seq(Posts)
      /\ submitted \in 0 .. MaxOrders /\ submitted < MaxOrders
  BY DEF TypeInv, submitOrder
<1>2. PICK order : order = Order(p, Fitted(side, price, volume))
  OBVIOUS
<1>3. /\ order \in GoodOrders /\ order.side = side
      /\ order.volume \in Nat /\ order.base \in Nat
  BY <1>1, <1>2, OrderTyped
<1> DEFINE bought == Entries(p, Added(CoinSlice[p], order.volume), Added(BaseSlice[p], -order.base))
           offered == Entry(CoinSlice[p], Balance(0, order.volume))
<1>4. bought \in Changes
  <2>1. -order.base \in Int /\ order.volume \in Int
    BY <1>3
  <2>2. Added(CoinSlice[p], order.volume) \in Amounts /\ Added(BaseSlice[p], -order.base) \in Amounts
    BY <1>1, <2>1, AddedTyped
  <2>3. QED
    BY <2>2, EntriesTyped
<1>5. offered \in Changes
  BY <1>3, BalanceTyped, EntryTyped, ConstantsTyped
<1>6. /\ Posted(p, "trade", order) \in Seq(Posts)
      /\ side = "Sell" => Posted(p, "open", order) \in Seq(Posts)
      /\ Posted(p, "balances", bought) \in Seq(Posts)
      /\ Posted(p, "balances", offered) \in Seq(Posts)
  <2> HIDE DEF bought, offered
  <2>1. side = "Sell" => order \in Sales
    BY <1>3 DEF Sales
  <2>2. QED
    BY <1>3, <1>4, <1>5, <2>1, PostedTyped
<1>7. queue' = queue \o IF side = "Buy"
                        THEN Posted(p, "trade", order) \o Posted(p, "balances", bought)
                        ELSE Posted(p, "open", order) \o Posted(p, "balances", offered)
  BY <1>2 DEF submitOrder
<1>8. queue' \in Seq(Posts)
  <2> HIDE DEF bought, offered
  <2>1. CASE side = "Buy"
    BY <1>1, <1>6, <1>7, <2>1, ConcatProperties
  <2>2. CASE side = "Sell"
    BY <1>1, <1>6, <1>7, <2>2, ConcatProperties
  <2>3. QED
    BY <2>1, <2>2
<1>9. submitted' \in 0 .. MaxOrders
  BY <1>1, ConstantsTyped DEF submitOrder
<1>10. UNCHANGED <<balances, openOrders, history, running>>
  BY DEF submitOrder
<1>11. QED
  BY <1>8, <1>9, <1>10 DEF TypeInv

(* A purchase keeps the types.                                             *)
LEMMA BuyTyped ==
  ASSUME TypeInv, NEW p \in Pairs, NEW price \in Prices, NEW volume \in Volumes, Buy(p, price, volume)
  PROVE  TypeInv'
<1>1. price \in Nat /\ price >= TickSize /\ volume \in Nat /\ volume > 0
  BY QuotesAssumption
<1>2. QED
  BY <1>1, SubmitTyped DEF Buy

(* So does a sale: it is of what is there and has a price.                 *)
LEMMA SellTyped ==
  ASSUME TypeInv, NEW p \in Pairs, Sell(p)
  PROVE  TypeInv'
<1>1. PICK position \in Amounts : position = balances[Coin[p]]
  BY ConstantsTyped DEF TypeInv
<1>2. PICK stopLoss \in Nat :
        stopLoss = calculateStopLoss(Sum(p, Cycle(p), "base"), Sum(p, Cycle(p), "volume"), Profit)
  BY CyclePriced DEF TypeInv, Sell
<1>3. /\ position.total >= StepSize /\ position.total <= position.available
      /\ \E slip \in {0, 1} : submitOrder(p, "Sell", stopLoss, position.available - slip)
  BY <1>1, <1>2 DEF Sell
<1>4. PICK slip \in {0, 1} : submitOrder(p, "Sell", stopLoss, position.available - slip)
  BY <1>3
<1>5. position.total \in Int /\ position.available \in Int
  BY <1>1 DEF Amounts
<1>6. position.available - slip \in Nat
  BY <1>3, <1>5, ConstantsTyped
<1>7. QED
  BY <1>4, <1>6, SubmitTyped

(* A sale that rests is one of a pair.                                     *)
LEMMA RestingTyped ==
  ASSUME TypeInv, NEW o \in openOrders
  PROVE  /\ o \in Sales /\ o \in GoodOrders /\ o.pair \in Pairs /\ o.side = "Sell"
         /\ o.volume \in Nat /\ o.base \in Nat /\ Multiple(o.volume)
BY DEF TypeInv, Sales, GoodOrders, Orders

(* What cancelOrder makes of a balance is one.                             *)
LEMMA ReturnedTyped ==
  ASSUME NEW found \in Amounts
  PROVE  [available |-> found.held, held |-> 0, total |-> found.total] \in Amounts
BY DEF Amounts

(* What is posted about one lengthens the queue.                           *)
LEMMA CancelTyped ==
  ASSUME TypeInv, NEW o \in openOrders, cancelOrder(o)
  PROVE  TypeInv'
<1>1. o.pair \in Pairs /\ balances \in [Currencies -> Amounts] /\ queue \in Seq(Posts)
  BY RestingTyped DEF TypeInv
<1> DEFINE c == CoinSlice[o.pair]
           returned == [available |-> find(c).held, held |-> 0, total |-> find(c).total]
<1>2. returned \in Amounts
  BY <1>1, FoundTyped, ReturnedTyped
<1>3. Entry(c, returned) \in Changes
  BY <1>1, <1>2, EntryTyped, ConstantsTyped
<1>4. PICK data \in Changes : data = Entry(c, returned)
  BY <1>3
<1>5. Posted(o.pair, "balances", data) \in Seq(Posts)
  BY <1>1, PostedTyped
<1>6. queue' = queue \o Posted(o.pair, "balances", data)
  BY <1>4 DEF cancelOrder
<1>7. queue' \in Seq(Posts)
  BY <1>1, <1>5, <1>6, ConcatProperties
<1>8. openOrders' \subseteq openOrders /\ UNCHANGED <<balances, history, submitted, running>>
  BY DEF cancelOrder
<1>9. QED
  BY <1>7, <1>8 DEF TypeInv

(* The same when it is executed.                                           *)
LEMMA SoldTyped ==
  ASSUME TypeInv, NEW o \in openOrders, sellOrder(o)
  PROVE  TypeInv'
<1>1. /\ o.pair \in Pairs /\ o \in GoodOrders /\ o.base \in Int
      /\ balances \in [Currencies -> Amounts] /\ queue \in Seq(Posts)
  BY RestingTyped DEF TypeInv
<1>2. Balance(0, 0) \in Amounts /\ Added(BaseSlice[o.pair], o.base) \in Amounts
  BY <1>1, BalanceTyped, AddedTyped
<1>3. PICK data \in Changes : data = Entries(o.pair, Balance(0, 0), Added(BaseSlice[o.pair], o.base))
  BY <1>1, <1>2, EntriesTyped
<1>4. Posted(o.pair, "trade", o) \in Seq(Posts) /\ Posted(o.pair, "balances", data) \in Seq(Posts)
  BY <1>1, PostedTyped
<1>5. queue' = queue \o Posted(o.pair, "trade", o) \o Posted(o.pair, "balances", data)
  BY <1>3 DEF sellOrder
<1>6. queue' \in Seq(Posts)
  BY <1>1, <1>4, <1>5, ConcatProperties
<1>7. openOrders' \subseteq openOrders /\ UNCHANGED <<balances, history, submitted, running>>
  BY DEF sellOrder
<1>8. QED
  BY <1>6, <1>7 DEF TypeInv

(* What is delivered is of its kind.                                       *)
LEMMA HeadTyped ==
  ASSUME TypeInv, NEW kind, Deliver(kind)
  PROVE  /\ Head(queue) \in Posts /\ Head(queue).pair \in Pairs /\ Tail(queue) \in Seq(Posts)
         /\ kind = "open" => Head(queue).data \in Sales
         /\ kind = "trade" => Head(queue).data \in GoodOrders
         /\ kind = "balances" => Head(queue).data \in Changes
         /\ UNCHANGED <<submitted, running>> /\ queue' = Tail(queue)
<1>1. queue \in Seq(Posts) /\ queue # <<>> /\ Head(queue).kind = kind
  BY DEF TypeInv, Deliver
<1>2. PICK e \in Posts : e = Head(queue)
  BY <1>1, HeadTailProperties
<1>3. Tail(queue) \in Seq(Posts)
  BY <1>1, HeadTailProperties
<1>4. QED
  BY <1>1, <1>2, <1>3 DEF Posts, Deliver

(* A merge keeps the types.                                                *)
LEMMA MergeTyped ==
  ASSUME TypeInv, MergeOpenOrders \/ MergeTradeHistory \/ MergeBalances
  PROVE  TypeInv'
<1>1. CASE MergeOpenOrders
  <2>1. openOrders' \subseteq Sales
    BY <1>1, HeadTyped DEF MergeOpenOrders, TypeInv
  <2>2. QED
    BY <1>1, <2>1, HeadTyped DEF MergeOpenOrders, TypeInv
<1>2. CASE MergeTradeHistory
  <2>1. Head(queue).pair \in Pairs /\ Head(queue).data \in GoodOrders
    BY <1>2, HeadTyped DEF MergeTradeHistory
  <2>2. history[Head(queue).pair] \in Seq(GoodOrders)
    BY <2>1 DEF TypeInv
  <2>3. Append(history[Head(queue).pair], Head(queue).data) \in Seq(GoodOrders)
    BY <2>1, <2>2, AppendProperties
  <2>4. history' \in [Pairs -> Seq(GoodOrders)]
    BY <1>2, <2>3 DEF MergeTradeHistory, TypeInv
  <2>5. QED
    BY <1>2, <2>4, HeadTyped DEF MergeTradeHistory, TypeInv
<1>3. CASE MergeBalances
  <2>1. Head(queue).data \in Changes
    BY <1>3, HeadTyped DEF MergeBalances
  <2>2. balances' \in [Currencies -> Amounts]
    BY <1>3, <2>1, MergedTyped DEF MergeBalances, TypeInv
  <2>3. QED
    BY <1>3, <2>2, HeadTyped DEF MergeBalances, TypeInv
<1>4. QED
  BY <1>1, <1>2, <1>3

(* At first the balances are of the file.                                  *)
LEMMA InitTyped ==
  ASSUME Init
  PROVE  TypeInv
<1>1. \A c \in Currencies : Balance(Deposit[c], 0) \in Amounts
  BY DepositAssumption, BalanceTyped
<1>2. balances \in [Currencies -> Amounts]
  BY <1>1 DEF Init, userBalance
<1>3. <<>> \in Seq(GoodOrders) /\ <<>> \in Seq(Posts)
  BY EmptySeq
<1>4. history \in [Pairs -> Seq(GoodOrders)] /\ queue \in Seq(Posts)
  BY <1>3 DEF Init
<1>5. QED
  BY <1>2, <1>4, ConstantsTyped DEF Init, TypeInv

(* Every step keeps the types.                                             *)
LEMMA TypeStep ==
  ASSUME TypeInv, [Next]_vars
  PROVE  TypeInv'
<1>1. ASSUME NEW o \in openOrders, CancelCrashes(o) PROVE TypeInv'
  BY <1>1 DEF CancelCrashes, TypeInv
<1>2. CASE UNCHANGED vars
  BY <1>2 DEF vars, TypeInv
<1>3. QED
  BY <1>1, <1>2, BuyTyped, SellTyped, CancelTyped, SoldTyped, MergeTyped DEF Next

(* The inductive invariant says what TypeOK does.                          *)
LEMMA TypesFollow ==
  ASSUME TypeInv
  PROVE  TypeOK
<1>1. openOrders \subseteq {o \in Orders : o.side = "Sell"}
  BY DEF TypeInv, Sales, GoodOrders
<1>2. history \in [Pairs -> Seq(Orders)]
  <2>1. GoodOrders \subseteq Orders
    BY DEF GoodOrders
  <2>2. Seq(GoodOrders) \subseteq Seq(Orders)
    BY <2>1, SeqMonotonic
  <2>3. QED
    BY <2>2 DEF TypeInv
<1>3. ASSUME NEW i \in DOMAIN queue
      PROVE  /\ queue[i].pair \in Pairs
             /\ \/ queue[i].kind \in {"open", "trade"} /\ queue[i].data \in Orders
                \/ /\ queue[i].kind = "balances"
                   /\ DOMAIN queue[i].data \subseteq Places
                   /\ Range(queue[i].data) \subseteq Amounts
  <2>1. PICK e \in Posts : e = queue[i]
    <3>1. queue \in Seq(Posts) /\ i \in 1 .. Len(queue)
      BY <1>3, LenProperties DEF TypeInv
    <3>2. QED
      BY <3>1, ElementOfSeq
  <2>2. CASE e.kind = "balances"
    <3>1. e.pair \in Pairs /\ e.data \in Changes
      BY <2>2 DEF Posts
    <3>2. PICK S \in SUBSET Places : e.data \in [S -> Amounts]
      BY <3>1 DEF Changes
    <3>3. QED
      BY <2>1, <2>2, <3>1, <3>2 DEF Range
  <2>3. CASE e.kind # "balances"
    BY <2>1, <2>3 DEF Posts, Sales, GoodOrders
  <2>4. QED
    BY <2>2, <2>3
<1>4. QED
  BY <1>1, <1>2, <1>3 DEF TypeOK, TypeInv, Places

(* Every order, balance and merge is one, for any filters, deposits, pairs *)
(* and races: a step that sells finds a price, for its cycle bought        *)
(* something (calculateStopLoss divides by that).                          *)
THEOREM TypeCorrect == Spec => []TypeOK
<1>1. Init => TypeInv
  BY InitTyped
<1>2. TypeInv /\ [Next]_vars => TypeInv'
  BY TypeStep
<1>3. TypeInv => TypeOK
  BY TypesFollow
<1>4. QED
  BY <1>1, <1>2, <1>3, PTL DEF Spec

-----------------------------------------------------------------------------
(* A position is what the history says.  Between a purchase and the merge  *)
(* of its balances the two differ, so the invariant speaks of what is on   *)
(* the way: the balance that is stored or waits to be merged is what the   *)
(* trades that are stored or wait make of the deposit.  Its parts take the *)
(* queue and the storages as arguments, for the state of now and the next. *)

(* What the trades of one side add up to.                                  *)
VolumeOf(trades, side) ==
  LET I == {i \in DOMAIN trades : trades[i].side = side}
  IN SumFunctionOnSet([i \in I |-> trades[i].volume], I)

Change(o) == IF o.side = "Buy" THEN o.volume ELSE -o.volume

Bought(trades, p) == Deposit[Coin[p]] + VolumeOf(trades, "Buy") - VolumeOf(trades, "Sell")

(* The places in the queue of what is posted about a pair.                 *)
Waiting(q, p) == {i \in DOMAIN q : q[i].pair = p}

(* One handler at a time: an order or a trade, then its balances.          *)
Ordered(q, p) ==
  /\ \A i \in Waiting(q, p) : q[i].kind # "balances" => \E j \in Waiting(q, p) : j > i
  /\ \A i, j \in Waiting(q, p) : i < j => q[i].kind # "balances" /\ q[j].kind = "balances"

(* The balance of the coin, and the position, when all is delivered.       *)
IsCoin(q, stored, p, b) ==
  /\ \A i \in Waiting(q, p) :
       q[i].kind = "balances" => Coin[p] \in DOMAIN q[i].data /\ q[i].data[Coin[p]] = b
  /\ Waiting(q, p) = {} => stored[Coin[p]] = b

IsPosition(q, trades, p, n) ==
  /\ \A i \in Waiting(q, p) : q[i].kind = "trade" => n = Bought(trades, p) + Change(q[i].data)
  /\ (\A i \in Waiting(q, p) : q[i].kind # "trade") => n = Bought(trades, p)

(* The offers of a pair, those that wait included, are of all there is.    *)
Offered(q, offers, p) ==
  {o \in offers : o.pair = p}
    \union {q[i].data : i \in {j \in Waiting(q, p) : q[j].kind = "open"}}

AllOffered(O, b) ==
  /\ \A o \in O : b.available = 0 /\ o.volume = b.total
  /\ \A o, r \in O : o = r

Sound(b) == b \in Amounts /\ b.total = b.available + b.held /\ Multiple(b.total)

View(q, stored, trades, offers, p, b) ==
  /\ Sound(b)
  /\ IsCoin(q, stored, p, b)
  /\ IsPosition(q, trades, p, b.total)
  /\ AllOffered(Offered(q, offers, p), b)

PairInv(p) ==
  /\ Ordered(queue, p)
  /\ \E b : View(queue, balances, history[p], openOrders, p, b)

(* Only the handlers of a pair post about its coin, and an offer is of the *)
(* pair it is posted for.                                                  *)
Apart(q) ==
  \A i \in DOMAIN q :
    /\ q[i].kind = "balances" => \A p \in Told \ {q[i].pair} : Coin[p] \notin DOMAIN q[i].data
    /\ q[i].kind = "open" => q[i].data.pair = q[i].pair

PositionInv == TypeInv /\ Apart(queue) /\ \A p \in Told : PairInv(p)

(* What is assumed: a pass is delivered before the next begins and a real  *)
(* is rounded right; nothing else trades the coin of a pair; and a deposit *)
(* is whole steps, for a sale of all cuts what is not.                     *)
OneAtATime == Races = {}
CoinsApart == \A p \in Told : Coin[p] # Base[p] /\ \A q \in Pairs \ {p} : Coin[p] \notin Touched(q)
DepositsWhole == \A p \in Told : Multiple(Deposit[Coin[p]])

(* A pair that the Emulator is told apart by its name.                     *)
LEMMA ToldIs ==
  ASSUME NEW p \in Told
  PROVE  /\ p \in Pairs /\ CoinSlice[p] = Coin[p] /\ BaseSlice[p] = Base[p]
         /\ Coin[p] \in Currencies /\ Coin[p] # Unknown /\ Coin[p] \in Touched(p)
BY ConstantsTyped DEF Told, Touched

(* Whole steps add up to whole steps.                                      *)
LEMMA WholeSum ==
  ASSUME NEW a, NEW b, Multiple(a), Multiple(b)
  PROVE  a \in Int /\ b \in Int /\ Multiple(a + b) /\ Multiple(0)
<1>1. PICK k \in Int : a = k * StepSize
  BY DEF Multiple, Whole
<1>2. PICK l \in Int : b = l * StepSize
  BY DEF Multiple, Whole
<1>3. StepSize \in Int
  BY ConstantsTyped
<1>4. a + b = (k + l) * StepSize
  BY <1>1, <1>2, <1>3
<1>5. Multiple(a + b)
  <2>1. PICK m \in Int : m = k + l
    OBVIOUS
  <2>2. a + b = m * StepSize
    BY <1>4, <2>1
  <2>3. QED
    BY <2>2 DEF Multiple, Whole
<1>6. Multiple(0)
  <2>1. 0 = 0 * StepSize
    BY <1>3
  <2>2. QED
    BY <2>1 DEF Multiple, Whole
<1>7. QED
  BY <1>1, <1>2, <1>3, <1>5, <1>6

(* The trades of one side add up to a number.                              *)
LEMMA VolumeTyped ==
  ASSUME NEW trades \in Seq(GoodOrders), NEW side
  PROVE  VolumeOf(trades, side) \in Nat
<1>1. PICK I : I = {i \in DOMAIN trades : trades[i].side = side}
  OBVIOUS
<1>2. PICK f : f = [i \in I |-> trades[i].volume]
  OBVIOUS
<1>3. I \in SUBSET (1 .. Len(trades)) /\ Len(trades) \in Nat
  BY <1>1, LenProperties
<1>4. IsFiniteSet(I)
  <2>1. IsFiniteSet(1 .. Len(trades))
    BY <1>3, FS_Interval
  <2>2. QED
    BY <1>3, <2>1, FS_Subset
<1>5. ASSUME NEW i \in I PROVE f[i] \in Nat
  <2>1. trades[i] \in GoodOrders
    BY <1>3, ElementOfSeq
  <2>2. QED
    BY <1>2, <2>1 DEF GoodOrders, Orders
<1>6. SumFunctionOnSet(f, I) \in Nat
  BY <1>4, <1>5, SumTyped
<1>7. QED
  BY <1>1, <1>2, <1>6 DEF VolumeOf

(* A trade more adds its volume to its side.                               *)
LEMMA VolumeAppend ==
  ASSUME NEW trades \in Seq(GoodOrders), NEW o \in GoodOrders, NEW side
  PROVE  VolumeOf(Append(trades, o), side)
           = VolumeOf(trades, side) + (IF o.side = side THEN o.volume ELSE 0)
<1>1. PICK longer : longer = Append(trades, o)
  OBVIOUS
<1>2. PICK n \in Nat : n = Len(trades)
  BY LenProperties
<1>3. /\ longer \in Seq(GoodOrders) /\ Len(longer) = n + 1 /\ longer[n + 1] = o
      /\ \A i \in 1 .. n : longer[i] = trades[i]
  BY <1>1, <1>2, AppendProperties
<1>4. DOMAIN trades = 1 .. n /\ DOMAIN longer = 1 .. (n + 1)
  BY <1>2, <1>3, LenProperties
<1>5. PICK I : I = {i \in DOMAIN trades : trades[i].side = side}
  OBVIOUS
<1>6. PICK J : J = {i \in DOMAIN longer : longer[i].side = side}
  OBVIOUS
<1>7. J = IF o.side = side THEN I \union {n + 1} ELSE I
  <2>1. \A i \in 1 .. (n + 1) : i \in 1 .. n \/ i = n + 1
    OBVIOUS
  <2>2. \A i \in 1 .. n : i \in J <=> i \in I
    BY <1>3, <1>4, <1>5, <1>6
  <2>3. n + 1 \in J <=> o.side = side
    BY <1>3, <1>4, <1>6
  <2>4. J \subseteq 1 .. (n + 1) /\ I \subseteq 1 .. n
    BY <1>4, <1>5, <1>6
  <2>5. CASE o.side = side
    <3>1. \A i : i \in J <=> (i \in I \/ i = n + 1)
      BY <2>1, <2>2, <2>3, <2>4, <2>5
    <3>2. QED
      BY <2>5, <3>1
  <2>6. CASE o.side # side
    <3>1. \A i : i \in J <=> i \in I
      BY <2>1, <2>2, <2>3, <2>4, <2>6
    <3>2. QED
      BY <2>6, <3>1
  <2>7. QED
    BY <2>5, <2>6
<1>8. PICK f : f = [i \in I |-> trades[i].volume]
  OBVIOUS
<1>9. PICK g : g = [i \in J |-> longer[i].volume]
  OBVIOUS
<1>10. IsFiniteSet(I) /\ n + 1 \notin I /\ I \subseteq 1 .. n
  <2>1. I \subseteq 1 .. n /\ n + 1 \notin 1 .. n
    BY <1>4, <1>5
  <2>2. IsFiniteSet(1 .. n)
    BY FS_Interval
  <2>3. IsFiniteSet(I)
    BY <2>1, <2>2, FS_Subset
  <2>4. QED
    BY <2>1, <2>3
<1>11. \A i \in I : i \in J /\ f[i] = g[i]
  BY <1>3, <1>7, <1>8, <1>9, <1>10
<1>12. ASSUME NEW i \in J PROVE g[i] \in Int
  <2>1. longer[i] \in GoodOrders
    BY <1>3, <1>4, <1>6, ElementOfSeq
  <2>2. QED
    BY <1>9, <2>1 DEF GoodOrders, Orders
<1>13. SumFunctionOnSet(f, I) = SumFunctionOnSet(g, I)
  BY <1>10, <1>11, SumEqual
<1>14. VolumeOf(trades, side) = SumFunctionOnSet(f, I) /\ VolumeOf(longer, side) = SumFunctionOnSet(g, J)
  BY <1>5, <1>6, <1>8, <1>9 DEF VolumeOf
<1>15. CASE o.side = side
  <2>1. J = I \union {n + 1} /\ g[n + 1] = o.volume
    BY <1>3, <1>7, <1>9, <1>15
  <2>2. PICK x : x = n + 1
    OBVIOUS
  <2>3. SumFunctionOnSet(g, I \cup {x}) = g[x] + SumFunctionOnSet(g, I)
    BY <1>10, <1>12, <2>1, <2>2, SumAdd
  <2>4. VolumeOf(longer, side) = o.volume + VolumeOf(trades, side)
    BY <1>13, <1>14, <2>1, <2>2, <2>3
  <2>5. o.volume \in Nat /\ VolumeOf(trades, side) \in Nat
    BY VolumeTyped DEF GoodOrders, Orders
  <2>6. QED
    BY <1>1, <1>15, <2>4, <2>5
<1>16. CASE o.side # side
  <2>1. J = I
    BY <1>7, <1>16
  <2>2. VolumeOf(trades, side) \in Nat
    BY VolumeTyped
  <2>3. QED
    BY <1>1, <1>13, <1>14, <1>16, <2>1, <2>2
<1>17. QED
  BY <1>15, <1>16

(* It changes the position by what was bought or sold.                     *)
LEMMA BoughtAppend ==
  ASSUME NEW p \in Pairs, NEW trades \in Seq(GoodOrders), NEW o \in GoodOrders
  PROVE  /\ Bought(trades, p) \in Int
         /\ Bought(Append(trades, o), p) = Bought(trades, p) + Change(o)
<1>1. Deposit[Coin[p]] \in Nat
  BY ConstantsTyped, DepositAssumption
<1>2. VolumeOf(trades, "Buy") \in Nat /\ VolumeOf(trades, "Sell") \in Nat
  BY VolumeTyped
<1>3. o.side \in {"Buy", "Sell"} /\ o.volume \in Nat
  BY DEF GoodOrders, Orders
<1>4. /\ VolumeOf(Append(trades, o), "Buy") = VolumeOf(trades, "Buy") + (IF o.side = "Buy" THEN o.volume ELSE 0)
      /\ VolumeOf(Append(trades, o), "Sell") = VolumeOf(trades, "Sell") + (IF o.side = "Sell" THEN o.volume ELSE 0)
  BY VolumeAppend
<1>5. QED
  BY SMTT(30), <1>1, <1>2, <1>3, <1>4 DEF Bought, Change

(* Two queues in which the same is posted about a pair, at the same places.*)
SameWaiting(q, r, p) ==
  /\ Waiting(r, p) = Waiting(q, p)
  /\ \A i \in Waiting(q, p) : r[i] = q[i]

(* What is posted follows what waits.                                      *)
LEMMA Concatenated ==
  ASSUME NEW q \in Seq(Posts), NEW s \in Seq(Posts), NEW n, n = Len(q), NEW l, l = Len(s)
  PROVE  /\ q \o s \in Seq(Posts) /\ Len(q \o s) = n + l
         /\ \A i \in 1 .. (n + l) : (q \o s)[i] = IF i <= n THEN q[i] ELSE s[i - n]
BY ConcatProperties

(* What is posted of others leaves it so.                                  *)
LEMMA AppendedAway ==
  ASSUME NEW q \in Seq(Posts), NEW s \in Seq(Posts), NEW p, \A j \in DOMAIN s : s[j].pair # p
  PROVE  SameWaiting(q, q \o s, p)
<1>1. PICK r : r = q \o s
  OBVIOUS
<1>2. PICK n \in Nat : n = Len(q)
  BY LenProperties
<1>3. PICK m \in Nat : m = Len(s)
  BY LenProperties
<1>4. /\ Len(r) = n + m /\ r \in Seq(Posts)
      /\ \A i \in 1 .. (n + m) : r[i] = IF i <= n THEN q[i] ELSE s[i - n]
  BY <1>1, <1>2, <1>3, ConcatProperties
<1>5. DOMAIN r = 1 .. (n + m) /\ DOMAIN q = 1 .. n /\ DOMAIN s = 1 .. m
  BY <1>2, <1>3, <1>4, LenProperties
<1>6. \A i \in 1 .. n : i \in 1 .. (n + m) /\ r[i] = q[i]
  BY <1>4
<1>7. ASSUME NEW i \in 1 .. (n + m), i \notin 1 .. n PROVE r[i].pair # p
  <2>1. i - n \in 1 .. m /\ r[i] = s[i - n]
    BY <1>4, <1>7
  <2>2. QED
    BY <1>5, <2>1
<1>8. \A i : i \in Waiting(r, p) <=> i \in Waiting(q, p)
  BY <1>5, <1>6, <1>7 DEF Waiting
<1>9. \A i \in Waiting(q, p) : r[i] = q[i]
  BY <1>5, <1>6 DEF Waiting
<1>10. QED
  BY <1>1, <1>8, <1>9 DEF SameWaiting

(* One change of balances waits, at place n; an order or a trade waits     *)
(* there and the change after it.                                          *)
ChangeWaits(r, p, data, n) ==
  Waiting(r, p) = {n} /\ r[n] = [kind |-> "balances", pair |-> p, data |-> data]
OrderWaits(r, p, kind, o, data, n) ==
  /\ Waiting(r, p) = {n, n + 1}
  /\ r[n] = [kind |-> kind, pair |-> p, data |-> o]
  /\ r[n + 1] = [kind |-> "balances", pair |-> p, data |-> data]

(* Where nothing waits, one change of a balance is all that waits then.    *)
LEMMA AppendedChange ==
  ASSUME NEW q \in Seq(Posts), NEW p \in Pairs, Waiting(q, p) = {}, NEW data \in Changes
  PROVE  \E n \in Nat : ChangeWaits(q \o Posted(p, "balances", data), p, data, n)
<1>1. PICK e : e = [kind |-> "balances", pair |-> p, data |-> data]
  OBVIOUS
<1>2. PICK s : s = Posted(p, "balances", data)
  OBVIOUS
<1>3. s \in Seq(Posts) /\ s = <<e>>
  BY <1>1, <1>2, PostedTyped DEF Posted
<1>4. PICK r : r = q \o s
  OBVIOUS
<1>5. PICK n \in Nat : n = Len(q)
  BY LenProperties
<1>6. Len(s) = 1 /\ s[1] = e
  BY <1>3
<1>7. /\ Len(r) = n + 1 /\ r \in Seq(Posts)
      /\ \A i \in 1 .. (n + 1) : r[i] = IF i <= n THEN q[i] ELSE s[i - n]
  BY <1>3, <1>4, <1>5, <1>6, ConcatProperties
<1>8. DOMAIN r = 1 .. (n + 1) /\ DOMAIN q = 1 .. n
  BY <1>5, <1>7, LenProperties
<1>9. r[n + 1] = e
  BY <1>6, <1>7
<1>10. ASSUME NEW i \in 1 .. (n + 1), i # n + 1 PROVE r[i].pair # p
  <2>1. i \in 1 .. n /\ r[i] = q[i]
    BY <1>7, <1>10
  <2>2. QED
    BY <1>8, <2>1 DEF Waiting
<1>11. \A i : i \in Waiting(r, p) <=> i = n + 1
  BY <1>1, <1>8, <1>9, <1>10 DEF Waiting
<1>12. PICK m \in Nat : m = n + 1
  OBVIOUS
<1>13. Waiting(r, p) = {m}
  BY <1>11, <1>12
<1>14. ChangeWaits(r, p, data, m)
  BY <1>1, <1>9, <1>12, <1>13 DEF ChangeWaits
<1>15. QED
  BY <1>2, <1>4, <1>14

(* An order or a trade and then the balances are both that waits.          *)
LEMMA AppendedOrder ==
  ASSUME NEW q \in Seq(Posts), NEW p \in Pairs, Waiting(q, p) = {}, NEW data \in Changes,
         NEW kind \in {"open", "trade"}, NEW o \in GoodOrders, kind = "open" => o \in Sales,
         NEW r, r = q \o (Posted(p, kind, o) \o Posted(p, "balances", data))
  PROVE  \E n \in Nat : OrderWaits(r, p, kind, o, data, n)
<1>1. PICK d : d = [kind |-> kind, pair |-> p, data |-> o]
  OBVIOUS
<1>2. PICK e : e = [kind |-> "balances", pair |-> p, data |-> data]
  OBVIOUS
<1>3. Posted(p, kind, o) = <<d>> /\ Posted(p, "balances", data) = <<e>>
  BY <1>1, <1>2 DEF Posted
<1>4. <<d>> \in Seq(Posts) /\ <<e>> \in Seq(Posts)
  BY <1>3, PostedTyped
<1>5. PICK s : s = <<d>> \o <<e>>
  OBVIOUS
<1>6. s \in Seq(Posts) /\ Len(s) = 2 /\ s[1] = d /\ s[2] = e
  BY <1>4, <1>5, ConcatProperties
<1>7. PICK n \in Nat : n = Len(q)
  BY LenProperties
<1>8. /\ Len(q \o s) = n + 2 /\ q \o s \in Seq(Posts)
      /\ \A i \in 1 .. (n + 2) : (q \o s)[i] = IF i <= n THEN q[i] ELSE s[i - n]
  <2>1. PICK l \in Nat : l = Len(s)
    BY <1>6
  <2>a. s \in Seq(Posts) /\ n = Len(q)
    BY <1>6, <1>7
  <2>2. /\ Len(q \o s) = n + l /\ q \o s \in Seq(Posts)
        /\ \A i \in 1 .. (n + l) : (q \o s)[i] = IF i <= n THEN q[i] ELSE s[i - n]
    BY ONLY q \in Seq(Posts), <2>a, <2>1, Concatenated
  <2>3. l = 2
    BY <1>6, <2>1
  <2>4. QED
    BY <2>2, <2>3
<1>9. /\ Len(r) = n + 2 /\ r \in Seq(Posts)
      /\ \A i \in 1 .. (n + 2) : r[i] = IF i <= n THEN q[i] ELSE s[i - n]
  BY <1>3, <1>5, <1>8
<1>10. DOMAIN r = 1 .. (n + 2) /\ DOMAIN q = 1 .. n
  BY <1>7, <1>9, LenProperties
<1>11. PICK m \in Nat : m = n + 1
  OBVIOUS
<1>12. r[m] = d /\ r[m + 1] = e
  <2>1. PICK u \in Nat : u = m + 1
    OBVIOUS
  <2>2. /\ m \in 1 .. (n + 2) /\ ~(m <= n) /\ m - n = 1
        /\ u \in 1 .. (n + 2) /\ ~(u <= n) /\ u - n = 2
    BY <1>11, <2>1
  <2>3. r[m] = s[m - n]
    BY <1>9, <2>2
  <2>4. r[u] = s[u - n]
    BY <1>9, <2>2
  <2>5. QED
    BY <1>6, <2>1, <2>2, <2>3, <2>4
<1>13. ASSUME NEW i \in 1 .. (n + 2), i # m, i # m + 1 PROVE r[i].pair # p
  <2>1. i <= n /\ i \in 1 .. n
    BY <1>11, <1>13
  <2>2. r[i] = q[i]
    BY <1>9, <2>1
  <2>3. q[i].pair # p
    BY <1>10, <2>1 DEF Waiting
  <2>4. QED
    BY <2>2, <2>3
<1>14. d.pair = p /\ e.pair = p /\ m \in 1 .. (n + 2) /\ m + 1 \in 1 .. (n + 2)
  BY <1>1, <1>2, <1>11
<1>15. \A i : i \in Waiting(r, p) <=> (i = m \/ i = m + 1)
  BY <1>10, <1>12, <1>13, <1>14 DEF Waiting
<1>16. Waiting(r, p) = {m, m + 1}
  BY <1>15
<1>17. OrderWaits(r, p, kind, o, data, m)
  BY <1>1, <1>2, <1>12, <1>16 DEF OrderWaits
<1>18. QED
  BY <1>17

(* What waits in t is what waits in q after the first place.               *)
Moved(q, t, p) ==
  /\ \A i \in Waiting(t, p) : i \in Nat \ {0} /\ i + 1 \in Waiting(q, p) /\ t[i] = q[i + 1]
  /\ \A i \in Waiting(q, p) \ {1} : i \in Nat \ {0} /\ i - 1 \in Waiting(t, p) /\ t[i - 1] = q[i]

(* Delivery moves everything one place to the front.                       *)
LEMMA Delivered ==
  ASSUME NEW q \in Seq(Posts), q # <<>>, NEW p
  PROVE  /\ 1 \in DOMAIN q /\ Head(q) = q[1] /\ q[1] \in Posts
         /\ Moved(q, Tail(q), p)
<1>1. PICK n \in Nat : n = Len(q)
  BY LenProperties
<1>2. n > 0
  BY <1>1, EmptySeq
<1>3. PICK t : t = Tail(q)
  OBVIOUS
<1>4. /\ t \in Seq(Posts) /\ Len(t) = n - 1 /\ Head(q) = q[1]
      /\ \A i \in 1 .. (n - 1) : t[i] = q[i + 1]
  BY <1>1, <1>3, HeadTailProperties
<1>5. DOMAIN q = 1 .. n /\ DOMAIN t = 1 .. (n - 1)
  BY <1>1, <1>2, <1>4, LenProperties
<1>6. 1 \in DOMAIN q /\ q[1] \in Posts
  BY <1>1, <1>2, <1>5, ElementOfSeq
<1>7. ASSUME NEW i \in Waiting(t, p)
      PROVE  i \in Nat \ {0} /\ i + 1 \in Waiting(q, p) /\ t[i] = q[i + 1]
  <2>1. i \in 1 .. (n - 1) /\ t[i].pair = p
    BY <1>5 DEF Waiting
  <2>2. i + 1 \in 1 .. n /\ t[i] = q[i + 1]
    BY <1>4, <2>1
  <2>3. QED
    BY <1>5, <2>1, <2>2 DEF Waiting
<1>8. ASSUME NEW i \in Waiting(q, p) \ {1}
      PROVE  i \in Nat \ {0} /\ i - 1 \in Waiting(t, p) /\ t[i - 1] = q[i]
  <2>1. i \in 1 .. n /\ i # 1 /\ q[i].pair = p
    BY <1>5 DEF Waiting
  <2>2. PICK j \in 1 .. (n - 1) : j = i - 1
    BY <2>1
  <2>3. t[j] = q[j + 1] /\ j + 1 = i
    BY <1>4, <2>1, <2>2
  <2>4. QED
    BY <1>5, <2>1, <2>2, <2>3 DEF Waiting
<1>9. Moved(q, t, p)
  BY <1>7, <1>8 DEF Moved
<1>10. QED
  BY <1>3, <1>4, <1>6, <1>9

(* Where the same waits, the same balance, position and offers follow.     *)
LEMMA SameView ==
  ASSUME NEW q, NEW r, NEW p, SameWaiting(q, r, p), NEW stored, NEW others,
         others[Coin[p]] = stored[Coin[p]], NEW offers, NEW left,
         {o \in left : o.pair = p} \subseteq {o \in offers : o.pair = p}, NEW trades
  PROVE  /\ Ordered(q, p) => Ordered(r, p)
         /\ \A b : View(q, stored, trades, offers, p, b) => View(r, others, trades, left, p, b)
<1>1. Waiting(r, p) = Waiting(q, p) /\ \A i \in Waiting(q, p) : r[i] = q[i]
  BY DEF SameWaiting
<1>2. Ordered(q, p) => Ordered(r, p)
  BY <1>1 DEF Ordered
<1>3. Offered(r, left, p) \subseteq Offered(q, offers, p)
  BY <1>1 DEF Offered
<1>4. ASSUME NEW b, View(q, stored, trades, offers, p, b) PROVE View(r, others, trades, left, p, b)
  <2>1. IsCoin(r, others, p, b)
    BY <1>1, <1>4 DEF View, IsCoin
  <2>2. IsPosition(r, trades, p, b.total)
    BY <1>1, <1>4 DEF View, IsPosition
  <2>3. AllOffered(Offered(r, left, p), b)
    BY <1>3, <1>4 DEF View, AllOffered
  <2>4. QED
    BY <1>4, <2>1, <2>2, <2>3 DEF View
<1>5. QED
  BY <1>2, <1>4

(* What waits keeps its order when the head is delivered.                  *)
LEMMA DeliveredOrdered ==
  ASSUME NEW q \in Seq(Posts), q # <<>>, NEW p, Ordered(q, p)
  PROVE  Ordered(Tail(q), p)
<1>1. PICK t : t = Tail(q)
  OBVIOUS
<1>0. Moved(q, t, p) /\ Head(q) = q[1] /\ 1 \in DOMAIN q /\ q[1] \in Posts
  BY <1>1, Delivered
<1>2. /\ \A i \in Waiting(t, p) : i \in Nat \ {0} /\ i + 1 \in Waiting(q, p) /\ t[i] = q[i + 1]
      /\ \A i \in Waiting(q, p) \ {1} : i \in Nat \ {0} /\ i - 1 \in Waiting(t, p) /\ t[i - 1] = q[i]
  BY <1>0 DEF Moved
<1>3. ASSUME NEW i \in Waiting(t, p), t[i].kind # "balances"
      PROVE  \E j \in Waiting(t, p) : j > i
  <2>1. PICK k \in Waiting(q, p) : k = i + 1 /\ q[k].kind # "balances" /\ i \in Nat \ {0}
    BY <1>2, <1>3
  <2>2. PICK j \in Waiting(q, p) : j > k
    BY <2>1 DEF Ordered
  <2>3. j # 1 => j \in Nat /\ j - 1 \in Waiting(t, p)
    BY <1>2
  <2>4. QED
    BY <2>1, <2>2, <2>3
<1>4. ASSUME NEW i \in Waiting(t, p), NEW j \in Waiting(t, p), i < j
      PROVE  t[i].kind # "balances" /\ t[j].kind = "balances"
  <2>1. PICK k \in Waiting(q, p) : k = i + 1 /\ t[i] = q[k] /\ i \in Nat
    BY <1>2
  <2>2. PICK l \in Waiting(q, p) : l = j + 1 /\ t[j] = q[l] /\ j \in Nat
    BY <1>2
  <2>3. k < l
    BY <1>4, <2>1, <2>2
  <2>4. QED
    BY <2>1, <2>2, <2>3 DEF Ordered
<1>5. QED
  BY <1>1, <1>3, <1>4 DEF Ordered

(* The delivery of what another pair posted changes nothing of a pair.     *)
LEMMA DeliveredAway ==
  ASSUME NEW q \in Seq(Posts), q # <<>>, NEW p, Head(q).pair # p,
         NEW stored, NEW others, others[Coin[p]] = stored[Coin[p]], NEW offers, NEW left,
         {o \in left : o.pair = p} \subseteq {o \in offers : o.pair = p}, NEW trades,
         NEW b, View(q, stored, trades, offers, p, b)
  PROVE  View(Tail(q), others, trades, left, p, b)
<1>1. PICK t : t = Tail(q)
  OBVIOUS
<1>0. Moved(q, t, p) /\ Head(q) = q[1] /\ 1 \in DOMAIN q /\ q[1] \in Posts
  BY <1>1, Delivered
<1>2. /\ \A i \in Waiting(t, p) : i \in Nat \ {0} /\ i + 1 \in Waiting(q, p) /\ t[i] = q[i + 1]
      /\ \A i \in Waiting(q, p) \ {1} : i \in Nat \ {0} /\ i - 1 \in Waiting(t, p) /\ t[i - 1] = q[i]
      /\ Head(q) = q[1]
  BY <1>0 DEF Moved
<1>3. 1 \notin Waiting(q, p)
  BY <1>2 DEF Waiting
<1>4. \A i \in Waiting(t, p) : \E j \in Waiting(q, p) : t[i] = q[j]
  BY <1>2
<1>5. \A i \in Waiting(q, p) : \E j \in Waiting(t, p) : t[j] = q[i]
  BY <1>2, <1>3
<1>6. IsCoin(t, others, p, b)
  BY <1>4, <1>5 DEF View, IsCoin
<1>7. IsPosition(t, trades, p, b.total)
  BY <1>4, <1>5 DEF View, IsPosition
<1>8. Offered(t, left, p) \subseteq Offered(q, offers, p)
  BY <1>4 DEF Offered
<1>9. AllOffered(Offered(t, left, p), b)
  BY <1>8 DEF View, AllOffered
<1>10. QED
  BY <1>1, <1>6, <1>7, <1>9 DEF View

(* The delivery of its own moves from the queue to the storages what the   *)
(* view of the pair counts either way.                                     *)
LEMMA DeliveredHere ==
  ASSUME NEW q \in Seq(Posts), q # <<>>, NEW p \in Told, Head(q).pair = p, Ordered(q, p),
         NEW stored, NEW others, NEW offers, NEW left, NEW trades \in Seq(GoodOrders), NEW b,
         View(q, stored, trades, offers, p, b),
         Head(q).kind = "balances" => others[Coin[p]] = Head(q).data[Coin[p]],
         {o \in left : o.pair = p} \subseteq
           {o \in offers : o.pair = p} \union (IF Head(q).kind = "open" THEN {Head(q).data} ELSE {}),
         NEW after,
         after = IF Head(q).kind = "trade" THEN Append(trades, Head(q).data) ELSE trades
  PROVE  View(Tail(q), others, after, left, p, b)
<1>1. PICK t : t = Tail(q)
  OBVIOUS
<1>0. Moved(q, t, p) /\ Head(q) = q[1] /\ 1 \in DOMAIN q /\ q[1] \in Posts
  BY <1>1, Delivered
<1>2. /\ \A i \in Waiting(t, p) : i \in Nat \ {0} /\ i + 1 \in Waiting(q, p) /\ t[i] = q[i + 1]
      /\ \A i \in Waiting(q, p) \ {1} : i \in Nat \ {0} /\ i - 1 \in Waiting(t, p) /\ t[i - 1] = q[i]
      /\ Head(q) = q[1] /\ 1 \in DOMAIN q /\ q[1] \in Posts
  BY <1>0 DEF Moved
<1>3. PICK e \in Posts : e = q[1] /\ e = Head(q)
  BY <1>2
<1>4. 1 \in Waiting(q, p)
  BY <1>2, <1>3 DEF Waiting
<1>5. \A i \in Waiting(t, p) : \E j \in Waiting(q, p) : t[i] = q[j] /\ j > 1
  BY <1>2
<1>6. \A i \in Waiting(q, p) : i > 1 => \E j \in Waiting(t, p) : t[j] = q[i]
  BY <1>2
<1>7. Offered(t, left, p) \subseteq Offered(q, offers, p)
  <2>1. ASSUME NEW o \in {r \in left : r.pair = p} PROVE o \in Offered(q, offers, p)
    BY <1>3, <1>4 DEF Offered
  <2>2. ASSUME NEW i \in Waiting(t, p), t[i].kind = "open" PROVE t[i].data \in Offered(q, offers, p)
    BY <1>5, <2>2 DEF Offered
  <2>3. QED
    BY <2>1, <2>2 DEF Offered
<1>8. AllOffered(Offered(t, left, p), b)
  BY <1>7 DEF View, AllOffered
<1>9. CASE e.kind = "balances"
  <2>1. ASSUME NEW i \in Waiting(q, p) PROVE ~(i > 1)
    BY <1>3, <1>4, <1>9 DEF Ordered
  <2>2. Waiting(t, p) = {}
    BY <1>5, <2>1
  <2>3. IsCoin(t, others, p, b)
    BY <1>3, <1>4, <1>9, <2>2 DEF View, IsCoin
  <2>4. \A i \in Waiting(q, p) : q[i].kind # "trade"
    <3>1. \A i \in Waiting(q, p) : i = 1
      <4>1. Waiting(q, p) \subseteq Nat \ {0}
        BY <1>2
      <4>2. QED
        BY <2>1, <4>1
    <3>2. QED
      BY <1>3, <1>9, <3>1
  <2>5. b.total = Bought(trades, p)
    BY <2>4 DEF View, IsPosition
  <2>6. after = trades
    BY <1>3, <1>9
  <2>7. IsPosition(t, after, p, b.total)
    BY <2>2, <2>5, <2>6 DEF IsPosition
  <2>8. QED
    BY <1>1, <1>8, <2>3, <2>7 DEF View
<1>10. CASE e.kind # "balances"
  <2>1. PICK j \in Waiting(q, p) : j > 1
    BY <1>3, <1>4, <1>10 DEF Ordered
  <2>2. Waiting(t, p) # {}
    BY <1>6, <2>1
  <2>3. IsCoin(t, others, p, b)
    BY <1>5, <2>2 DEF View, IsCoin
  <2>4. \A i \in Waiting(t, p) : t[i].kind = "balances"
    BY <1>4, <1>5 DEF Ordered
  <2>5. b.total = Bought(after, p)
    <3>1. CASE e.kind = "trade"
      <4>1. e.data \in GoodOrders /\ p \in Pairs
        BY <3>1, ToldIs DEF Posts
      <4>2. Bought(Append(trades, e.data), p) = Bought(trades, p) + Change(e.data)
        BY <4>1, BoughtAppend
      <4>3. b.total = Bought(trades, p) + Change(e.data)
        BY <1>3, <1>4, <3>1 DEF View, IsPosition
      <4>4. QED
        BY <1>3, <3>1, <4>2, <4>3
    <3>2. CASE e.kind = "open"
      <4>1. \A i \in Waiting(q, p) : q[i].kind # "trade"
        <5>1. ASSUME NEW i \in Waiting(q, p), i # 1 PROVE q[i].kind = "balances"
          <6>1. i \in Nat \ {0}
            BY <1>2, <5>1
          <6>2. 1 < i
            BY <5>1, <6>1
          <6>3. QED
            BY <1>4, <6>2 DEF Ordered
        <5>2. QED
          BY <1>3, <3>2, <5>1
      <4>2. QED
        BY <1>3, <3>2, <4>1 DEF View, IsPosition
    <3>3. QED
      BY <1>10, <3>1, <3>2 DEF Posts
  <2>6. IsPosition(t, after, p, b.total)
    BY <2>4, <2>5 DEF IsPosition
  <2>7. QED
    BY <1>1, <1>8, <2>3, <2>6 DEF View
<1>11. QED
  BY <1>9, <1>10

(* Where nothing waits, the balance is what is stored and the position     *)
(* what was traded.                                                        *)
LEMMA Calm ==
  ASSUME NEW q, NEW p, Waiting(q, p) = {}, NEW stored, NEW trades, NEW offers, NEW b,
         View(q, stored, trades, offers, p, b)
  PROVE  /\ stored[Coin[p]] = b /\ b.total = Bought(trades, p)
         /\ Offered(q, offers, p) = {o \in offers : o.pair = p}
         /\ \A o \in offers : o.pair = p => b.available = 0 /\ o.volume = b.total
         /\ \A o, r \in offers : o.pair = p /\ r.pair = p => o = r
<1>1. stored[Coin[p]] = b /\ b.total = Bought(trades, p)
  BY DEF View, IsCoin, IsPosition
<1>2. Offered(q, offers, p) = {o \in offers : o.pair = p}
  BY DEF Offered
<1>3. AllOffered({o \in offers : o.pair = p}, b)
  BY <1>2 DEF View
<1>4. QED
  BY <1>1, <1>2, <1>3 DEF AllOffered

(* A handler that changed the balance of the coin and no position.         *)
LEMMA ChangePosted ==
  ASSUME NEW r, NEW p \in Told, NEW data, NEW n \in Nat, ChangeWaits(r, p, data, n),
         NEW stored, NEW trades, NEW offers, NEW b, Sound(b), b.total = Bought(trades, p),
         Coin[p] \in DOMAIN data, data[Coin[p]] = b, \A o \in offers : o.pair # p
  PROVE  Ordered(r, p) /\ View(r, stored, trades, offers, p, b)
<1>1. Waiting(r, p) = {n} /\ r[n].kind = "balances" /\ r[n].data = data
  BY DEF ChangeWaits
<1>2. Ordered(r, p)
  BY <1>1 DEF Ordered
<1>3. IsCoin(r, stored, p, b) /\ IsPosition(r, trades, p, b.total)
  BY <1>1 DEF IsCoin, IsPosition
<1>4. Offered(r, offers, p) = {}
  BY <1>1 DEF Offered
<1>5. AllOffered(Offered(r, offers, p), b)
  BY <1>4 DEF AllOffered
<1>6. QED
  BY <1>2, <1>3, <1>5 DEF View

(* A handler that traded: the balance it posts counts the trade it posts.  *)
LEMMA TradePosted ==
  ASSUME NEW r, NEW p \in Told, NEW data, NEW n \in Nat, NEW o, OrderWaits(r, p, "trade", o, data, n),
         NEW stored, NEW trades, NEW offers, NEW b, Sound(b),
         b.total = Bought(trades, p) + Change(o),
         Coin[p] \in DOMAIN data, data[Coin[p]] = b, \A x \in offers : x.pair # p
  PROVE  Ordered(r, p) /\ View(r, stored, trades, offers, p, b)
<1>1. /\ Waiting(r, p) = {n, n + 1} /\ r[n].kind = "trade" /\ r[n].data = o
      /\ r[n + 1].kind = "balances" /\ r[n + 1].data = data
  BY DEF OrderWaits
<1>2. PICK m \in Nat : m = n + 1 /\ n < m /\ ~(m < n) /\ ~(n < n) /\ ~(m < m)
  OBVIOUS
<1>3. Ordered(r, p)
  BY <1>1, <1>2 DEF Ordered
<1>4. IsCoin(r, stored, p, b)
  BY <1>1, <1>2 DEF IsCoin
<1>5. IsPosition(r, trades, p, b.total)
  BY <1>1, <1>2 DEF IsPosition
<1>6. Offered(r, offers, p) = {}
  BY <1>1, <1>2 DEF Offered
<1>7. AllOffered(Offered(r, offers, p), b)
  BY <1>6 DEF AllOffered
<1>8. QED
  BY <1>3, <1>4, <1>5, <1>7 DEF View

(* A handler that offered: the balance it posts holds what it offers.      *)
LEMMA OfferPosted ==
  ASSUME NEW r, NEW p \in Told, NEW data, NEW n \in Nat, NEW o, OrderWaits(r, p, "open", o, data, n),
         NEW stored, NEW trades, NEW offers, NEW b, Sound(b), b.total = Bought(trades, p),
         b.available = 0, o.volume = b.total,
         Coin[p] \in DOMAIN data, data[Coin[p]] = b, \A x \in offers : x.pair # p
  PROVE  Ordered(r, p) /\ View(r, stored, trades, offers, p, b)
<1>1. /\ Waiting(r, p) = {n, n + 1} /\ r[n].kind = "open" /\ r[n].data = o
      /\ r[n + 1].kind = "balances" /\ r[n + 1].data = data
  BY DEF OrderWaits
<1>2. PICK m \in Nat : m = n + 1 /\ n < m /\ ~(m < n) /\ ~(n < n) /\ ~(m < m)
  OBVIOUS
<1>3. Ordered(r, p)
  BY <1>1, <1>2 DEF Ordered
<1>4. IsCoin(r, stored, p, b)
  BY <1>1, <1>2 DEF IsCoin
<1>5. IsPosition(r, trades, p, b.total)
  BY <1>1, <1>2 DEF IsPosition
<1>6. Offered(r, offers, p) = {o}
  BY <1>1, <1>2 DEF Offered
<1>7. AllOffered(Offered(r, offers, p), b)
  BY <1>6 DEF AllOffered
<1>8. QED
  BY <1>3, <1>4, <1>5, <1>7 DEF View

(* A handler of the pair p posts: each entry names it, and what it says of *)
(* balances is of the currencies its name is cut into.                     *)
PostsOf(s, p) ==
  \A j \in DOMAIN s :
    /\ s[j].pair = p
    /\ s[j].kind = "balances" => DOMAIN s[j].data \subseteq {CoinSlice[p], BaseSlice[p]}
    /\ s[j].kind = "open" => s[j].data.pair = p

(* A handler posts a change of balances.                                   *)
LEMMA ChangeIsOf ==
  ASSUME NEW p \in Pairs, NEW data \in Changes, DOMAIN data \subseteq {CoinSlice[p], BaseSlice[p]}
  PROVE  PostsOf(Posted(p, "balances", data), p)
<1>1. PICK e : e = [kind |-> "balances", pair |-> p, data |-> data]
  OBVIOUS
<1>2. Posted(p, "balances", data) = <<e>>
  BY <1>1 DEF Posted
<1>3. QED
  BY <1>1, <1>2 DEF PostsOf

(* Or an order or a trade before it.                                       *)
LEMMA OrderIsOf ==
  ASSUME NEW p \in Pairs, NEW data \in Changes, DOMAIN data \subseteq {CoinSlice[p], BaseSlice[p]},
         NEW kind \in {"open", "trade"}, NEW o \in GoodOrders, kind = "open" => o \in Sales /\ o.pair = p
  PROVE  PostsOf(Posted(p, kind, o) \o Posted(p, "balances", data), p)
<1>1. PICK d : d = [kind |-> kind, pair |-> p, data |-> o]
  OBVIOUS
<1>2. PICK e : e = [kind |-> "balances", pair |-> p, data |-> data]
  OBVIOUS
<1>3. Posted(p, kind, o) = <<d>> /\ Posted(p, "balances", data) = <<e>>
  BY <1>1, <1>2 DEF Posted
<1>4. <<d>> \in Seq(Posts) /\ <<e>> \in Seq(Posts)
  BY <1>3, PostedTyped
<1>5. PICK s : s = <<d>> \o <<e>>
  OBVIOUS
<1>6. Len(s) = 2 /\ s[1] = d /\ s[2] = e /\ s \in Seq(Posts)
  BY <1>4, <1>5, ConcatProperties
<1>7. DOMAIN s = 1 .. 2
  BY <1>6, LenProperties
<1>8. \A j \in DOMAIN s : s[j] = d \/ s[j] = e
  BY <1>6, <1>7
<1>9. d.pair = p /\ d.kind # "balances" /\ (d.kind = "open" => d.data.pair = p)
  BY <1>1
<1>10. /\ e.pair = p /\ e.kind = "balances"
       /\ DOMAIN e.data \subseteq {CoinSlice[p], BaseSlice[p]}
  BY <1>2
<1>11. PostsOf(s, p)
  BY <1>8, <1>9, <1>10 DEF PostsOf
<1>12. QED
  BY <1>3, <1>5, <1>11

(* No other pair's coin is among them.                                     *)
LEMMA ApartAppended ==
  ASSUME CoinsApart, NEW q \in Seq(Posts), NEW s \in Seq(Posts), Apart(q),
         NEW p \in Pairs, PostsOf(s, p)
  PROVE  Apart(q \o s)
<1>1. PICK r : r = q \o s
  OBVIOUS
<1>2. PICK n \in Nat : n = Len(q)
  BY LenProperties
<1>3. PICK m \in Nat : m = Len(s)
  BY LenProperties
<1>4. /\ r \in Seq(Posts) /\ Len(r) = n + m
      /\ \A i \in 1 .. (n + m) : r[i] = IF i <= n THEN q[i] ELSE s[i - n]
  BY <1>1, <1>2, <1>3, Concatenated
<1>5. DOMAIN r = 1 .. (n + m) /\ DOMAIN q = 1 .. n /\ DOMAIN s = 1 .. m
  BY <1>2, <1>3, <1>4, LenProperties
<1>6. ASSUME NEW t \in Told \ {p} PROVE Coin[t] \notin {CoinSlice[p], BaseSlice[p]}
  BY ToldIs DEF CoinsApart, Touched
<1>7. ASSUME NEW i \in 1 .. (n + m)
      PROVE  /\ r[i].kind = "balances" => \A t \in Told \ {r[i].pair} : Coin[t] \notin DOMAIN r[i].data
             /\ r[i].kind = "open" => r[i].data.pair = r[i].pair
  <2>1. CASE i <= n
    <3>1. i \in DOMAIN q /\ r[i] = q[i]
      BY <1>4, <1>5, <2>1
    <3>2. QED
      BY <3>1 DEF Apart
  <2>2. CASE ~(i <= n)
    <3>1. i - n \in 1 .. m /\ r[i] = s[i - n]
      BY <1>4, <2>2
    <3>2. PICK j \in DOMAIN s : r[i] = s[j]
      BY <1>5, <3>1
    <3>3. QED
      BY <1>6, <3>2 DEF PostsOf
  <2>3. QED
    BY <2>1, <2>2
<1>8. QED
  BY <1>1, <1>5, <1>7 DEF Apart

(* Delivery leaves what is apart so.                                       *)
LEMMA ApartDelivered ==
  ASSUME NEW q \in Seq(Posts), q # <<>>, Apart(q)
  PROVE  Apart(Tail(q))
<1>1. PICK t : t = Tail(q)
  OBVIOUS
<1>2. PICK n \in Nat : n = Len(q)
  BY LenProperties
<1>3. n > 0
  BY <1>2, EmptySeq
<1>4. /\ t \in Seq(Posts) /\ Len(t) = n - 1
      /\ \A i \in 1 .. (n - 1) : t[i] = q[i + 1]
  BY <1>1, <1>2, HeadTailProperties
<1>5. DOMAIN q = 1 .. n /\ DOMAIN t = 1 .. (n - 1)
  BY <1>2, <1>3, <1>4, LenProperties
<1>6. \A i \in DOMAIN t : \E j \in DOMAIN q : t[i] = q[j]
  BY <1>4, <1>5
<1>7. QED
  BY <1>1, <1>6 DEF Apart

(* One handler at a time: it finds nothing of its pair in the queue.       *)
LEMMA Quiet ==
  ASSUME OneAtATime, NEW p \in Pairs, Fresh(p)
  PROVE  Waiting(queue, p) = {}
<1>1. Coin[p] \in Touched(p)
  BY ConstantsTyped DEF Touched
<1>2. \A i \in DOMAIN queue : Touched(queue[i].pair) \intersect Touched(p) = {}
  BY DEF Fresh, OneAtATime
<1>3. QED
  BY <1>1, <1>2 DEF Waiting

(* A handler of a pair leaves the others as they are.                      *)
LEMMA HandlerKeeps ==
  ASSUME CoinsApart, PositionInv, TypeInv', NEW p \in Pairs, NEW s \in Seq(Posts), PostsOf(s, p),
         queue' = queue \o s, UNCHANGED <<balances, history>>, openOrders' \subseteq openOrders,
         p \in Told => PairInv(p)'
  PROVE  PositionInv'
<1>1. queue \in Seq(Posts) /\ Apart(queue)
  BY DEF PositionInv, TypeInv
<1>2. Apart(queue')
  BY <1>1, ApartAppended
<1>3. ASSUME NEW t \in Told, t # p PROVE PairInv(t)'
  <2>1. \A j \in DOMAIN s : s[j].pair # t
    BY <1>3 DEF PostsOf
  <2>2. SameWaiting(queue, queue', t)
    BY <1>1, <2>1, AppendedAway
  <2>3. /\ balances'[Coin[t]] = balances[Coin[t]] /\ history'[t] = history[t]
        /\ {o \in openOrders' : o.pair = t} \subseteq {o \in openOrders : o.pair = t}
    OBVIOUS
  <2>4. Ordered(queue, t) /\ \E b : View(queue, balances, history[t], openOrders, t, b)
    BY DEF PositionInv, PairInv
  <2>5. PICK b : View(queue, balances, history[t], openOrders, t, b)
    BY <2>4
  <2>6. Ordered(queue', t) /\ View(queue', balances', history[t], openOrders', t, b)
    BY <2>2, <2>3, <2>4, <2>5, SameView
  <2>7. QED
    BY <2>3, <2>6 DEF PairInv
<1>4. \A t \in Told : PairInv(t)'
  BY <1>3
<1>5. QED
  BY <1>2, <1>4 DEF PositionInv

(* What a handler posts of balances.                                       *)
LEMMA EntriesAre ==
  ASSUME NEW p \in Pairs, NEW coin, NEW base
  PROVE  /\ DOMAIN Entries(p, coin, base) \subseteq {CoinSlice[p], BaseSlice[p]}
         /\ DOMAIN Entry(CoinSlice[p], coin) \subseteq {CoinSlice[p], BaseSlice[p]}
         /\ p \in Told => /\ Coin[p] \in DOMAIN Entries(p, coin, base)
                          /\ Entries(p, coin, base)[Coin[p]] = coin
                          /\ Coin[p] \in DOMAIN Entry(CoinSlice[p], coin)
                          /\ Entry(CoinSlice[p], coin)[Coin[p]] = coin
BY ToldIs DEF Entries, Entry

(* A balance of whole steps that is nothing but free or held is sound.     *)
LEMMA SoundBalance ==
  ASSUME NEW available \in Int, NEW held \in Nat, Multiple(available + held)
  PROVE  Sound(Balance(available, held))
BY BalanceTyped DEF Sound, Balance

(* What the invariant says of a pair when one of its handlers begins.      *)
LEMMA HandlerBegins ==
  ASSUME OneAtATime, PositionInv, NEW p \in Told, Fresh(p)
  PROVE  /\ Waiting(queue, p) = {} /\ Sound(balances[Coin[p]])
         /\ balances[Coin[p]].total = Bought(history[p], p)
         /\ \A o \in Resting(p) : /\ balances[Coin[p]].available = 0
                                  /\ o.volume = balances[Coin[p]].total
         /\ \A o, r \in Resting(p) : o = r
<1>1. Waiting(queue, p) = {}
  BY ToldIs, Quiet
<1>2. PICK b : View(queue, balances, history[p], openOrders, p, b)
  BY DEF PositionInv, PairInv
<1>3. Sound(b)
  BY <1>2 DEF View
<1>4. /\ balances[Coin[p]] = b /\ b.total = Bought(history[p], p)
      /\ \A o \in openOrders : o.pair = p => b.available = 0 /\ o.volume = b.total
      /\ \A o, r \in openOrders : o.pair = p /\ r.pair = p => o = r
  BY <1>1, <1>2, Calm
<1>5. QED
  BY <1>1, <1>3, <1>4 DEF Resting

(* A purchase: the coin that is paid for is there when the trade is.       *)
LEMMA BuyPosition ==
  ASSUME OneAtATime, CoinsApart, PositionInv, TypeInv', NEW p \in Pairs,
         NEW price \in Prices, NEW volume \in Volumes, Buy(p, price, volume)
  PROVE  PositionInv'
<1>1. /\ TypeInv /\ balances \in [Currencies -> Amounts] /\ queue \in Seq(Posts)
      /\ submitted \in 0 .. MaxOrders /\ submitted < MaxOrders
  BY DEF PositionInv, TypeInv, Buy, submitOrder
<1>2. price \in Nat /\ price >= TickSize /\ volume \in Nat /\ volume > 0
  BY QuotesAssumption
<1>3. PICK o : o = Order(p, Fitted("Buy", price, volume))
  OBVIOUS
<1>4. o \in GoodOrders /\ o.pair = p /\ o.side = "Buy" /\ o.volume \in Nat /\ o.base \in Nat
  BY <1>1, <1>2, <1>3, OrderTyped
<1>5. PICK coin \in Amounts : coin = Added(CoinSlice[p], o.volume)
  BY <1>1, <1>4, AddedTyped
<1>6. -o.base \in Int
  BY <1>4
<1>7. PICK base \in Amounts : base = Added(BaseSlice[p], -o.base)
  BY <1>1, <1>6, AddedTyped
<1>8. PICK data \in Changes : data = Entries(p, coin, base)
  BY EntriesTyped
<1>9. PICK s : s = Posted(p, "trade", o) \o Posted(p, "balances", data)
  OBVIOUS
<1>10. queue' = queue \o s /\ UNCHANGED <<balances, history>> /\ openOrders' = openOrders
  BY <1>3, <1>5, <1>7, <1>8, <1>9 DEF Buy, submitOrder
<1>11. s \in Seq(Posts)
  BY <1>4, <1>9, PostedTyped, ConcatProperties
<1>12. PostsOf(s, p)
  <2>1. DOMAIN data \subseteq {CoinSlice[p], BaseSlice[p]}
    BY <1>8, EntriesAre
  <2>2. QED
    BY <1>4, <1>9, <2>1, OrderIsOf
<1>13. ASSUME p \in Told PROVE PairInv(p)'
  <2>1. /\ Waiting(queue, p) = {} /\ Sound(balances[Coin[p]])
        /\ balances[Coin[p]].total = Bought(history[p], p)
    BY <1>13, HandlerBegins DEF Buy
  <2>2. \A x \in openOrders : x.pair # p
    BY DEF Buy, Resting
  <2>3. PICK stored \in Amounts : stored = balances[Coin[p]] /\ Sound(stored)
    BY <1>1, <1>13, <2>1, ToldIs
  <2>4. coin = Balance(stored.available + o.volume, stored.held)
    BY <1>5, <1>13, <2>3, ToldIs DEF Added, find
  <2>5. /\ stored.available \in Int /\ stored.held \in Nat
        /\ stored.total = stored.available + stored.held /\ Multiple(stored.total)
    BY <2>3 DEF Sound, Amounts
  <2>6. PICK total \in Int : total = stored.total + o.volume /\ Multiple(total)
    BY <1>4, <2>5, WholeSum DEF GoodOrders
  <2>7. /\ stored.available + o.volume \in Int
        /\ (stored.available + o.volume) + stored.held = total
    BY <1>4, <2>5, <2>6
  <2>8. Sound(coin) /\ coin.total = total
    <3>1. PICK a \in Int : a = stored.available + o.volume
      BY <2>7
    <3>2. Multiple(a + stored.held)
      BY <2>6, <2>7, <3>1
    <3>3. Sound(Balance(a, stored.held))
      BY <2>5, <3>1, <3>2, SoundBalance
    <3>4. QED
      BY <2>4, <2>7, <3>1, <3>3 DEF Balance
  <2>9. coin.total = Bought(history[p], p) + Change(o)
    BY <1>4, <2>1, <2>3, <2>6, <2>8 DEF Change
  <2>10. PICK n \in Nat : OrderWaits(queue', p, "trade", o, data, n)
    BY <1>1, <1>4, <1>9, <1>10, <2>1, AppendedOrder
  <2>11. Coin[p] \in DOMAIN data /\ data[Coin[p]] = coin
    BY <1>8, <1>13, EntriesAre
  <2>12. Ordered(queue', p) /\ View(queue', balances, history[p], openOrders, p, coin)
    BY <1>13, <2>2, <2>8, <2>9, <2>10, <2>11, TradePosted
  <2>13. QED
    BY <1>10, <2>12 DEF PairInv
<1>14. QED
  BY <1>10, <1>11, <1>12, <1>13, HandlerKeeps

(* A sale holds the whole position: what is free is all there is, and of   *)
(* whole steps, so that nothing is cut.                                    *)
LEMMA SellPosition ==
  ASSUME OneAtATime, CoinsApart, PositionInv, TypeInv', NEW p \in Pairs, Sell(p)
  PROVE  PositionInv'
<1>1. /\ TypeInv /\ balances \in [Currencies -> Amounts] /\ queue \in Seq(Posts)
      /\ history \in [Pairs -> Seq(GoodOrders)] /\ submitted \in 0 .. MaxOrders
  BY DEF PositionInv, TypeInv
<1>2. PICK position \in Amounts : position = balances[Coin[p]]
  BY <1>1, ConstantsTyped
<1>3. PICK stopLoss \in Nat :
        stopLoss = calculateStopLoss(Sum(p, Cycle(p), "base"), Sum(p, Cycle(p), "volume"), Profit)
  BY <1>1, CyclePriced DEF Sell
<1>4. /\ position.total >= StepSize /\ position.total <= position.available
      /\ \E slip \in {0} : submitOrder(p, "Sell", stopLoss, position.available - slip)
  BY <1>2, <1>3 DEF Sell, OneAtATime
<1>5. position.total \in Int /\ position.available \in Int /\ position.held \in Nat
  BY DEF Amounts
<1>6. PICK amount \in Nat : amount = position.available
  BY <1>4, <1>5, ConstantsTyped
<1>7. position.available - 0 = amount
  BY <1>6
<1>8. submitOrder(p, "Sell", stopLoss, amount)
  BY <1>4, <1>7
<1>9. PICK o : o = Order(p, Fitted("Sell", stopLoss, amount))
  OBVIOUS
<1>10. /\ o \in GoodOrders /\ o.pair = p /\ o.side = "Sell" /\ o.volume \in Nat
       /\ o.volume = rounding(StepSize, amount)
  BY <1>1, <1>8, <1>9, OrderTyped DEF submitOrder
<1>11. o \in Sales
  BY <1>10 DEF Sales
<1>12. PICK coin \in Amounts : coin = Balance(0, o.volume)
  BY <1>10, BalanceTyped
<1>13. PICK data \in Changes : data = Entry(CoinSlice[p], coin)
  BY EntryTyped, ConstantsTyped
<1>14. PICK s : s = Posted(p, "open", o) \o Posted(p, "balances", data)
  OBVIOUS
<1>15. queue' = queue \o s /\ UNCHANGED <<balances, history>> /\ openOrders' = openOrders
  BY <1>8, <1>9, <1>12, <1>13, <1>14 DEF submitOrder
<1>16. s \in Seq(Posts)
  BY <1>10, <1>11, <1>14, PostedTyped, ConcatProperties
<1>17. PostsOf(s, p)
  <2>1. DOMAIN data \subseteq {CoinSlice[p], BaseSlice[p]}
    BY <1>13, EntriesAre
  <2>2. QED
    BY <1>10, <1>11, <1>14, <2>1, OrderIsOf
<1>18. ASSUME p \in Told PROVE PairInv(p)'
  <2>1. /\ Waiting(queue, p) = {} /\ Sound(balances[Coin[p]])
        /\ balances[Coin[p]].total = Bought(history[p], p)
    BY <1>18, HandlerBegins DEF Sell
  <2>2. \A x \in openOrders : x.pair # p
    BY DEF Sell, Resting
  <2>3. position.total = position.available + position.held /\ Multiple(position.total)
    BY <1>2, <2>1 DEF Sound
  <2>4. position.total = amount
    BY <1>4, <1>5, <1>6, <2>3
  <2>5. Multiple(amount)
    BY <2>3, <2>4
  <2>6. o.volume = amount
    BY <1>6, <1>10, <2>5, WholeStepsKept
  <2>7. Sound(coin) /\ coin.total = o.volume /\ coin.available = 0
    <3>1. Multiple(0 + o.volume)
      BY <1>10, <2>5, <2>6
    <3>2. QED
      BY <1>10, <1>12, <3>1, SoundBalance DEF Balance
  <2>8. coin.total = Bought(history[p], p) /\ o.volume = coin.total
    BY <1>2, <2>1, <2>4, <2>6, <2>7
  <2>9. PICK n \in Nat : OrderWaits(queue', p, "open", o, data, n)
    BY <1>1, <1>10, <1>11, <1>14, <1>15, <2>1, AppendedOrder
  <2>10. Coin[p] \in DOMAIN data /\ data[Coin[p]] = coin
    BY <1>13, <1>18, EntriesAre
  <2>11. PICK r : r = queue' /\ OrderWaits(r, p, "open", o, data, n)
    BY <2>9
  <2>12. p \in Told /\ n \in Nat /\ Sound(coin) /\ coin.available = 0
    BY <1>18, <2>7, <2>9
  <2>13. Ordered(r, p) /\ View(r, balances, history[p], openOrders, p, coin)
    BY SMTT(30), <2>2, <2>8, <2>10, <2>11, <2>12, OfferPosted
  <2>14. Ordered(queue', p) /\ View(queue', balances, history[p], openOrders, p, coin)
    BY <2>11, <2>13
  <2>15. balances' = balances /\ history' = history /\ openOrders' = openOrders
    BY <1>15
  <2>16. View(queue', balances', history'[p], openOrders', p, coin)
    BY <2>14, <2>15
  <2>17. QED
    BY <2>14, <2>16 DEF PairInv
<1>19. QED
  BY <1>15, <1>16, <1>17, <1>18, HandlerKeeps

(* The only offer of a pair is gone when it is canceled or executed.       *)
LEMMA OfferTaken ==
  ASSUME NEW o \in openOrders, \A r, x \in Resting(o.pair) : r = x, openOrders' = openOrders \ {o}
  PROVE  \A x \in openOrders' : x.pair # o.pair
BY DEF Resting

(* What was held comes back, and nothing is lost of it.                    *)
LEMMA CancelPosition ==
  ASSUME OneAtATime, CoinsApart, PositionInv, TypeInv', NEW o \in openOrders, cancelOrder(o)
  PROVE  PositionInv'
<1>1. /\ TypeInv /\ balances \in [Currencies -> Amounts] /\ queue \in Seq(Posts)
  BY DEF PositionInv, TypeInv
<1>2. PICK p \in Pairs : p = o.pair
  BY <1>1, RestingTyped
<1>3. PICK found \in Amounts : found = find(CoinSlice[p])
  BY <1>1, FoundTyped
<1>4. PICK coin \in Amounts : coin = [available |-> found.held, held |-> 0, total |-> found.total]
  BY ReturnedTyped
<1>5. PICK data \in Changes : data = Entry(CoinSlice[p], coin)
  BY EntryTyped, ConstantsTyped
<1>6. PICK s : s = Posted(p, "balances", data)
  OBVIOUS
<1>7. queue' = queue \o s /\ UNCHANGED <<balances, history>> /\ openOrders' = openOrders \ {o}
  BY <1>2, <1>3, <1>4, <1>5, <1>6 DEF cancelOrder
<1>8. s \in Seq(Posts)
  BY <1>6, PostedTyped
<1>9. PostsOf(s, p)
  BY <1>5, <1>6, EntriesAre, ChangeIsOf
<1>10. ASSUME p \in Told PROVE PairInv(p)'
  <2>1. /\ Waiting(queue, p) = {} /\ Sound(balances[Coin[p]])
        /\ balances[Coin[p]].total = Bought(history[p], p)
        /\ balances[Coin[p]].available = 0
        /\ \A r, x \in Resting(p) : r = x
    BY <1>2, <1>10, HandlerBegins DEF cancelOrder, Resting
  <2>2. \A x \in openOrders' : x.pair # p
    BY <1>2, <1>7, <2>1, OfferTaken
  <2>3. found = balances[Coin[p]]
    BY <1>3, <1>10, ToldIs DEF find
  <2>4. found.held \in Nat /\ found.total = 0 + found.held /\ Multiple(found.total)
    BY <2>1, <2>3 DEF Sound, Amounts
  <2>5. coin.available = found.total /\ coin.held = 0 /\ coin.total = found.total
    BY <1>4, <2>4
  <2>6. Sound(coin)
    BY <2>4, <2>5 DEF Sound
  <2>7. coin.total = Bought(history[p], p)
    BY <2>1, <2>3, <2>5
  <2>8. PICK n \in Nat : ChangeWaits(queue', p, data, n)
    BY <1>1, <1>6, <1>7, <2>1, AppendedChange
  <2>9. Coin[p] \in DOMAIN data /\ data[Coin[p]] = coin
    BY <1>5, <1>10, EntriesAre
  <2>10. Ordered(queue', p) /\ View(queue', balances, history[p], openOrders', p, coin)
    BY <1>10, <2>2, <2>6, <2>7, <2>8, <2>9, ChangePosted
  <2>11. QED
    BY <1>7, <2>10 DEF PairInv
<1>11. openOrders' \subseteq openOrders
  BY <1>7
<1>12. QED
  BY <1>7, <1>8, <1>9, <1>10, <1>11, HandlerKeeps

(* What was held is sold, all of it.                                       *)
LEMMA SoldPosition ==
  ASSUME OneAtATime, CoinsApart, PositionInv, TypeInv', NEW o \in openOrders, sellOrder(o)
  PROVE  PositionInv'
<1>1. /\ TypeInv /\ balances \in [Currencies -> Amounts] /\ queue \in Seq(Posts)
      /\ history \in [Pairs -> Seq(GoodOrders)]
  BY DEF PositionInv, TypeInv
<1>2. /\ o \in GoodOrders /\ o.pair \in Pairs /\ o.side = "Sell" /\ o.volume \in Nat /\ o.base \in Int
      /\ Multiple(o.volume)
  BY <1>1, RestingTyped
<1>3. PICK p \in Pairs : p = o.pair
  BY <1>2
<1>4. PICK coin \in Amounts : coin = Balance(0, 0)
  BY BalanceTyped
<1>5. PICK base \in Amounts : base = Added(BaseSlice[p], o.base)
  BY <1>1, <1>2, AddedTyped
<1>6. PICK data \in Changes : data = Entries(p, coin, base)
  BY EntriesTyped
<1>7. PICK s : s = Posted(p, "trade", o) \o Posted(p, "balances", data)
  OBVIOUS
<1>8. Posted(p, "trade", o) \in Seq(Posts) /\ Posted(p, "balances", data) \in Seq(Posts)
  BY <1>2, PostedTyped
<1>9. queue' = queue \o s /\ UNCHANGED <<balances, history>> /\ openOrders' = openOrders \ {o}
  <2>1. queue' = queue \o Posted(p, "trade", o) \o Posted(p, "balances", data)
    BY <1>3, <1>4, <1>5, <1>6 DEF sellOrder
  <2>2. queue' = queue \o s
    BY <1>1, <1>7, <1>8, <2>1
  <2>3. QED
    BY <2>2 DEF sellOrder
<1>10. s \in Seq(Posts)
  BY <1>7, <1>8, ConcatProperties
<1>11. PostsOf(s, p)
  <2>1. DOMAIN data \subseteq {CoinSlice[p], BaseSlice[p]}
    BY <1>6, EntriesAre
  <2>2. QED
    BY <1>2, <1>7, <2>1, OrderIsOf
<1>12. ASSUME p \in Told PROVE PairInv(p)'
  <2>1. /\ Waiting(queue, p) = {} /\ Sound(balances[Coin[p]])
        /\ balances[Coin[p]].total = Bought(history[p], p)
        /\ o.volume = balances[Coin[p]].total
        /\ \A r, x \in Resting(p) : r = x
    BY <1>3, <1>12, HandlerBegins DEF sellOrder, Resting
  <2>2. \A x \in openOrders' : x.pair # p
    BY <1>3, <1>9, <2>1, OfferTaken
  <2>3. Sound(coin) /\ coin.total = 0
    <3>1. Multiple(0 + 0)
      BY <1>2, WholeSum
    <3>2. QED
      BY <1>4, <3>1, SoundBalance DEF Balance
  <2>4. coin.total = Bought(history[p], p) + Change(o)
    BY <1>2, <2>1, <2>3 DEF Change
  <2>5. PICK n \in Nat : OrderWaits(queue', p, "trade", o, data, n)
    BY <1>1, <1>2, <1>7, <1>9, <2>1, AppendedOrder
  <2>6. Coin[p] \in DOMAIN data /\ data[Coin[p]] = coin
    BY <1>6, <1>12, EntriesAre
  <2>7. Ordered(queue', p) /\ View(queue', balances, history[p], openOrders', p, coin)
    BY <1>12, <2>2, <2>3, <2>4, <2>5, <2>6, TradePosted
  <2>8. QED
    BY <1>9, <2>7 DEF PairInv
<1>13. openOrders' \subseteq openOrders
  BY <1>9
<1>14. QED
  BY <1>9, <1>10, <1>11, <1>12, <1>13, HandlerKeeps

(* A merge moves what waited to where it is stored, and a position counts  *)
(* both.                                                                   *)
LEMMA MergePosition ==
  ASSUME CoinsApart, PositionInv, TypeInv', MergeOpenOrders \/ MergeTradeHistory \/ MergeBalances
  PROVE  PositionInv'
<1>1. /\ TypeInv /\ queue \in Seq(Posts) /\ queue # <<>> /\ queue' = Tail(queue) /\ Apart(queue)
      /\ history \in [Pairs -> Seq(GoodOrders)]
  BY DEF PositionInv, TypeInv, MergeOpenOrders, MergeTradeHistory, MergeBalances, Deliver
<1>2. PICK e \in Posts : e = Head(queue) /\ e = queue[1] /\ 1 \in DOMAIN queue
  BY <1>1, Delivered
<1>3. Apart(queue')
  BY <1>1, ApartDelivered
<1>4. e.pair \in Pairs
  BY DEF Posts
<1>5. /\ balances' = IF e.kind = "balances" THEN Merged(balances, e.data) ELSE balances
      /\ history' = IF e.kind = "trade" THEN [history EXCEPT ![e.pair] = Append(@, e.data)] ELSE history
      /\ openOrders' = IF e.kind = "open" THEN openOrders \union {e.data} ELSE openOrders
  <2>1. CASE MergeOpenOrders
    BY <1>2, <2>1 DEF MergeOpenOrders, Deliver
  <2>2. CASE MergeTradeHistory
    BY <1>2, <2>2 DEF MergeTradeHistory, Deliver
  <2>3. CASE MergeBalances
    BY <1>2, <2>3 DEF MergeBalances, Deliver
  <2>4. QED
    BY <2>1, <2>2, <2>3
<1>6. ASSUME NEW p \in Told PROVE PairInv(p)'
  <2>1. Ordered(queue, p) /\ \E b : View(queue, balances, history[p], openOrders, p, b)
    BY DEF PositionInv, PairInv
  <2>2. PICK b : View(queue, balances, history[p], openOrders, p, b)
    BY <2>1
  <2>3. Ordered(queue', p)
    BY <1>1, <2>1, DeliveredOrdered
  <2>4. /\ p \in Pairs /\ Coin[p] \in Currencies /\ history[p] \in Seq(GoodOrders)
    BY <1>1, ToldIs
  <2>5. CASE e.pair # p
    <3>1. e.kind = "balances" => Coin[p] \notin DOMAIN e.data
      BY <1>1, <1>2, <2>5 DEF Apart
    <3>2. balances'[Coin[p]] = balances[Coin[p]]
      BY <1>5, <2>4, <3>1 DEF Merged
    <3>3. history'[p] = history[p]
      BY <1>1, <1>5, <2>4, <2>5
    <3>4. e.kind = "open" => e.data.pair # p
      BY <1>1, <1>2, <2>5 DEF Apart
    <3>5. {o \in openOrders' : o.pair = p} \subseteq {o \in openOrders : o.pair = p}
      BY <1>5, <3>4
    <3>6. View(queue', balances', history[p], openOrders', p, b)
      BY <1>1, <1>2, <2>2, <2>5, <3>2, <3>5, DeliveredAway
    <3>7. QED
      BY <2>3, <3>3, <3>6 DEF PairInv
  <2>6. CASE e.pair = p
    <3>1. e.kind = "balances" => balances'[Coin[p]] = e.data[Coin[p]]
      <4>1. 1 \in Waiting(queue, p)
        BY <1>2, <2>6 DEF Waiting
      <4>2. e.kind = "balances" => Coin[p] \in DOMAIN e.data
        BY <1>2, <2>2, <4>1 DEF View, IsCoin
      <4>3. QED
        BY <1>5, <2>4, <4>2 DEF Merged
    <3>2. {o \in openOrders' : o.pair = p} \subseteq
            {o \in openOrders : o.pair = p} \union (IF e.kind = "open" THEN {e.data} ELSE {})
      BY <1>5
    <3>3. history'[p] = IF e.kind = "trade" THEN Append(history[p], e.data) ELSE history[p]
      BY <1>1, <1>5, <2>4, <2>6
    <3>4. PICK after : after = history'[p]
      OBVIOUS
    <3>5. View(Tail(queue), balances', after, openOrders', p, b)
      BY <1>1, <1>2, <2>1, <2>2, <2>4, <2>6, <3>1, <3>2, <3>3, <3>4, DeliveredHere
    <3>6. QED
      BY <1>1, <2>3, <3>4, <3>5 DEF PairInv
  <2>7. QED
    BY <2>5, <2>6
<1>7. QED
  BY <1>3, <1>6 DEF PositionInv

(* The program that ended changes nothing but what rests.                  *)
LEMMA CrashPosition ==
  ASSUME PositionInv, TypeInv', NEW o \in openOrders, CancelCrashes(o)
  PROVE  PositionInv'
<1>1. UNCHANGED <<balances, history, queue>> /\ openOrders' = openOrders \ {o}
  BY DEF CancelCrashes
<1>2. ASSUME NEW p \in Told PROVE PairInv(p)'
  <2>1. PICK b : View(queue, balances, history[p], openOrders, p, b)
    BY DEF PositionInv, PairInv
  <2>2. SameWaiting(queue, queue, p)
    BY DEF SameWaiting
  <2>3. {x \in openOrders' : x.pair = p} \subseteq {x \in openOrders : x.pair = p}
    BY <1>1
  <2>4. View(queue, balances, history[p], openOrders', p, b)
    BY <2>1, <2>2, <2>3, SameView
  <2>5. Ordered(queue, p)
    BY DEF PositionInv, PairInv
  <2>6. QED
    BY <1>1, <2>4, <2>5 DEF PairInv
<1>3. Apart(queue')
  BY <1>1 DEF PositionInv
<1>4. QED
  BY <1>2, <1>3 DEF PositionInv

(* At first there is the deposit and nothing was traded.                   *)
LEMMA InitPosition ==
  ASSUME DepositsWhole, Init
  PROVE  PositionInv
<1>1. TypeInv
  BY InitTyped
<1>2. queue = <<>> /\ DOMAIN queue = {} /\ openOrders = {}
  <2>1. DOMAIN <<>> = {}
    OBVIOUS
  <2>2. QED
    BY <2>1 DEF Init
<1>3. Apart(queue)
  BY <1>2 DEF Apart
<1>4. ASSUME NEW p \in Told PROVE PairInv(p)
  <2>1. p \in Pairs /\ Coin[p] \in Currencies /\ Deposit[Coin[p]] \in Nat /\ Multiple(Deposit[Coin[p]])
    BY ToldIs, DepositAssumption DEF DepositsWhole
  <2>2. PICK n \in Nat : n = Deposit[Coin[p]]
    BY <2>1
  <2>3. Waiting(queue, p) = {}
    BY <1>2 DEF Waiting
  <2>4. PICK b : b = Balance(n, 0)
    OBVIOUS
  <2>5. Multiple(n + 0)
    BY <2>1, <2>2
  <2>6. Sound(b) /\ b.total = n
    BY <2>4, <2>5, SoundBalance DEF Balance
  <2>7. balances[Coin[p]] = b
    BY <2>1, <2>2, <2>4 DEF Init, userBalance
  <2>8. history[p] = <<>>
    BY <2>1 DEF Init
  <2>9. \A side : VolumeOf(<<>>, side) = 0
    <3>1. ASSUME NEW side PROVE VolumeOf(<<>>, side) = 0
      <4>1. PICK f : f = [i \in {} |-> <<>>[i].volume]
        OBVIOUS
      <4>2. SumFunctionOnSet(f, {}) = 0
        BY SumEmpty
      <4>3. {i \in DOMAIN <<>> : <<>>[i].side = side} = {}
        OBVIOUS
      <4>4. QED
        BY <4>1, <4>2, <4>3 DEF VolumeOf
    <3>2. QED
      BY <3>1
  <2>10. Bought(history[p], p) = n
    BY <2>2, <2>8, <2>9 DEF Bought
  <2>11. IsCoin(queue, balances, p, b) /\ IsPosition(queue, history[p], p, b.total)
    BY <2>3, <2>6, <2>7, <2>10 DEF IsCoin, IsPosition
  <2>12. AllOffered(Offered(queue, openOrders, p), b)
    BY <1>2, <2>3 DEF Offered, AllOffered
  <2>13. Ordered(queue, p)
    BY <2>3 DEF Ordered
  <2>14. QED
    BY <2>6, <2>11, <2>12, <2>13 DEF PairInv, View
<1>5. QED
  BY <1>1, <1>3, <1>4 DEF PositionInv

(* Every step keeps the positions.                                         *)
LEMMA PositionStep ==
  ASSUME OneAtATime, CoinsApart, PositionInv, [Next]_vars
  PROVE  PositionInv'
<1>1. TypeInv'
  BY TypeStep DEF PositionInv
<1>2. ASSUME NEW p \in Pairs, NEW price \in Prices, NEW volume \in Volumes, Buy(p, price, volume)
      PROVE  PositionInv'
  BY <1>1, <1>2, BuyPosition
<1>3. ASSUME NEW p \in Pairs, Sell(p) PROVE PositionInv'
  BY <1>1, <1>3, SellPosition
<1>4. ASSUME NEW o \in openOrders, cancelOrder(o) PROVE PositionInv'
  BY <1>1, <1>4, CancelPosition
<1>5. ASSUME NEW o \in openOrders, CancelCrashes(o) PROVE PositionInv'
  BY <1>1, <1>5, CrashPosition
<1>6. ASSUME NEW o \in openOrders, sellOrder(o) PROVE PositionInv'
  BY <1>1, <1>6, SoldPosition
<1>7. ASSUME MergeOpenOrders \/ MergeTradeHistory \/ MergeBalances PROVE PositionInv'
  BY <1>1, <1>7, MergePosition
<1>8. CASE UNCHANGED vars
  <2>1. UNCHANGED <<balances, openOrders, history, queue>>
    BY <1>8 DEF vars
  <2>2. \A p \in Told : PairInv(p)'
    BY <2>1 DEF PairInv, PositionInv
  <2>3. QED
    BY <1>1, <2>1, <2>2 DEF PositionInv
<1>9. QED
  BY <1>2, <1>3, <1>4, <1>5, <1>6, <1>7, <1>8 DEF Next

(* When nothing of a pair waits, its balance is its position.              *)
LEMMA PositionFollows ==
  ASSUME PositionInv
  PROVE  PositionInHistory
<1>1. ASSUME NEW p \in Told, \A i \in DOMAIN queue : queue[i].pair # p
      PROVE  balances[Coin[p]].total = Bought(history[p], p)
  <2>1. Waiting(queue, p) = {}
    BY <1>1 DEF Waiting
  <2>2. PICK b : View(queue, balances, history[p], openOrders, p, b)
    BY DEF PositionInv, PairInv
  <2>3. QED
    BY <2>1, <2>2, Calm
<1>2. ASSUME NEW p, NEW side
      PROVE  Sum(p, {i \in DOMAIN history[p] : history[p][i].side = side}, "volume")
               = VolumeOf(history[p], side)
  BY DEF Sum, VolumeOf
<1>3. QED
  BY <1>1, <1>2 DEF PositionInHistory, Bought

(* Once all is delivered, the balance of a coin is what the history of its *)
(* pair says was bought and not sold - for any filters, quotes, number of  *)
(* orders and pairs, the ones whose currencies the Emulator cuts wrongly   *)
(* among them, as long as no other pair trades that coin.                  *)
THEOREM PositionKept ==
  ASSUME OneAtATime, CoinsApart, DepositsWhole
  PROVE  Spec => []PositionInHistory
<1>1. Init => PositionInv
  BY InitPosition
<1>2. PositionInv /\ [Next]_vars => PositionInv'
  BY PositionStep
<1>3. PositionInv => PositionInHistory
  BY PositionFollows
<1>4. QED
  BY <1>1, <1>2, <1>3, PTL DEF Spec
=============================================================================
