---------------------------- MODULE NumberLemmas ----------------------------
(***************************************************************************)
(* Facts about numbers for the proofs about the components: remainders,    *)
(* for the circular buffers of PacketRing and JobQueue; the least and the  *)
(* greatest of a set, with induction as a fact about sets; and sums over   *)
(* finite sets, as the Functions module folds them.                        *)
(***************************************************************************)
EXTENDS Integers, FiniteSetsExt, FiniteSetTheorems, WellFoundedInduction, TLAPS

-----------------------------------------------------------------------------
(*                                Remainders                               *)

LEMMA DivMod ==
  ASSUME NEW a \in Nat, NEW n \in Nat \ {0}
  PROVE  a = n * (a \div n) + (a % n) /\ a % n \in 0 .. n - 1 /\ a \div n \in Nat
<1>1. a = n * (a \div n) + (a % n) OBVIOUS
<1>2. a % n \in 0 .. n - 1 OBVIOUS
<1>3. a \div n \in Int OBVIOUS
<1>4. a \div n >= 0 OBVIOUS
<1> QED BY <1>1, <1>2, <1>3, <1>4

(* A multiple of n smaller than n in size is 0.                            *)
LEMMA SmallMultiple ==
  ASSUME NEW n \in Nat \ {0}, NEW k \in Int, n * k < n, 0 - n < n * k
  PROVE  k = 0
<1> DEFINE z == n * k
<1>0. z \in Int OBVIOUS
<1>1. CASE k >= 1
  <2>1. z >= n BY <1>1
  <2> HIDE DEF z
  <2> QED BY <2>1, <1>0 DEF z
<1>2. CASE k <= 0 - 1
  <2>1. z <= 0 - n BY <1>2
  <2> HIDE DEF z
  <2> QED BY <2>1, <1>0 DEF z
<1> QED BY <1>1, <1>2

(* The remainder is the only r of its range that leaves a multiple of n.   *)
LEMMA RemainderUnique ==
  ASSUME NEW a \in Nat, NEW n \in Nat \ {0}, NEW q \in Int, NEW r \in 0 .. n - 1,
         a = n * q + r
  PROVE  a % n = r
<1> DEFINE x == a \div n
           s == a % n
<1>1. a = n * x + s /\ x \in Nat /\ s \in 0 .. n - 1 BY DivMod
<1> HIDE DEF x, s
<1>2. n * (q - x) = s - r BY <1>1
<1>3. q - x = 0 BY <1>1, <1>2, SmallMultiple
<1> QED BY <1>1, <1>2, <1>3 DEF s

(* Indices less than n apart have different remainders.                    *)
LEMMA ModUnique ==
  ASSUME NEW a \in Nat, NEW b \in Nat, NEW n \in Nat \ {0}, a < b, b < a + n
  PROVE  a % n # b % n
<1> DEFINE x == a \div n
           y == b \div n
           s == a % n
<1>1. a = n * x + s /\ x \in Nat /\ s \in 0 .. n - 1 BY DivMod
<1> SUFFICES ASSUME b % n = s PROVE FALSE OBVIOUS
<1>2. b = n * y + s /\ y \in Nat BY DivMod
<1> HIDE DEF x, y, s
<1>3. n * (y - x) = b - a BY <1>1, <1>2
<1>4. y - x = 0 BY <1>1, <1>2, <1>3, SmallMultiple
<1> QED BY <1>1, <1>2, <1>4

LEMMA ModSucc ==
  ASSUME NEW a \in Nat, NEW n \in Nat \ {0}
  PROVE  ((a % n) + 1) % n = (a + 1) % n
<1> DEFINE x == a \div n
           s == a % n
<1>1. a = n * x + s /\ x \in Nat /\ s \in 0 .. n - 1 BY DivMod
<1> HIDE DEF x, s
<1>2. CASE s + 1 < n
  <2>1. (s + 1) % n = s + 1 BY <1>1, <1>2, RemainderUnique
  <2>2. a + 1 = n * x + (s + 1) BY <1>1
  <2>3. (a + 1) % n = s + 1 BY <1>1, <1>2, <2>2, RemainderUnique
  <2> QED BY <2>1, <2>3 DEF s
<1>3. CASE s + 1 = n
  <2>1. s + 1 = n * 1 + 0 BY <1>3
  <2>2. (s + 1) % n = 0 BY <1>1, <2>1, RemainderUnique
  <2>3. a + 1 = n * (x + 1) + 0 BY <1>1, <1>3
  <2>4. (a + 1) % n = 0 BY <1>1, <2>3, RemainderUnique
  <2> QED BY <2>2, <2>4 DEF s
<1> QED BY <1>1, <1>2, <1>3

LEMMA ModAdd ==
  ASSUME NEW a \in Nat, NEW n \in Nat \ {0}
  PROVE  (a + n) % n = a % n
<1> DEFINE x == a \div n
           s == a % n
<1>1. a = n * x + s /\ x \in Nat /\ s \in 0 .. n - 1 BY DivMod
<1> HIDE DEF x, s
<1>2. a + n = n * (x + 1) + s BY <1>1
<1>3. (a + n) % n = s BY <1>1, <1>2, RemainderUnique
<1> QED BY <1>3 DEF s

(* Bounds of a quotient.                                                   *)
LEMMA DivBound ==
  ASSUME NEW a \in Nat, NEW n \in Nat \ {0}, NEW k \in Nat, a < n * (k + 1)
  PROVE  a \div n \in Nat /\ a \div n <= k
<1> DEFINE q == a \div n
           r == a % n
<1>1. a = n * q + r /\ q \in Nat /\ r \in 0 .. n - 1 BY DivMod
<1> HIDE DEF q, r
<1>2. SUFFICES ASSUME q >= k + 1 PROVE FALSE BY <1>1 DEF q
<1>3. n * q >= n * (k + 1) BY <1>1, <1>2
<1>4. n * (k + 1) = n * k + n OBVIOUS
<1>5. n * q \in Nat /\ n * k \in Nat BY <1>1
<1> QED BY <1>1, <1>3, <1>4, <1>5

LEMMA DivExact ==
  ASSUME NEW a \in Nat, NEW n \in Nat \ {0}, NEW k \in Nat, a = n * k
  PROVE  a \div n = k
<1> DEFINE q == a \div n
           r == a % n
<1>1. a = n * q + r /\ q \in Nat /\ r \in 0 .. n - 1 BY DivMod
<1> HIDE DEF q, r
<1>2. n * (q - k) = 0 - r /\ q - k \in Int BY <1>1
<1>3. q - k = 0 BY <1>1, <1>2, SmallMultiple
<1> QED BY <1>1, <1>3 DEF q

(* Least and greatest.                                                     *)
LEMMA MinOfTwo ==
  ASSUME NEW a \in Int, NEW b \in Int
  PROVE  Min({a, b}) = IF a <= b THEN a ELSE b
<1> DEFINE m == IF a <= b THEN a ELSE b
<1>1. m \in {a, b} /\ \A x \in {a, b} : m <= x OBVIOUS
<1>2. \A y \in {a, b} : (\A x \in {a, b} : y <= x) => y = m OBVIOUS
<1> HIDE DEF m
<1>3. Min({a, b}) = m BY <1>1, <1>2 DEF Min
<1> QED BY <1>3 DEF m

LEMMA MaxBounds ==
  ASSUME NEW S, S \subseteq Int, NEW m \in S, \A x \in S : m >= x
  PROVE  Max(S) = m
<1>1. \A y \in S : (\A x \in S : y >= x) => y = m OBVIOUS
<1> QED BY <1>1 DEF Max

-----------------------------------------------------------------------------
(*                                   Sums                                  *)

(* A set of natural numbers has a least one, and a bounded one a greatest. *)
LEMMA MinIsLeast ==
  ASSUME NEW S, S \subseteq Nat, S # {}
  PROVE  Min(S) \in S /\ \A x \in S : Min(S) <= x
<1>1. PICK m \in S : \A k \in S : ~(<<k, m>> \in OpToRel(<, Nat))
  BY WFMin, NatLessThanWellFounded
<1>2. \A k \in S : ~(k < m) BY <1>1 DEF OpToRel
<1>3. m \in Nat /\ \A k \in S : k \in Nat OBVIOUS
<1>4. \A k \in S : m <= k BY <1>2, <1>3
<1> QED BY <1>4 DEF Min

LEMMA MaxIsGreatest ==
  ASSUME NEW S, S \subseteq Nat, S # {}, NEW b \in Nat, \A x \in S : x <= b
  PROVE  Max(S) \in S /\ \A x \in S : Max(S) >= x
<1> DEFINE below == {b - x : x \in S}
<1>1. below \subseteq Nat /\ below # {}
  <2>1. \A x \in S : b - x \in Nat OBVIOUS
  <2>2. PICK x \in S : TRUE OBVIOUS
  <2>3. b - x \in below OBVIOUS
  <2> QED BY <2>1, <2>3
<1>2. PICK y \in below : \A z \in below : y <= z
  <2> HIDE DEF below
  <2> QED BY <1>1, MinIsLeast
<1>3. PICK m \in S : y = b - m BY <1>2
<1>4. \A x \in S : b - m <= b - x
  <2> TAKE x \in S
  <2>1. b - x \in below OBVIOUS
  <2> HIDE DEF below
  <2> QED BY <1>2, <1>3, <2>1
<1>5. \A x \in S : m >= x BY <1>3, <1>4
<1> QED BY <1>3, <1>5 DEF Max

(* Induction on natural numbers, for a set of them.                        *)
LEMMA NatsFromZero ==
  ASSUME NEW S, 0 \in S, \A n \in Nat : n \in S => n + 1 \in S
  PROVE  Nat \subseteq S
<1> DEFINE Missing == Nat \ S
           m == Min(Missing)
<1>1. SUFFICES ASSUME Missing # {} PROVE FALSE OBVIOUS
<1>2. m \in Missing /\ \A k \in Missing : m <= k
  <2>1. Missing \subseteq Nat OBVIOUS
  <2> HIDE DEF Missing
  <2> QED BY <1>1, <2>1, MinIsLeast
<1> HIDE DEF m
<1>3. m \in Nat /\ m \notin S /\ m # 0 BY <1>2
<1>4. m - 1 \in Nat /\ ~(m <= m - 1) /\ (m - 1) + 1 = m BY <1>3
<1>5. m - 1 \in S BY <1>2, <1>4
<1> QED BY <1>3, <1>4, <1>5

Pick(s) == CHOOSE x \in s : TRUE

(* F gives every part of S the sum of what v gives its elements.           *)
SumsUp(F, v, S) ==
  F = [s \in SUBSET S |-> IF s = {} THEN 0 ELSE v[Pick(s)] + F[s \ {Pick(s)}]]

LEMMA SumIsChosen ==
  ASSUME NEW v, NEW S
  PROVE  SumFunctionOnSet(v, S) = (CHOOSE F : SumsUp(F, v, S))[S]
BY DEF SumFunctionOnSet, FoldFunctionOnSet, MapThenFoldSet, SumsUp, Pick

LEMMA PickIsIn == ASSUME NEW s, s # {} PROVE Pick(s) \in s
BY DEF Pick

(* Parts of S of at most n elements.                                       *)
Small(S, n) == {s \in SUBSET S : Cardinality(s) <= n}
SumsUpTo(F, v, S, n) ==
  F = [s \in Small(S, n) |-> IF s = {} THEN 0 ELSE v[Pick(s)] + F[s \ {Pick(s)}]]

LEMMA SmallerIsSmall ==
  ASSUME NEW S, IsFiniteSet(S), NEW n \in Nat, NEW s \in Small(S, n + 1), s # {}
  PROVE  s \ {Pick(s)} \in Small(S, n)
<1>1. s \in SUBSET S /\ IsFiniteSet(s) /\ Cardinality(s) <= n + 1 BY FS_Subset DEF Small
<1>2. Cardinality(s) \in Nat BY <1>1, FS_CardinalityType
<1>3. Cardinality(s \ {Pick(s)}) = Cardinality(s) - 1 BY <1>1, PickIsIn, FS_RemoveElement
<1> QED BY <1>1, <1>2, <1>3 DEF Small

LEMMA SumExists ==
  ASSUME NEW v, NEW S, IsFiniteSet(S)
  PROVE  \E F : SumsUp(F, v, S)
<1> DEFINE Reached == {n \in Nat : \E F : SumsUpTo(F, v, S, n)}
<1>1. 0 \in Reached
  <2> DEFINE F == [s \in Small(S, 0) |-> 0]
  <2>1. \A s \in Small(S, 0) : s = {}
    <3> TAKE s \in Small(S, 0)
    <3>1. IsFiniteSet(s) /\ Cardinality(s) <= 0 BY FS_Subset DEF Small
    <3>2. Cardinality(s) = 0 BY <3>1, FS_CardinalityType
    <3> QED BY <3>1, <3>2, FS_EmptySet
  <2>2. SumsUpTo(F, v, S, 0) BY <2>1 DEF SumsUpTo
  <2> QED BY <2>2
<1>2. ASSUME NEW n \in Nat, n \in Reached PROVE n + 1 \in Reached
  <2>1. PICK F : SumsUpTo(F, v, S, n) BY <1>2
  <2> DEFINE G == [s \in Small(S, n + 1) |-> IF s = {} THEN 0 ELSE v[Pick(s)] + F[s \ {Pick(s)}]]
  <2>2. \A s \in Small(S, n) : s \in Small(S, n + 1)
    <3> TAKE s \in Small(S, n)
    <3>1. IsFiniteSet(s) /\ Cardinality(s) <= n /\ s \in SUBSET S BY FS_Subset DEF Small
    <3> QED BY <3>1, FS_CardinalityType DEF Small
  <2>3. \A s \in Small(S, n) : F[s] = IF s = {} THEN 0 ELSE v[Pick(s)] + F[s \ {Pick(s)}]
    BY <2>1 DEF SumsUpTo
  <2>4. \A s \in Small(S, n) : G[s] = F[s] BY <2>2, <2>3
  <2>5. \A s \in Small(S, n + 1) : s # {} => F[s \ {Pick(s)}] = G[s \ {Pick(s)}]
    BY <2>4, SmallerIsSmall
  <2>6. SumsUpTo(G, v, S, n + 1) BY <2>5 DEF SumsUpTo
  <2> QED BY <2>6
<1>3. Nat \subseteq Reached
  <2> HIDE DEF Reached
  <2> QED BY <1>1, <1>2, NatsFromZero
<1>4. Cardinality(S) \in Nat BY FS_CardinalityType
<1>5. PICK F : SumsUpTo(F, v, S, Cardinality(S)) BY <1>3, <1>4
<1>6. Small(S, Cardinality(S)) = SUBSET S BY FS_Subset DEF Small
<1> QED BY <1>5, <1>6 DEF SumsUp, SumsUpTo

(* Two such functions agree where their sets overlap.                      *)
LEMMA SumIsUnique ==
  ASSUME NEW v, NEW S, IsFiniteSet(S), NEW F, SumsUp(F, v, S),
         NEW T \in SUBSET S, NEW G, SumsUp(G, v, T)
  PROVE  F[T] = G[T]
<1> DEFINE Agree == {n \in Nat : \A s \in SUBSET T : Cardinality(s) = n => F[s] = G[s]}
<1>0. \A s \in SUBSET T : s \in SUBSET S /\ IsFiniteSet(s) /\ Cardinality(s) \in Nat
  BY FS_Subset, FS_CardinalityType
<1>1. \A s \in SUBSET T : /\ F[s] = IF s = {} THEN 0 ELSE v[Pick(s)] + F[s \ {Pick(s)}]
                          /\ G[s] = IF s = {} THEN 0 ELSE v[Pick(s)] + G[s \ {Pick(s)}]
  BY <1>0 DEF SumsUp
<1>2. 0 \in Agree BY <1>0, <1>1, FS_EmptySet
<1>3. ASSUME NEW n \in Nat, n \in Agree PROVE n + 1 \in Agree
  <2> SUFFICES ASSUME NEW s \in SUBSET T, Cardinality(s) = n + 1 PROVE F[s] = G[s]
    OBVIOUS
  <2>1. s # {} BY FS_EmptySet
  <2>2. Cardinality(s \ {Pick(s)}) = n BY <1>0, <2>1, PickIsIn, FS_RemoveElement
  <2>3. F[s \ {Pick(s)}] = G[s \ {Pick(s)}] BY <1>3, <2>2
  <2> QED BY <1>1, <2>1, <2>3
<1>4. Nat \subseteq Agree
  <2> HIDE DEF Agree
  <2> QED BY <1>2, <1>3, NatsFromZero
<1> QED BY <1>0, <1>4

(* What a part sums to does not depend on the whole.                       *)
LEMMA SumOfPart ==
  ASSUME NEW v, NEW S, IsFiniteSet(S), NEW F, SumsUp(F, v, S), NEW T \in SUBSET S
  PROVE  SumFunctionOnSet(v, T) = F[T]
<1>1. IsFiniteSet(T) BY FS_Subset
<1>2. SumsUp((CHOOSE G : SumsUp(G, v, T)), v, T) BY <1>1, SumExists
<1> QED BY <1>2, SumIsUnique, SumIsChosen

LEMMA EmptySum == ASSUME NEW v PROVE SumFunctionOnSet(v, {}) = 0
<1>1. PICK F : SumsUp(F, v, {}) BY SumExists, FS_EmptySet
<1>2. SumFunctionOnSet(v, {}) = F[{}] BY <1>1, SumOfPart, FS_EmptySet
<1> QED BY <1>1, <1>2 DEF SumsUp

LEMMA SumPicks ==
  ASSUME NEW v, NEW S, IsFiniteSet(S), S # {}
  PROVE  SumFunctionOnSet(v, S) = v[Pick(S)] + SumFunctionOnSet(v, S \ {Pick(S)})
<1>1. PICK F : SumsUp(F, v, S) BY SumExists
<1>2. SumFunctionOnSet(v, S) = F[S] BY <1>1, SumOfPart
<1>3. SumFunctionOnSet(v, S \ {Pick(S)}) = F[S \ {Pick(S)}] BY <1>1, SumOfPart
<1>4. F[S] = v[Pick(S)] + F[S \ {Pick(S)}] BY <1>1 DEF SumsUp
<1> QED BY <1>2, <1>3, <1>4

(* A sum of integers is one.                                               *)
LEMMA SumIsInt ==
  ASSUME NEW v, NEW S, IsFiniteSet(S), \A x \in S : v[x] \in Int
  PROVE  SumFunctionOnSet(v, S) \in Int
<1> DEFINE Good == {n \in Nat : \A s \in SUBSET S : Cardinality(s) = n => SumFunctionOnSet(v, s) \in Int}
<1>0. \A s \in SUBSET S : IsFiniteSet(s) /\ Cardinality(s) \in Nat
  BY FS_Subset, FS_CardinalityType
<1>1. 0 \in Good BY <1>0, EmptySum, FS_EmptySet
<1>2. ASSUME NEW n \in Nat, n \in Good PROVE n + 1 \in Good
  <2> SUFFICES ASSUME NEW s \in SUBSET S, Cardinality(s) = n + 1
               PROVE  SumFunctionOnSet(v, s) \in Int
    OBVIOUS
  <2>1. s # {} BY FS_EmptySet
  <2>2. Pick(s) \in s BY <2>1, PickIsIn
  <2>3. Cardinality(s \ {Pick(s)}) = n
    <3>1. IsFiniteSet(s) BY <1>0
    <3>2. Cardinality(s \ {Pick(s)}) = Cardinality(s) - 1 BY <3>1, <2>2, FS_RemoveElement
    <3> QED BY <3>2
  <2>4. SumFunctionOnSet(v, s \ {Pick(s)}) \in Int BY <1>2, <2>3
  <2>5. v[Pick(s)] \in Int BY <2>2
  <2>6. SumFunctionOnSet(v, s) = v[Pick(s)] + SumFunctionOnSet(v, s \ {Pick(s)})
    BY <1>0, <2>1, SumPicks
  <2> QED BY <2>4, <2>5, <2>6
<1>3. Nat \subseteq Good
  <2> HIDE DEF Good
  <2> QED BY <1>1, <1>2, NatsFromZero
<1> QED BY <1>0, <1>3

(* Any element may be taken out of a sum of integers.                      *)
LEMMA SumWithout ==
  ASSUME NEW v, NEW S, IsFiniteSet(S), \A x \in S : v[x] \in Int, NEW y \in S
  PROVE  SumFunctionOnSet(v, S) = v[y] + SumFunctionOnSet(v, S \ {y})
<1> DEFINE Sum(s) == SumFunctionOnSet(v, s)
           Good == {n \in Nat : \A s \in SUBSET S : \A x \in s :
                                  Cardinality(s) = n => Sum(s) = v[x] + Sum(s \ {x})}
<1>0. \A s \in SUBSET S : IsFiniteSet(s) /\ Cardinality(s) \in Nat /\ Sum(s) \in Int
  BY FS_Subset, FS_CardinalityType, SumIsInt
<1>1. 0 \in Good BY <1>0, FS_EmptySet
<1>2. ASSUME NEW n \in Nat, n \in Good PROVE n + 1 \in Good
  <2> SUFFICES ASSUME NEW s \in SUBSET S, NEW x \in s, Cardinality(s) = n + 1
               PROVE  Sum(s) = v[x] + Sum(s \ {x})
    OBVIOUS
  <2> DEFINE p == Pick(s)
  <2>1. p \in s BY PickIsIn
  <2>2. Sum(s) = v[p] + Sum(s \ {p}) BY <1>0, SumPicks
  <2> HIDE DEF p, Sum
  <2>3. CASE x = p BY <2>2, <2>3
  <2>4. CASE x # p
    <3>1. Cardinality(s \ {p}) = n /\ Cardinality(s \ {x}) = n
      BY <1>0, <2>1, FS_RemoveElement
    <3>2. Sum(s \ {p}) = v[x] + Sum((s \ {p}) \ {x}) BY <1>2, <2>4, <3>1
    <3> DEFINE rest == Sum((s \ {p}) \ {x})
    <3>3. Sum(s \ {x}) = v[p] + Sum((s \ {x}) \ {p}) BY <1>2, <2>1, <2>4, <3>1
    <3>4. (s \ {p}) \ {x} = (s \ {x}) \ {p} OBVIOUS
    <3>5. v[x] \in Int /\ v[p] \in Int /\ rest \in Int BY <1>0, <2>1
    <3>6. Sum(s \ {x}) = v[p] + rest BY <3>3, <3>4
    <3> HIDE DEF rest
    <3>7. v[p] + (v[x] + rest) = v[x] + (v[p] + rest) BY <3>5
    <3>8. Sum(s) = v[p] + (v[x] + rest) BY <2>2, <3>2 DEF rest
    <3> QED BY <3>6, <3>7, <3>8
  <2> QED BY <2>3, <2>4
<1>3. Nat \subseteq Good
  <2> HIDE DEF Good
  <2> QED BY <1>1, <1>2, NatsFromZero
<1> QED BY <1>0, <1>3

(* A sum of naturals up to c is at most c for each element.                *)
LEMMA SumBound ==
  ASSUME NEW v, NEW S, IsFiniteSet(S), NEW c \in Nat,
         \A x \in S : v[x] \in Nat /\ v[x] <= c
  PROVE  SumFunctionOnSet(v, S) \in Nat /\ SumFunctionOnSet(v, S) <= c * Cardinality(S)
<1> DEFINE Sum(s) == SumFunctionOnSet(v, s)
           Good == {n \in Nat : \A s \in SUBSET S :
                                  Cardinality(s) = n => Sum(s) \in Nat /\ Sum(s) <= c * n}
<1>0. \A s \in SUBSET S : IsFiniteSet(s) /\ Cardinality(s) \in Nat
  BY FS_Subset, FS_CardinalityType
<1>1. 0 \in Good
  <2> SUFFICES ASSUME NEW s \in SUBSET S, Cardinality(s) = 0 PROVE Sum(s) \in Nat /\ Sum(s) <= c * 0
    OBVIOUS
  <2>1. s = {} BY <1>0, FS_EmptySet
  <2>2. Sum(s) = 0 BY <2>1, EmptySum
  <2> QED BY <2>2
<1>2. ASSUME NEW n \in Nat, n \in Good PROVE n + 1 \in Good
  <2> SUFFICES ASSUME NEW s \in SUBSET S, Cardinality(s) = n + 1
               PROVE  Sum(s) \in Nat /\ Sum(s) <= c * (n + 1)
    OBVIOUS
  <2>1. s # {} BY FS_EmptySet
  <2>2. Pick(s) \in s BY <2>1, PickIsIn
  <2>3. Cardinality(s \ {Pick(s)}) = n
    <3>1. IsFiniteSet(s) BY <1>0
    <3>2. Cardinality(s \ {Pick(s)}) = Cardinality(s) - 1 BY <3>1, <2>2, FS_RemoveElement
    <3> QED BY <3>2
  <2>4. Sum(s) = v[Pick(s)] + Sum(s \ {Pick(s)}) BY <1>0, <2>1, SumPicks
  <2> HIDE DEF Sum
  <2>5. Sum(s \ {Pick(s)}) \in Nat /\ Sum(s \ {Pick(s)}) <= c * n BY <1>2, <2>3
  <2>6. v[Pick(s)] \in Nat /\ v[Pick(s)] <= c BY <2>2
  <2>7. c * (n + 1) = c * n + c /\ c * n \in Nat OBVIOUS
  <2> QED BY <2>4, <2>5, <2>6, <2>7
<1>3. Nat \subseteq Good
  <2> HIDE DEF Good
  <2> QED BY <1>1, <1>2, NatsFromZero
<1> QED BY <1>0, <1>3

(* A sum does not depend on values elsewhere.                              *)
LEMMA SumAlike ==
  ASSUME NEW v, NEW w, NEW S, \A x \in S : v[x] = w[x]
  PROVE  SumFunctionOnSet(v, S) = SumFunctionOnSet(w, S)
<1>1. \A s \in SUBSET S : s # {} => v[Pick(s)] = w[Pick(s)] BY PickIsIn
<1>2. ASSUME NEW F
      PROVE  [s \in SUBSET S |-> IF s = {} THEN 0 ELSE v[Pick(s)] + F[s \ {Pick(s)}]]
             = [s \in SUBSET S |-> IF s = {} THEN 0 ELSE w[Pick(s)] + F[s \ {Pick(s)}]]
  BY <1>1
<1>3. \A F : SumsUp(F, v, S) <=> SumsUp(F, w, S) BY <1>2 DEF SumsUp
<1>4. (CHOOSE F : SumsUp(F, v, S)) = (CHOOSE F : SumsUp(F, w, S)) BY <1>3
<1> QED BY <1>4, SumIsChosen
=============================================================================
