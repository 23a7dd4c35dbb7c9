--------------------------- MODULE DataInduction ---------------------------
(***************************************************************************)
(* Induction over numbers and over the folds and recursive functions the   *)
(* models compute with.  Every lemma speaks of sets and functions, never   *)
(* of operators: to use one, take the set of the values that have the      *)
(* property.                                                               *)
(***************************************************************************)
EXTENDS Integers, Sequences, FiniteSetsExt, WellFoundedInduction, TLAPS

\* Every nonempty set of natural numbers has a least element.
LEMMA LeastNat ==
    ASSUME NEW S, S \subseteq Nat, S # {}
    PROVE  \E x \in S : \A y \in S : x <= y
<1> DEFINE LT == {ss \in Nat \X Nat : ss[1] < ss[2]}
<1>1. IsWellFoundedOn(LT, Nat)
  BY NatLessThanWellFounded, Zenon DEF OpToRel
<1>2. PICK x \in S : \A y \in S : ~(<<y, x>> \in LT)
  <2> HIDE DEF LT
  <2> QED  BY <1>1, WFMin, Zenon
<1>3. ASSUME NEW y \in S PROVE x <= y
  <2>1. x \in Nat /\ y \in Nat
    OBVIOUS
  <2>2. ~(y < x)
    BY <1>2, <2>1
  <2> QED  BY <2>1, <2>2
<1> QED  BY <1>3

\* Every nonempty set of natural numbers with a bound has a greatest element.
LEMMA GreatestNat ==
    ASSUME NEW n \in Nat, NEW S, S \subseteq 0 .. n, S # {}
    PROVE  \E x \in S : \A y \in S : y <= x
<1> DEFINE T == {n - i : i \in S}
<1>1. T \subseteq Nat /\ T # {}
  <2>1. \A i \in S : i \in 0 .. n /\ n - i \in Nat
    OBVIOUS
  <2> QED  BY <2>1
<1>2. PICK x \in T : \A y \in T : x <= y
  <2> HIDE DEF T
  <2> QED  BY <1>1, LeastNat
<1>3. PICK i \in S : x = n - i
  OBVIOUS
<1>4. ASSUME NEW j \in S PROVE j <= i
  <2>1. n - j \in T
    OBVIOUS
  <2>2. x <= n - j
    BY <1>2, <2>1
  <2> QED  BY <1>3, <2>2
<1> QED  BY <1>3, <1>4

\* Min is the least element.
LEMMA MinIsLeast ==
    ASSUME NEW S, S \subseteq Nat, S # {}
    PROVE  Min(S) \in S /\ \A y \in S : Min(S) <= y
<1>1. \E x \in S : \A y \in S : x =< y
  BY LeastNat
<1> QED  BY <1>1, Zenon DEF Min

\* Max is the greatest element.
LEMMA MaxIsGreatest ==
    ASSUME NEW n \in Nat, NEW S, S \subseteq 0 .. n, S # {}
    PROVE  Max(S) \in S /\ \A y \in S : y <= Max(S)
<1>1. PICK x \in S : \A y \in S : y <= x
  BY GreatestNat
<1>2. \E z \in S : \A y \in S : z >= y
  BY <1>1
<1>3. Max(S) \in S /\ \A y \in S : Max(S) >= y
  BY <1>2, Zenon DEF Max
<1> QED  BY <1>3

\* Induction: a set with 0 that is closed under successor holds every number.
LEMMA SetInduction ==
    ASSUME NEW S, 0 \in S, \A n \in Nat : n \in S => n + 1 \in S
    PROVE  \A n \in Nat : n \in S
<1> DEFINE T == {n \in Nat : n \notin S}
<1>1. SUFFICES T = {}
  OBVIOUS
<1>2. SUFFICES ASSUME T # {} PROVE FALSE
  OBVIOUS
<1>3. PICK x \in T : \A y \in T : x <= y
  <2>1. T \subseteq Nat
    OBVIOUS
  <2> HIDE DEF T
  <2> QED  BY <1>2, <2>1, LeastNat
<1>4. x # 0 /\ x - 1 \in Nat
  OBVIOUS
<1>5. x - 1 \in S
  BY <1>3, <1>4
<1> QED  BY <1>4, <1>5

\* Induction in which every smaller number may be used.
LEMMA StrongInduction ==
    ASSUME NEW S, \A n \in Nat : (\A m \in 0 .. n - 1 : m \in S) => n \in S
    PROVE  \A n \in Nat : n \in S
<1> DEFINE T == {n \in Nat : n \notin S}
<1>1. SUFFICES ASSUME T # {} PROVE FALSE
  OBVIOUS
<1>2. PICK x \in T : \A y \in T : x <= y
  <2>1. T \subseteq Nat
    OBVIOUS
  <2> HIDE DEF T
  <2> QED  BY <1>1, <2>1, LeastNat
<1>3. \A m \in 0 .. x - 1 : m \in S
  BY <1>2
<1> QED  BY <1>3

-----------------------------------------------------------------------------
(* Folds.  FoldLeft over a sequence of length N is a function on the sets  *)
(* of positions: the greatest position is the last one to be taken.        *)

\* The greatest position of a prefix is its length.
LEMMA MaxOfPrefix ==
    ASSUME NEW n \in Nat \ {0}
    PROVE  Max(1 .. n) = n /\ (1 .. n) \ {n} = 1 .. n - 1
<1>1. Max(1 .. n) \in 1 .. n /\ \A y \in 1 .. n : y <= Max(1 .. n)
  BY MaxIsGreatest
<1> QED  BY <1>1

\* it is the fold of step from base, for every set of positions up to N.
IsFold(it, N, base, step) ==
    it = [s \in SUBSET (1 .. N) |->
             IF s = {} THEN base ELSE step[Max(s)][it[s \ {Max(s)}]]]

\* There is a function that satisfies the equation of a fold, so that the one the
\* definition chooses does.
LEMMA FoldExists ==
    ASSUME NEW N \in Nat, NEW V, NEW base \in V, NEW step \in [1 .. N -> [V -> V]]
    PROVE  \E it \in [SUBSET (1 .. N) -> V] : IsFold(it, N, base, step)
<1> DEFINE Eq(it, n) == it = [s \in SUBSET (1 .. n) |->
                                 IF s = {} THEN base ELSE step[Max(s)][it[s \ {Max(s)}]]]
           Has(n) == \E it \in [SUBSET (1 .. n) -> V] : Eq(it, n)
           S == {n \in Nat : n <= N => Has(n)}
<1>1. Has(0)
  <2> DEFINE it == [s \in SUBSET (1 .. 0) |-> base]
  <2>1. \A s \in SUBSET (1 .. 0) : s = {}
    OBVIOUS
  <2>2. it \in [SUBSET (1 .. 0) -> V] /\ Eq(it, 0)
    BY <2>1
  <2> HIDE DEF it
  <2> QED  BY <2>2
<1>2. ASSUME NEW m \in Nat, m + 1 <= N, Has(m) PROVE Has(m + 1)
  <2> DEFINE n == m + 1
  <2>1. n \in Nat /\ n <= N /\ n >= 1 /\ n = m + 1
    BY <1>2
  <2>2. PICK g \in [SUBSET (1 .. m) -> V] : Eq(g, m)
    BY <1>2
  <2> HIDE DEF n
  <2> DEFINE it == [s \in SUBSET (1 .. n) |->
                       IF n \in s THEN step[n][g[s \ {n}]] ELSE g[s]]
  <2>3. ASSUME NEW s \in SUBSET (1 .. n)
        PROVE  /\ s \ {n} \in SUBSET (1 .. m)
               /\ n \notin s => s \in SUBSET (1 .. m)
    BY <2>1, <2>3
  <2>4. it \in [SUBSET (1 .. n) -> V]
    <3>1. n \in 1 .. N
      BY <2>1
    <3> SUFFICES ASSUME NEW s \in SUBSET (1 .. n)
                 PROVE  (IF n \in s THEN step[n][g[s \ {n}]] ELSE g[s]) \in V
      OBVIOUS
    <3> QED  BY <2>3, <3>1
  <2>5. ASSUME NEW s \in SUBSET (1 .. n)
        PROVE  it[s] = IF s = {} THEN base ELSE step[Max(s)][it[s \ {Max(s)}]]
    <3>1. CASE n \in s
      <4>0. s \subseteq 0 .. n /\ s # {}
        BY <3>1
      <4>1. Max(s) \in s /\ \A y \in s : y <= Max(s)
        BY <2>1, <4>0, MaxIsGreatest
      <4>2. Max(s) = n
        <5>1. Max(s) \in 0 .. n
          BY <4>0, <4>1
        <5>2. n <= Max(s)
          BY <3>1, <4>1
        <5> QED  BY <2>1, <5>1, <5>2
      <4>3. it[s \ {n}] = g[s \ {n}]
        BY <2>3
      <4> QED  BY <3>1, <4>2, <4>3
    <3>2. CASE n \notin s
      <4>1. it[s] = g[s] /\ s \in SUBSET (1 .. m)
        BY <3>2, <2>3
      <4>2. g[s] = IF s = {} THEN base ELSE step[Max(s)][g[s \ {Max(s)}]]
        BY <2>2, <4>1
      <4>3. s \ {Max(s)} \in SUBSET (1 .. n) /\ n \notin s \ {Max(s)}
        BY <3>2
      <4>4. it[s \ {Max(s)}] = g[s \ {Max(s)}]
        BY <4>3
      <4> QED  BY <4>1, <4>2, <4>4
    <3> QED  BY <3>1, <3>2
  <2>6. Eq(it, n)
    <3>1. it = [s \in SUBSET (1 .. n) |-> it[s]]
      BY <2>4
    <3> HIDE DEF it, n
    <3> QED  BY <2>5, <3>1
  <2> HIDE DEF it, Eq
  <2> QED  BY <2>4, <2>6 DEF n
<1>3. Has(N)
  <2> HIDE DEF Has
  <2>1. 0 \in S /\ \A m \in Nat : m \in S => m + 1 \in S
    BY <1>1, <1>2
  <2> HIDE DEF S
  <2>2. N \in S
    BY <2>1, SetInduction
  <2> QED  BY <2>2 DEF S
<1> QED  BY <1>3 DEF IsFold

-----------------------------------------------------------------------------
(* Recursive functions that walk upwards through a range of numbers.       *)

\* f is the walk over a .. b: at p it goes on at next[p], or ends.
IsWalk(f, a, b, go, next, step, end) ==
    f = [p \in a .. b |-> IF p \in go THEN step[p][f[next[p]]] ELSE end[p]]

\* There is a function that satisfies the equation of a walk, so that the one the
\* definition chooses does.
LEMMA WalkExists ==
    ASSUME NEW a \in Nat, NEW b \in Nat, NEW V, NEW go \in SUBSET (a .. b),
           NEW next \in [go -> a .. b], \A p \in go : p < next[p],
           NEW step \in [go -> [V -> V]], NEW end \in [a .. b -> V]
    PROVE  \E f \in [a .. b -> V] : IsWalk(f, a, b, go, next, step, end)
<1> DEFINE At(f, p) == f[p] = IF p \in go THEN step[p][f[next[p]]] ELSE end[p]
           From(f, k) == \A p \in a .. b : p + k > b => At(f, p)
           S == {k \in Nat : \E f \in [a .. b -> V] : From(f, k)}
<1>1. 0 \in S
  <2>1. From(end, 0)
    OBVIOUS
  <2> HIDE DEF From
  <2> QED  BY <2>1
<1>2. ASSUME NEW k \in Nat, k \in S PROVE k + 1 \in S
  <2>1. PICK f \in [a .. b -> V] : From(f, k)
    BY <1>2
  <2> DEFINE q == b - k
             v == IF q \in go THEN step[q][f[next[q]]] ELSE end[q]
             g == [p \in a .. b |-> IF p = q THEN v ELSE f[p]]
  <2>2. q \in a .. b => v \in V
    OBVIOUS
  <2>3. g \in [a .. b -> V]
    BY <2>2
  <2>4. ASSUME NEW p \in a .. b, p + (k + 1) > b PROVE At(g, p)
    <3>1. p >= q
      BY <2>4
    <3>2. p \in go => next[p] \in a .. b /\ next[p] # q /\ g[next[p]] = f[next[p]]
      BY <3>1
    <3>3. CASE p = q
      BY <3>2, <3>3
    <3>4. CASE p # q
      <4>1. p + k > b
        BY <3>1, <3>4
      <4>2. g[p] = f[p] /\ At(f, p)
        BY <2>1, <3>4, <4>1
      <4> QED  BY <3>2, <4>2
    <3> QED  BY <3>3, <3>4
  <2> HIDE DEF At, g
  <2> QED  BY <2>3, <2>4
<1>3. \A k \in Nat : k \in S
  <2> HIDE DEF S
  <2> QED  BY <1>1, <1>2, SetInduction
<1>4. PICK f \in [a .. b -> V] : From(f, b + 1)
  <2>1. b + 1 \in Nat
    OBVIOUS
  <2>2. b + 1 \in S
    <3> HIDE DEF S
    <3> QED  BY <1>3, <2>1
  <2> HIDE DEF From
  <2> QED  BY <2>2
<1>5. \A p \in a .. b : f[p] = IF p \in go THEN step[p][f[next[p]]] ELSE end[p]
  BY <1>4
<1> QED  BY <1>5 DEF IsWalk

\* What holds of a walk wherever it ends, and at p when it holds further on, holds of
\* every walk: S is the set of the places it holds at.
LEMMA WalkInduction ==
    ASSUME NEW a \in Nat, NEW b \in Nat, NEW S,
           \A p \in a .. b : (\A q \in p + 1 .. b : q \in S) => p \in S
    PROVE  \A p \in a .. b : p \in S
<1> DEFINE T == {k \in Nat : b - k \in a .. b => b - k \in S}
<1>1. ASSUME NEW n \in Nat, \A m \in 0 .. n - 1 : m \in T PROVE n \in T
  <2> SUFFICES ASSUME b - n \in a .. b PROVE b - n \in S
    OBVIOUS
  <2>1. ASSUME NEW q \in (b - n) + 1 .. b PROVE q \in S
    <3>1. b - q \in 0 .. n - 1 /\ b - (b - q) = q /\ q \in a .. b
      OBVIOUS
    <3>2. b - q \in T
      BY <1>1, <3>1
    <3> QED  BY <3>1, <3>2
  <2> QED  BY <2>1
<1>2. \A n \in Nat : n \in T
  <2> HIDE DEF T
  <2> QED  BY <1>1, StrongInduction
<1>3. ASSUME NEW p \in a .. b PROVE p \in S
  <2>1. b - p \in Nat /\ b - (b - p) = p
    OBVIOUS
  <2>2. b - p \in T
    BY <1>2, <2>1
  <2> QED  BY <2>1, <2>2
<1> QED  BY <1>3

\* A remainder that is not 0 is one more than the remainder before.
LEMMA NextRemainder ==
    ASSUME NEW n \in Nat \ {0}, NEW s \in Nat, (s + 1) % n # 0
    PROVE  (s + 1) % n = (s % n) + 1 /\ s % n \in Nat /\ s % n < n
<1> DEFINE q == s \div n
           r == s % n
<1>1. q \in Nat /\ r \in Nat /\ r < n /\ s = n * q + r
  OBVIOUS
<1> HIDE DEF q, r
<1>2. CASE r + 1 < n
  <2>1. s + 1 = n * q + (r + 1) /\ r + 1 \in 0 .. n - 1
    BY <1>1, <1>2
  <2>2. (n * q + (r + 1)) % n = r + 1
    BY <1>1, <2>1
  <2> QED  BY <1>1, <2>1, <2>2 DEF r
<1>3. CASE r + 1 = n
  <2>1. s + 1 = n * (q + 1)
    BY <1>1, <1>3
  <2>2. (n * (q + 1)) % n = 0
    BY <1>1
  <2> QED  BY <2>1, <2>2
<1> QED  BY <1>1, <1>2, <1>3
=============================================================================
