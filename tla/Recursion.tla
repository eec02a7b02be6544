------------------------------ MODULE Recursion ------------------------------
(***************************************************************************)
(* What recursive functions on the naturals compute.  Induction is by the  *)
(* least element of the set of counterexamples.                            *)
(***************************************************************************)
EXTENDS Integers, TLAPS, WellFoundedInduction

\* A set of naturals that is not empty has a least element.
LEMMA Least ==
  ASSUME NEW T, T \subseteq Nat, T # {}
  PROVE  \E m \in T : \A k \in T : m <= k
<1>1. IsWellFoundedOn(OpToRel(<, Nat), Nat)
  BY NatLessThanWellFounded
<1>2. \E x \in T : \A y \in T : ~ (<<y, x>> \in OpToRel(<, Nat))
  BY <1>1, WFMin
<1>3. PICK x \in T : \A y \in T : ~ (<<y, x>> \in OpToRel(<, Nat))
  BY <1>2
<1>4. \A y \in T : ~ (y < x)
  BY <1>3 DEF OpToRel
<1>5. QED
  BY <1>4

\* Induction: a set that contains 0 and the successor of each of its naturals
\* contains them all.
LEMMA Induction ==
  ASSUME NEW T, 0 \in T, \A n \in Nat : n \in T => n + 1 \in T
  PROVE  Nat \subseteq T
<1> SUFFICES ASSUME Nat \ T # {} PROVE FALSE
  OBVIOUS
<1>1. PICK m \in Nat \ T : \A k \in Nat \ T : m <= k
  BY Least
<1>2. m - 1 \in Nat /\ (m - 1) + 1 = m
  BY <1>1
<1>3. m - 1 \in T
  BY <1>1, <1>2
<1>4. QED
  BY <1>1, <1>2, <1>3

\* Functions on 0..n that start with a and go on by G.
Stage(n, a, D, G) ==
  {g \in [0..n -> D] : g[0] = a /\ \A k \in 1..n : g[k] = G[k][g[k - 1]]}

LEMMA StageExists ==
  ASSUME NEW D, NEW a \in D, NEW G \in [Nat -> [D -> D]]
  PROVE  \A n \in Nat : Stage(n, a, D, G) # {}
<1> DEFINE T == {n \in Nat : Stage(n, a, D, G) # {}}
<1>1. 0 \in T
  <2>1. [k \in 0..0 |-> a] \in Stage(0, a, D, G)
    BY DEF Stage
  <2>2. QED
    BY <2>1
<1>2. ASSUME NEW n \in Nat, n \in T PROVE n + 1 \in T
  <2>1. PICK g \in [0..n -> D] : g[0] = a /\ \A k \in 1..n : g[k] = G[k][g[k - 1]]
    BY <1>2 DEF Stage
  <2> DEFINE h == [k \in 0..(n + 1) |-> IF k = n + 1 THEN G[n + 1][g[n]] ELSE g[k]]
  <2>2. G[n + 1][g[n]] \in D
    BY <2>1
  <2>3. h \in [0..(n + 1) -> D] /\ h[0] = a
    BY <2>1, <2>2
  <2>4. ASSUME NEW k \in 1..(n + 1) PROVE h[k] = G[k][h[k - 1]]
    <3>1. h[k - 1] = g[k - 1]
      OBVIOUS
    <3>2. CASE k = n + 1
      BY <3>1, <3>2
    <3>3. CASE k # n + 1
      BY <2>1, <3>1, <3>3
    <3>4. QED
      BY <3>2, <3>3
  <2>5. h \in Stage(n + 1, a, D, G)
    BY <2>3, <2>4 DEF Stage
  <2>6. QED
    BY <2>5
<1>3. Nat \subseteq T
  <2> HIDE DEF T
  <2>1. QED
    BY <1>1, <1>2, Induction
<1>4. QED
  BY <1>3

LEMMA StageUnique ==
  ASSUME NEW D, NEW a \in D, NEW G \in [Nat -> [D -> D]], NEW m \in Nat, NEW n \in Nat, m <= n,
         NEW g \in Stage(m, a, D, G), NEW h \in Stage(n, a, D, G)
  PROVE  \A k \in 0..m : g[k] = h[k]
<1> DEFINE T == {k \in Nat : k > m \/ g[k] = h[k]}
<1>1. 0 \in T
  BY DEF Stage
<1>2. ASSUME NEW k \in Nat, k \in T PROVE k + 1 \in T
  <2>1. CASE k + 1 <= m
    <3>1. g[k + 1] = G[k + 1][g[k]] /\ h[k + 1] = G[k + 1][h[k]]
      <4>1. k + 1 \in 1..m /\ k + 1 \in 1..n /\ (k + 1) - 1 = k
        BY <2>1
      <4>2. QED
        BY <4>1 DEF Stage
    <3>2. QED
      BY <1>2, <2>1, <3>1
  <2>2. QED
    BY <2>1
<1>3. Nat \subseteq T
  <2> HIDE DEF T
  <2>1. QED
    BY <1>1, <1>2, Induction
<1>4. QED
  BY <1>3

\* f starts with a and goes on by G.
Recursive(f, a, G) == f[0] = a /\ \A n \in Nat : f[n + 1] = G[n + 1][f[n]]

\* A value and a step define a function on the naturals.
LEMMA PrimitiveRecursion ==
  ASSUME NEW D, NEW a \in D, NEW G \in [Nat -> [D -> D]]
  PROVE  \E f \in [Nat -> D] : Recursive(f, a, G)
<1> DEFINE c(n) == CHOOSE g : g \in Stage(n, a, D, G)
           f == [n \in Nat |-> c(n)[n]]
<1>1. ASSUME NEW n \in Nat PROVE c(n) \in Stage(n, a, D, G)
  BY StageExists
<1>2. ASSUME NEW n \in Nat PROVE f[n] \in D
  <2> HIDE DEF c
  <2>1. c(n) \in [0..n -> D]
    BY <1>1 DEF Stage
  <2>2. QED
    BY <2>1
<1>3. f[0] = a
  BY <1>1 DEF Stage
<1>4. ASSUME NEW n \in Nat PROVE f[n + 1] = G[n + 1][f[n]]
  <2> HIDE DEF c
  <2>1. c(n) \in Stage(n, a, D, G) /\ c(n + 1) \in Stage(n + 1, a, D, G)
    BY <1>1
  <2>2. c(n)[n] = c(n + 1)[n]
    BY <2>1, StageUnique
  <2>3. n + 1 \in 1..(n + 1) /\ (n + 1) - 1 = n
    OBVIOUS
  <2>4. c(n + 1)[n + 1] = G[n + 1][c(n + 1)[n]]
    BY <2>1, <2>3 DEF Stage
  <2>5. QED
    BY <2>2, <2>4
<1>5. f \in [Nat -> D]
  <2> HIDE DEF c
  <2>1. QED
    BY <1>2
<1>6. QED
  <2> HIDE DEF f
  <2>1. QED
    BY <1>3, <1>4, <1>5 DEF Recursive

\* The same for functions whose values are naturals.
LEMMA NaturalRecursion ==
  ASSUME NEW a \in Nat, NEW G \in [Nat -> [Nat -> Nat]]
  PROVE  \E f \in [Nat -> Nat] : Recursive(f, a, G)
<1> DEFINE D == Nat
<1>1. a \in D /\ G \in [Nat -> [D -> D]]
  OBVIOUS
<1> HIDE DEF D
<1>2. \E f \in [Nat -> D] : Recursive(f, a, G)
  BY <1>1, PrimitiveRecursion
<1>3. QED
  BY <1>2 DEF D

\* The value of step n depends only on the values before n.
LooksBack(D, G) ==
  /\ G \in [Nat -> [[Nat -> D] -> D]]
  /\ \A n \in Nat : \A f, g \in [Nat -> D] :
       (\A i \in 0..(n - 1) : f[i] = g[i]) => G[n][f] = G[n][g]

FollowsItself(f, G) == \A n \in Nat : f[n] = G[n][f]

\* A step that depends on all the values before defines a function as well: the
\* limit of the functions that G makes from a constant one, each of which is
\* right one place further.
LEMMA CourseOfValues ==
  ASSUME NEW D, NEW d \in D, NEW G, LooksBack(D, G)
  PROVE  \E f \in [Nat -> D] : FollowsItself(f, G)
<1> DEFINE Fcn == [Nat -> D]
           start == [n \in Nat |-> d]
           H == [k \in Nat |-> [x \in Fcn |-> [n \in Nat |-> G[n][x]]]]
<1>1. start \in Fcn
  OBVIOUS
<1> G \in [Nat -> [[Nat -> D] -> D]]
  BY DEF LooksBack
<1>2. H \in [Nat -> [Fcn -> Fcn]]
  OBVIOUS
<1>3. \A k \in Nat : \A x \in Fcn : \A n \in Nat : H[k][x][n] = G[n][x]
  OBVIOUS
<1> HIDE DEF start, H
<1>4. PICK F \in [Nat -> Fcn] : \A k \in Nat : F[k + 1] = H[k + 1][F[k]]
  <2> HIDE DEF Fcn
  <2>1. \E F \in [Nat -> Fcn] : Recursive(F, start, H)
    BY <1>1, <1>2, PrimitiveRecursion
  <2>2. QED
    BY <2>1 DEF Recursive
<1>5. ASSUME NEW k \in Nat PROVE F[k] \in [Nat -> D] /\ \A n \in Nat : F[k + 1][n] = G[n][F[k]]
  <2>1. k + 1 \in Nat /\ F[k] \in Fcn
    OBVIOUS
  <2>2. F[k + 1] = H[k + 1][F[k]]
    BY <1>4
  <2>3. QED
    BY <1>3, <2>1, <2>2
<1> DEFINE Right(k) == \A i \in 0..(k - 1) : F[k + 1][i] = F[k][i]
           T == {k \in Nat : Right(k)}
<1>6. Nat \subseteq T
  <2>1. 0 \in T
    OBVIOUS
  <2>2. ASSUME NEW k \in Nat, k \in T PROVE k + 1 \in T
    <3>1. ASSUME NEW i \in 0..k PROVE F[(k + 1) + 1][i] = F[k + 1][i]
      <4>1. \A j \in 0..(i - 1) : F[k + 1][j] = F[k][j]
        BY <2>2
      <4>2. k + 1 \in Nat /\ i \in Nat /\ F[k] \in [Nat -> D] /\ F[k + 1] \in [Nat -> D]
        BY <1>5
      <4>3. G[i][F[k + 1]] = G[i][F[k]]
        BY <4>1, <4>2 DEF LooksBack
      <4>4. QED
        BY <1>5, <4>2, <4>3
    <3>2. Right(k + 1)
      BY <3>1
    <3>3. QED
      BY <3>2
  <2> HIDE DEF T
  <2>3. QED
    BY <2>1, <2>2, Induction
<1> DEFINE f == [n \in Nat |-> F[n + 1][n]]
<1>7. f \in [Nat -> D]
  BY <1>5
<1>8. ASSUME NEW i \in Nat PROVE \A k \in Nat : k > i => F[k][i] = f[i]
  <2> DEFINE S == {k \in Nat : k > i => F[k][i] = f[i]}
  <2>1. 0 \in S
    OBVIOUS
  <2>2. ASSUME NEW k \in Nat, k \in S PROVE k + 1 \in S
    <3>1. CASE k > i
      <4>1. F[k + 1][i] = F[k][i]
        BY <1>6, <3>1
      <4>2. QED
        BY <2>2, <3>1, <4>1
    <3>2. CASE k = i
      BY <3>2
    <3>3. QED
      BY <3>1, <3>2
  <2>3. Nat \subseteq S
    <3> HIDE DEF S
    <3>1. QED
      BY <2>1, <2>2, Induction
  <2>4. QED
    BY <2>3
<1>9. ASSUME NEW n \in Nat PROVE f[n] = G[n][f]
  <2>1. \A i \in 0..(n - 1) : F[n][i] = f[i]
    BY <1>8
  <2>2. f[n] = G[n][F[n]]
    BY <1>5
  <2> HIDE DEF f
  <2>3. G[n][F[n]] = G[n][f]
    BY <1>5, <1>7, <2>1 DEF LooksBack
  <2>4. QED
    BY <2>2, <2>3
<1>10. FollowsItself(f, G)
  BY <1>9 DEF FollowsItself
<1>11. QED
  BY <1>7, <1>10
=============================================================================
