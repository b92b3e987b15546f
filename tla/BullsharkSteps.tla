--------------------------- MODULE BullsharkSteps ---------------------------
(***************************************************************************)
(* What the functions of Bullshark return, and what a validator holds and  *)
(* has committed after each of its steps, for every committee, certified   *)
(* DAG, digest order, garbage collection depth and number of crashes.      *)
(*                                                                         *)
(* The lemmas assume the few facts on natural numbers and finite sets that *)
(* Library lists.  Module BullsharkProofs shows that they hold, from the   *)
(* theorems of the library, and has the theorems on Bullshark.             *)
(***************************************************************************)
EXTENDS Bullshark, TLAPS

-----------------------------------------------------------------------------
(* Natural numbers and finite sets.                                        *)

\* A nonempty set of natural numbers has a least element.
Least == \A T \in SUBSET Nat : T # {} => \E m \in T : \A k \in T : m <= k

\* Cardinality counts; parts of a finite set are smaller.
CardNat == \A S : IsFiniteSet(S) => Cardinality(S) \in Nat
CardSubset ==
  \A S, T : IsFiniteSet(S) /\ T \subseteq S => IsFiniteSet(T) /\ Cardinality(T) <= Cardinality(S)
CardAdd ==
  \A S, x : IsFiniteSet(S) => /\ IsFiniteSet(S \cup {x})
                              /\ x \notin S => Cardinality(S \cup {x}) = Cardinality(S) + 1
CardRemove ==
  \A S, x : IsFiniteSet(S) /\ x \in S => /\ IsFiniteSet(S \ {x})
                                         /\ Cardinality(S \ {x}) = Cardinality(S) - 1
CardUpTo == \A n \in Nat : IsFiniteSet(1..n) /\ Cardinality(1..n) = n
CardInjection ==
  \A S, T : \A f \in Injection(S, T) :
    IsFiniteSet(T) => /\ Cardinality(S) <= Cardinality(T)
                      /\ Cardinality(S) = Cardinality(T) => f \in Surjection(S, T)
ImageFinite == \A S, T : \A f \in Surjection(S, T) : IsFiniteSet(S) => IsFiniteSet(T)

Library ==
  /\ Least /\ CardNat /\ CardSubset /\ CardAdd
  /\ CardRemove /\ CardUpTo /\ CardInjection /\ ImageFinite

\* There is nothing in the empty set.
LEMMA EmptyFinite == IsFiniteSet({})
<1>1. <<>> \in Seq({})
  OBVIOUS
<1> QED BY <1>1, Zenon DEF IsFiniteSet

\* A set with 0 that is closed under successor has every natural number.
LEMMA SetInduction ==
  ASSUME Library, NEW T, 0 \in T, \A n \in Nat : n \in T => n + 1 \in T
  PROVE  Nat \subseteq T
<1> DEFINE B == Nat \ T
<1> SUFFICES ASSUME B # {} PROVE FALSE
  OBVIOUS
<1>1. PICK m \in B : \A k \in B : m <= k
  BY Zenon DEF Library, Least
<1>2. m \in Nat /\ m # 0
  OBVIOUS
<1>3. m - 1 \in Nat /\ m - 1 \notin B
  BY <1>1, <1>2
<1> QED BY <1>2, <1>3

\* The first n steps of a recursion.
Runs(V, v0, F, n) ==
  {g \in [0..n -> V] : g[0] = v0 /\ \A k \in 1..n : g[k] = F[k][g[k - 1]]}

\* A run of a recursion is longer by one step, in one way.
LEMMA RunsStep ==
  ASSUME NEW V, NEW v0 \in V, NEW F \in [Nat -> [V -> V]], NEW n \in Nat
  PROVE  /\ \A g \in Runs(V, v0, F, n + 1) :
              /\ [k \in 0..n |-> g[k]] \in Runs(V, v0, F, n)
              /\ g[n + 1] = F[n + 1][g[n]]
         /\ \A g \in Runs(V, v0, F, n) : Runs(V, v0, F, n + 1) # {}
<1> USE Zenon
<1>1. ASSUME NEW g \in Runs(V, v0, F, n + 1)
      PROVE  [k \in 0..n |-> g[k]] \in Runs(V, v0, F, n) /\ g[n + 1] = F[n + 1][g[n]]
  <2>1. g \in [0..(n + 1) -> V] /\ g[0] = v0 /\ \A k \in 1..(n + 1) : g[k] = F[k][g[k - 1]]
    BY DEF Runs
  <2> DEFINE h == [k \in 0..n |-> g[k]]
  <2>2. h \in [0..n -> V] /\ h[0] = v0
    BY <2>1, SMT
  <2>3. ASSUME NEW k \in 1..n
        PROVE  h[k] = F[k][h[k - 1]]
    <3>1. k \in 1..(n + 1) /\ k \in 0..n /\ k - 1 \in 0..n
      BY SMT
    <3>2. h[k] = g[k] /\ h[k - 1] = g[k - 1]
      BY <3>1
    <3> QED BY <2>1, <3>1, <3>2
  <2>4. h \in Runs(V, v0, F, n)
    <3> HIDE DEF h
    <3> QED BY <2>2, <2>3 DEF Runs
  <2>5. g[n + 1] = F[n + 1][g[(n + 1) - 1]] /\ (n + 1) - 1 = n
    BY <2>1, SMT
  <2> QED BY <2>4, <2>5
<1>2. ASSUME NEW g \in Runs(V, v0, F, n)
      PROVE  Runs(V, v0, F, n + 1) # {}
  <2>1. g \in [0..n -> V] /\ g[0] = v0 /\ \A k \in 1..n : g[k] = F[k][g[k - 1]]
    BY DEF Runs
  <2> DEFINE h == [k \in 0..(n + 1) |-> IF k = n + 1 THEN F[n + 1][g[n]] ELSE g[k]]
  <2>2. F[n + 1][g[n]] \in V
    BY <2>1, SMT
  <2>3. h \in [0..(n + 1) -> V] /\ h[0] = v0
    BY <2>1, <2>2, SMT
  <2>4. ASSUME NEW k \in 1..(n + 1)
        PROVE  h[k] = F[k][h[k - 1]]
    <3>1. k \in 0..(n + 1) /\ k - 1 \in 0..(n + 1) /\ k - 1 # n + 1
      BY SMT
    <3>2. h[k - 1] = g[k - 1]
      BY <3>1
    <3>3. CASE k = n + 1
      BY <3>1, <3>2, <3>3, SMT
    <3>4. CASE k # n + 1
      <4>1. h[k] = g[k] /\ k \in 1..n
        BY <3>1, <3>4, SMT
      <4> QED BY <2>1, <3>2, <4>1
    <3> QED BY <3>3, <3>4
  <2>5. h \in Runs(V, v0, F, n + 1)
    <3> HIDE DEF h
    <3> QED BY <2>3, <2>4 DEF Runs
  <2> QED BY <2>5
<1> QED BY <1>1, <1>2

Follows(g, v0, F) == g[0] = v0 /\ \A n \in Nat : g[n + 1] = F[n + 1][g[n]]

\* A function is defined by its first value and the step to the next.
LEMMA Recursion ==
  ASSUME Library, NEW V, NEW v0 \in V, NEW F \in [Nat -> [V -> V]]
  PROVE  \E g \in [Nat -> V] : Follows(g, v0, F)
<1> USE Zenon
<1> DEFINE G(n) == Runs(V, v0, F, n)
           T == {n \in Nat : G(n) # {} /\ \A g, h \in G(n) : g = h}
<1>0. \A n \in Nat : \A g \in G(n) : g \in [0..n -> V] /\ g[0] = v0
  BY DEF Runs
<1>1. 0 \in T
  <2>1. [k \in 0..0 |-> v0] \in G(0)
    BY SMT DEF Runs
  <2>2. ASSUME NEW g \in G(0), NEW h \in G(0)
        PROVE  g = h
    <3>1. g \in [0..0 -> V] /\ h \in [0..0 -> V] /\ g[0] = v0 /\ h[0] = v0
      BY <1>0
    <3>2. \A k \in 0..0 : g[k] = h[k]
      BY <3>1, SMT
    <3> QED BY <3>1, <3>2, SMT
  <2> QED BY <2>1, <2>2
<1> HIDE DEF G
<1>2. ASSUME NEW n \in Nat
      PROVE  /\ \A g \in G(n + 1) : [k \in 0..n |-> g[k]] \in G(n) /\ g[n + 1] = F[n + 1][g[n]]
             /\ \A g \in G(n) : G(n + 1) # {}
  BY RunsStep DEF G
<1>3. ASSUME NEW n \in Nat, n \in T
      PROVE  n + 1 \in T
  <2>1. G(n + 1) # {}
    BY <1>2, <1>3, SMT
  <2>2. ASSUME NEW a \in G(n + 1), NEW b \in G(n + 1)
        PROVE  a = b
    <3>0. [k \in 0..n |-> a[k]] \in G(n) /\ [k \in 0..n |-> b[k]] \in G(n)
      BY <1>2
    <3>1. [k \in 0..n |-> a[k]] = [k \in 0..n |-> b[k]]
      BY <1>3, <3>0
    <3>2. \A k \in 0..n : [j \in 0..n |-> a[j]][k] = [j \in 0..n |-> b[j]][k]
      BY <3>1
    <3>3. \A k \in 0..n : a[k] = b[k]
      BY <3>2
    <3>4. a[n + 1] = F[n + 1][a[n]] /\ b[n + 1] = F[n + 1][b[n]]
      BY <1>2
    <3>m. a[n] = b[n]
      BY <3>3, SMT
    <3>n. n + 1 \in Nat
      BY SMT
    <3>5. a \in [0..(n + 1) -> V] /\ b \in [0..(n + 1) -> V]
      BY <1>0, <3>n
    <3>6. \A k \in 0..(n + 1) : a[k] = b[k]
      BY <3>3, <3>4, <3>m, SMT
    <3> QED BY <3>5, <3>6, SMT
  <2> QED BY <2>1, <2>2, SMT
<1>4. Nat \subseteq T
  <2> HIDE DEF T
  <2> QED BY <1>1, <1>3, SetInduction
<1>5. \A n \in Nat : G(n) # {} /\ \A g, h \in G(n) : g = h
  BY <1>4
<1> DEFINE c(n) == CHOOSE g : g \in G(n)
           f == [n \in Nat |-> c(n)[n]]
<1>6. \A n \in Nat : c(n) \in G(n)
  BY <1>5
<1> HIDE DEF c
<1>7. \A n \in Nat : f[n] = c(n)[n] /\ c(n) \in [0..n -> V] /\ c(n)[0] = v0
  BY <1>0, <1>6
<1>8. f \in [Nat -> V] /\ f[0] = v0
  <2>1. \A n \in Nat : c(n)[n] \in V
    BY <1>7, SMT
  <2> QED BY <1>7, <2>1
<1> HIDE DEF f
<1>9. ASSUME NEW n \in Nat
      PROVE  f[n + 1] = F[n + 1][f[n]]
  <2>1. c(n + 1) \in G(n + 1) /\ c(n) \in G(n) /\ n + 1 \in Nat
    BY <1>6, SMT
  <2> DEFINE d == [k \in 0..n |-> c(n + 1)[k]]
  <2>2. d \in G(n) /\ c(n + 1)[n + 1] = F[n + 1][c(n + 1)[n]]
    BY <1>2, <2>1
  <2>3. d[n] = c(n + 1)[n]
    BY SMT
  <2>4. d = c(n)
    BY <1>5, <2>1, <2>2
  <2> HIDE DEF d
  <2>5. f[n + 1] = c(n + 1)[n + 1] /\ f[n] = c(n)[n]
    BY <1>7, <2>1
  <2> QED BY <2>2, <2>3, <2>4, <2>5
<1> QED BY <1>8, <1>9 DEF Follows

RunsUpTo(f, V, v0, F, N) ==
  f = [n \in 0..N |-> IF n = 0 THEN v0 ELSE F[n][f[n - 1]]] /\ f \in [0..N -> V]

\* The same for a function on the numbers up to N.
LEMMA RecursionUpTo ==
  ASSUME Library, NEW V, NEW v0 \in V, NEW F \in [Nat -> [V -> V]], NEW N \in Nat
  PROVE  \E f : RunsUpTo(f, V, v0, F, N)
<1> USE Zenon
<1>0. PICK g \in [Nat -> V] : Follows(g, v0, F)
  BY Recursion
<1>1. g[0] = v0 /\ \A n \in Nat : g[n + 1] = F[n + 1][g[n]]
  BY <1>0 DEF Follows
<1> DEFINE f == [n \in 0..N |-> g[n]]
<1>2. f \in [0..N -> V]
  BY SMT
<1>3. ASSUME NEW n \in 0..N
      PROVE  f[n] = IF n = 0 THEN v0 ELSE F[n][f[n - 1]]
  <2>1. CASE n = 0
    BY <1>1, <2>1
  <2>2. CASE n # 0
    <3>1. n - 1 \in Nat /\ n - 1 \in 0..N /\ (n - 1) + 1 = n
      BY <2>2, SMT
    <3>2. g[n] = F[n][g[n - 1]]
      BY <1>1, <3>1
    <3> QED BY <2>2, <3>1, <3>2
  <2> QED BY <2>1, <2>2
<1>4. f = [n \in 0..N |-> IF n = 0 THEN v0 ELSE F[n][f[n - 1]]]
  BY <1>3
<1> HIDE DEF f
<1> QED BY <1>2, <1>4 DEF RunsUpTo

-----------------------------------------------------------------------------
(* Finite sets in an order.                                                *)

StrictOrder(S, R) ==
  /\ \A x \in S : <<x, x>> \notin R
  /\ \A x, y, z \in S : <<x, y>> \in R /\ <<y, z>> \in R => <<x, z>> \in R
  /\ \A x, y \in S : x = y \/ <<x, y>> \in R \/ <<y, x>> \in R

Below(S, R, x) == {y \in S : <<y, x>> \in R}

\* What is below an element is less than what is below the elements above it.
LEMMA BelowGrows ==
  ASSUME Library, NEW S, IsFiniteSet(S), NEW R, StrictOrder(S, R)
  PROVE  /\ \A x \in S : Cardinality(Below(S, R, x)) \in 0..(Cardinality(S) - 1)
         /\ \A x, y \in S : <<x, y>> \in R => Cardinality(Below(S, R, x)) < Cardinality(Below(S, R, y))
<1> USE Zenon
<1> DEFINE E(x) == Below(S, R, x)
<1>1. ASSUME NEW x \in S
      PROVE  /\ IsFiniteSet(E(x)) /\ Cardinality(E(x)) \in Nat
             /\ Cardinality(E(x) \cup {x}) = Cardinality(E(x)) + 1
             /\ Cardinality(E(x)) + 1 <= Cardinality(S)
  <2>1. x \notin E(x) /\ E(x) \in SUBSET S
    BY DEF StrictOrder, Below
  <2> HIDE DEF E
  <2>2. IsFiniteSet(E(x))
    BY <2>1 DEF Library, CardSubset
  <2>3. Cardinality(E(x)) \in Nat /\ Cardinality(E(x) \cup {x}) = Cardinality(E(x)) + 1
    BY <2>1, <2>2 DEF Library, CardAdd, CardNat
  <2>4. E(x) \cup {x} \in SUBSET S
    BY <2>1
  <2>5. Cardinality(E(x) \cup {x}) <= Cardinality(S)
    BY <2>4 DEF Library, CardSubset
  <2>6. Cardinality(E(x)) + 1 <= Cardinality(S)
    BY <2>3, <2>5
  <2> QED BY <2>2, <2>3, <2>6
<1>2. ASSUME NEW x \in S, NEW y \in S, <<x, y>> \in R
      PROVE  Cardinality(E(x)) < Cardinality(E(y))
  <2>1. E(x) \cup {x} \in SUBSET E(y)
    BY <1>2 DEF StrictOrder, Below
  <2>2. /\ IsFiniteSet(E(y)) /\ Cardinality(E(x)) \in Nat /\ Cardinality(E(y)) \in Nat
        /\ Cardinality(E(x) \cup {x}) = Cardinality(E(x)) + 1
    BY <1>1
  <2> HIDE DEF E
  <2>3. Cardinality(E(x) \cup {x}) <= Cardinality(E(y))
    BY <2>1, <2>2 DEF Library, CardSubset
  <2> QED BY <2>2, <2>3, SMT
<1>3. Cardinality(S) \in Nat
  BY DEF Library, CardNat
<1>4. ASSUME NEW x \in S
      PROVE  Cardinality(E(x)) \in 0..(Cardinality(S) - 1)
  <2>1. Cardinality(E(x)) \in Nat /\ Cardinality(E(x)) + 1 <= Cardinality(S)
    BY <1>1
  <2> HIDE DEF E
  <2> QED BY <1>3, <2>1, SMT
<1> QED BY <1>2, <1>4

Ranks(S, R) ==
  /\ Cardinality(S) \in Nat
  /\ \A x, y \in S : Cardinality(Below(S, R, x)) = Cardinality(Below(S, R, y)) => x = y
  /\ \A k \in 1..Cardinality(S) : \E x \in S : Cardinality(Below(S, R, x)) = k - 1

\* Every number of elements below is that of one element.
LEMMA Ranked ==
  ASSUME Library, NEW S, IsFiniteSet(S), NEW R, StrictOrder(S, R)
  PROVE  Ranks(S, R)
<1> USE Zenon
<1> DEFINE n == Cardinality(S)
           C(x) == Cardinality(Below(S, R, x))
<1>1. n \in Nat
  BY DEF Library, CardNat
<1>2. /\ \A x \in S : C(x) \in 0..(n - 1)
      /\ \A x, y \in S : <<x, y>> \in R => C(x) < C(y)
  BY BelowGrows
<1> HIDE DEF n, C
<1>4. ASSUME NEW x \in S, NEW y \in S, C(x) = C(y)
      PROVE  x = y
  <2>1. C(x) \in Int /\ ~ (C(x) < C(y)) /\ ~ (C(y) < C(x))
    BY <1>2, <1>4, SMT
  <2> QED BY <1>2, <2>1 DEF StrictOrder
<1>5. \A k \in 1..n : \E x \in S : C(x) = k - 1
  <2> DEFINE f == [x \in S |-> C(x) + 1]
  <2>1. f \in [S -> 1..n]
    BY <1>1, <1>2, SMT
  <2>2. ASSUME NEW x \in S, NEW y \in S, f[x] = f[y]
        PROVE  x = y
    <3>1. C(x) + 1 = C(y) + 1 /\ C(x) \in Int /\ C(y) \in Int
      BY <1>2, <2>2, SMT
    <3>2. C(x) = C(y)
      BY <3>1, SMT
    <3> QED BY <1>4, <3>2
  <2>3. f \in Injection(S, 1..n)
    <3> HIDE DEF f
    <3> QED BY <2>1, <2>2 DEF Injection, IsInjective
  <2>4. IsFiniteSet(1..n) /\ Cardinality(1..n) = n
    BY <1>1 DEF Library, CardUpTo
  <2>5. Cardinality(S) = Cardinality(1..n)
    BY <2>4 DEF n
  <2> HIDE DEF f
  <2>6. f \in Surjection(S, 1..n)
    BY <2>3, <2>4, <2>5 DEF Library, CardInjection
  <2>7. \A k \in 1..n : \E x \in S : f[x] = k
    BY <2>6 DEF Surjection
  <2>8. \A x \in S : f[x] = C(x) + 1
    BY DEF f
  <2> SUFFICES ASSUME NEW k \in 1..n PROVE \E x \in S : C(x) = k - 1
    BY SMT
  <2>9. PICK x \in S : C(x) + 1 = k
    BY <2>7, <2>8
  <2> QED BY <1>2, <2>9, SMT
<1> QED BY <1>1, <1>4, <1>5 DEF n, C, Ranks

\* q lists S in the order of R.
InOrder(q, S, R) ==
  /\ q \in [1..Cardinality(S) -> S]
  /\ \A x \in S : \E k \in 1..Cardinality(S) : q[k] = x
  /\ \A j, k \in 1..Cardinality(S) : j < k => <<q[j], q[k]>> \in R

\* A list with each element where the number of those below it says has every
\* element once, in the order.
LEMMA Listing ==
  ASSUME Library, NEW S, IsFiniteSet(S), NEW R, StrictOrder(S, R),
         NEW q, q \in [1..Cardinality(S) -> S],
         \A k \in 1..Cardinality(S) : Cardinality(Below(S, R, q[k])) = k - 1
  PROVE  InOrder(q, S, R)
<1> USE Zenon
<1> DEFINE n == Cardinality(S)
           C(x) == Cardinality(Below(S, R, x))
<1>1. n \in Nat
  BY DEF Library, CardNat
<1>2. /\ \A x \in S : C(x) \in 0..(n - 1)
      /\ \A x, y \in S : <<x, y>> \in R => C(x) < C(y)
  BY BelowGrows
<1>4. \A x, y \in S : C(x) = C(y) => x = y
  <2>1. Ranks(S, R)
    BY Ranked
  <2> QED BY <2>1 DEF Ranks
<1>6. \A k \in 1..n : q[k] \in S /\ C(q[k]) = k - 1
  BY SMT
<1> HIDE DEF n, C
<1>8. ASSUME NEW x \in S
      PROVE  \E k \in 1..n : q[k] = x
  <2>1. C(x) + 1 \in 1..n
    BY <1>1, <1>2, SMT
  <2>2. q[C(x) + 1] \in S /\ C(q[C(x) + 1]) = (C(x) + 1) - 1
    BY <1>6, <2>1
  <2>3. (C(x) + 1) - 1 = C(x)
    BY <1>2, SMT
  <2>4. q[C(x) + 1] = x
    BY <1>4, <2>2, <2>3
  <2> QED BY <2>1, <2>4
<1>9. ASSUME NEW j \in 1..n, NEW k \in 1..n, j < k
      PROVE  <<q[j], q[k]>> \in R
  <2>1. q[j] \in S /\ q[k] \in S /\ C(q[j]) = j - 1 /\ C(q[k]) = k - 1
    BY <1>6
  <2>2. C(q[j]) < C(q[k]) /\ C(q[j]) \in Int /\ C(q[k]) \in Int
    BY <1>9, <2>1, SMT
  <2>3. ~ (C(q[k]) < C(q[j])) /\ C(q[j]) # C(q[k])
    BY <2>2, SMT
  <2> QED BY <1>2, <2>1, <2>3 DEF StrictOrder
<1> QED BY <1>8, <1>9 DEF n, InOrder

-----------------------------------------------------------------------------
(* Maxima, and the rounds of the last commits.                             *)

\* The values of a function on a finite set are finitely many.
LEMMA ValuesFinite ==
  ASSUME Library, NEW S, IsFiniteSet(S), NEW f, DOMAIN f = S
  PROVE  IsFiniteSet({f[x] : x \in S})
<1> USE Zenon
<1> DEFINE T == {f[x] : x \in S}
           g == [x \in S |-> f[x]]
<1>1. g \in Surjection(S, T)
  BY DEF Surjection
<1> HIDE DEF g, T
<1>2. IsFiniteSet(T)
  BY <1>1 DEF Library, ImageFinite
<1> QED BY <1>2 DEF T

\* A finite nonempty set of natural numbers has a greatest element, Max.
LEMMA MaxIsGreatest ==
  ASSUME Library, NEW S \in SUBSET Nat, IsFiniteSet(S), S # {}
  PROVE  Max(S) \in S /\ \A y \in S : Max(S) >= y
<1> USE Zenon
<1> DEFINE R == {p \in Nat \X Nat : p[1] < p[2]}
<1>1. \A x, y \in Nat : <<x, y>> \in R <=> x < y
  OBVIOUS
<1> HIDE DEF R
<1>2. StrictOrder(S, R)
  BY <1>1, SMT DEF StrictOrder
<1> DEFINE slot(k) == CHOOSE x \in S : Cardinality(Below(S, R, x)) = k - 1
           n == Cardinality(S)
           q == [k \in 1..n |-> slot(k)]
<1>a. n \in Nat /\ \A k \in 1..n : \E x \in S : Cardinality(Below(S, R, x)) = k - 1
  <2>1. Ranks(S, R)
    BY <1>2, Ranked
  <2> QED BY <2>1 DEF Ranks
<1>b. \A k \in 1..n : slot(k) \in S /\ Cardinality(Below(S, R, slot(k))) = k - 1
  BY <1>a
<1> HIDE DEF slot
<1>c. q \in [1..n -> S] /\ \A k \in 1..n : Cardinality(Below(S, R, q[k])) = k - 1
  BY <1>b
<1> HIDE DEF q
<1>d. InOrder(q, S, R)
  BY <1>2, <1>c, Listing
<1>3. /\ n \in Nat /\ q \in [1..n -> S]
      /\ \A x \in S : \E k \in 1..n : q[k] = x
      /\ \A j, k \in 1..n : j < k => <<q[j], q[k]>> \in R
  BY <1>a, <1>d DEF InOrder
<1> HIDE DEF n
<1>4. n \in 1..n
  <2>1. PICK x : x \in S
    OBVIOUS
  <2>2. PICK k \in 1..n : q[k] = x
    BY <1>3, <2>1
  <2> QED BY <1>3, SMT
<1>5. q[n] \in S /\ \A y \in S : q[n] >= y
  <2>1. q[n] \in S
    BY <1>3, <1>4
  <2> SUFFICES ASSUME NEW y \in S PROVE q[n] >= y
    BY <2>1
  <2>2. PICK k \in 1..n : q[k] = y
    BY <1>3
  <2>3. CASE k = n
    BY <2>1, <2>2, <2>3, SMT
  <2>4. CASE k # n
    <3>1. k < n
      BY <1>3, <2>4, SMT
    <3>2. <<q[k], q[n]>> \in R
      BY <1>3, <1>4, <3>1
    <3>3. y \in Nat /\ q[n] \in Nat
      BY <2>1
    <3>4. y < q[n]
      BY <1>1, <2>2, <3>2, <3>3
    <3> QED BY <3>3, <3>4, SMT
  <2> QED BY <2>3, <2>4
<1>6. \E x \in S : \A y \in S : x >= y
  BY <1>5
<1> QED BY <1>6 DEF Max

LastCommits == [Authorities -> Nat]

\* last_committed_round bounds the rounds of last_committed, and is one of them.
LEMMA LastRound ==
  ASSUME Library, NEW lc \in LastCommits
  PROVE  /\ last_committed_round(lc) \in Nat
         /\ \A a \in Authorities : lc[a] <= last_committed_round(lc)
         /\ last_committed_round(lc) # 0 => \E a \in Authorities : lc[a] = last_committed_round(lc)
<1> USE Zenon
<1> DEFINE T == {lc[a] : a \in Authorities}
           S == T \cup {0}
           m == last_committed_round(lc)
<1>1. lc \in [Authorities -> Nat] /\ IsFiniteSet(Authorities)
  BY BullsharkAssumption DEF LastCommits
<1>2. IsFiniteSet(T)
  BY <1>1, ValuesFinite
<1>3. T \in SUBSET Nat
  BY <1>1
<1>4. S \in SUBSET Nat /\ S # {} /\ m = Max(S)
  <2>1. S \in SUBSET Nat /\ S # {}
    BY <1>3, SMT
  <2>2. m = Max(S)
    BY DEF last_committed_round
  <2> QED BY <2>1, <2>2
<1>5. IsFiniteSet(S)
  <2> HIDE DEF T
  <2> QED BY <1>2 DEF Library, CardAdd
<1> HIDE DEF S
<1>6. m \in S /\ \A y \in S : m >= y
  BY <1>4, <1>5, MaxIsGreatest
<1> HIDE DEF m
<1>7. m \in Nat
  BY <1>4, <1>6
<1>8. ASSUME NEW a \in Authorities
      PROVE  lc[a] <= m
  <2>1. lc[a] \in S
    BY DEF S
  <2>2. m >= lc[a]
    BY <1>6, <2>1
  <2> QED BY <1>1, <1>7, <2>2
<1>9. m # 0 => \E a \in Authorities : lc[a] = m
  BY <1>6 DEF S
<1> QED BY <1>7, <1>8, <1>9 DEF m

\* update raises the last commits to the rounds of the certificates.
LEMMA UpdateRounds ==
  ASSUME Library, NEW s, s.lc \in LastCommits, NEW cs, IsFiniteSet(cs),
         \A c \in cs : Author(c) \in Authorities /\ Round(c) \in Nat
  PROVE  /\ update(s, cs).lc \in LastCommits
         /\ \A a \in Authorities :
              /\ s.lc[a] <= update(s, cs).lc[a]
              /\ \/ update(s, cs).lc[a] = s.lc[a]
                 \/ \E c \in cs : Author(c) = a /\ Round(c) = update(s, cs).lc[a]
         /\ \A c \in cs : Round(c) <= update(s, cs).lc[Author(c)]
<1> USE Zenon
<1> DEFINE of(a) == {d \in cs : Author(d) = a}
           rs(a) == {Round(c) : c \in of(a)}
           S(a) == {s.lc[a]} \cup rs(a)
           lc == update(s, cs).lc
<1>0. s.lc \in [Authorities -> Nat]
  BY DEF LastCommits
<1>1. lc = [a \in Authorities |-> Max(S(a))]
  BY DEF update
<1>2. ASSUME NEW a \in Authorities
      PROVE  /\ lc[a] \in S(a) /\ lc[a] \in Nat /\ \A y \in S(a) : y <= lc[a]
  <2>1. S(a) \in SUBSET Nat /\ S(a) # {}
    BY <1>0
  <2>2. IsFiniteSet(of(a))
    BY DEF Library, CardSubset
  <2>3. IsFiniteSet(rs(a))
    <3> DEFINE f == [c \in of(a) |-> Round(c)]
    <3>1. DOMAIN f = of(a) /\ {f[x] : x \in of(a)} = rs(a)
      OBVIOUS
    <3> HIDE DEF of, rs, f
    <3>2. IsFiniteSet({f[x] : x \in of(a)})
      BY <2>2, <3>1, ValuesFinite
    <3> QED BY <3>1, <3>2
  <2>4. S(a) = rs(a) \cup {s.lc[a]}
    BY SMT
  <2>5. IsFiniteSet(S(a))
    <3> HIDE DEF rs, S
    <3> QED BY <2>3, <2>4 DEF Library, CardAdd
  <2>6. lc[a] = Max(S(a))
    BY <1>1
  <2> HIDE DEF S, lc
  <2>7. lc[a] \in S(a) /\ \A y \in S(a) : lc[a] >= y
    BY <2>1, <2>5, <2>6, MaxIsGreatest
  <2>8. lc[a] \in Nat /\ \A y \in S(a) : y \in Nat
    BY <2>1, <2>7
  <2> QED BY <2>7, <2>8
<1>3. lc \in LastCommits
  <2>1. \A a \in Authorities : Max(S(a)) = lc[a] /\ lc[a] \in Nat
    BY <1>1, <1>2
  <2>2. lc = [a \in Authorities |-> lc[a]]
    BY <1>1
  <2> HIDE DEF lc
  <2> QED BY <2>1, <2>2 DEF LastCommits
<1> HIDE DEF lc
<1>4. ASSUME NEW a \in Authorities
      PROVE  /\ s.lc[a] <= lc[a]
             /\ lc[a] = s.lc[a] \/ \E c \in cs : Author(c) = a /\ Round(c) = lc[a]
  BY <1>2
<1>5. ASSUME NEW c \in cs
      PROVE  Round(c) <= lc[Author(c)]
  <2>1. Author(c) \in Authorities /\ Round(c) \in S(Author(c))
    BY SMT
  <2> HIDE DEF S
  <2> QED BY <1>2, <2>1
<1> QED BY <1>3, <1>4, <1>5 DEF lc

-----------------------------------------------------------------------------
(* The recursive functions of the ordering.                                *)

Paths(r, s, c, n) ==
  /\ r[0] = {c}
  /\ \A k \in 1..n :
       r[k] = {x \in Layer(s, Round(c) - k) : \E y \in r[k - 1] : x \in s.parents[y]}

\* Reached goes down one round at a time.
LEMMA ReachedSteps ==
  ASSUME Library, NEW s, NEW c, NEW n \in Nat
  PROVE  Paths(Reached(s, c, n), s, c, n)
<1> USE Zenon
<1> DEFINE step(k, X) == {x \in Layer(s, Round(c) - k) : \E y \in X : x \in s.parents[y]}
           V == SUBSET (s.dag \cup {c})
           F == [k \in Nat |-> [X \in V |-> step(k, X)]]
           Is(f) == f = [k \in 0..n |-> IF k = 0 THEN {c} ELSE step(k, f[k - 1])]
<1>1. {c} \in V
  BY SMT
<1>2. F \in [Nat -> [V -> V]]
  <2>1. \A k \in Nat, X \in V : step(k, X) \in V
    BY DEF Layer
  <2> HIDE DEF V, step
  <2> QED BY <2>1
<1> HIDE DEF V, F
<1>0. PICK f : RunsUpTo(f, V, {c}, F, n)
  BY <1>1, <1>2, RecursionUpTo
<1>3. /\ f = [k \in 0..n |-> IF k = 0 THEN {c} ELSE F[k][f[k - 1]]]
      /\ f \in [0..n -> V]
  BY <1>0 DEF RunsUpTo
<1>4. Is(f)
  <2>1. ASSUME NEW k \in 0..n, k # 0
        PROVE  F[k][f[k - 1]] = step(k, f[k - 1])
    <3>1. k \in Nat /\ k - 1 \in 0..n
      BY <2>1, SMT
    <3>2. f[k - 1] \in V
      BY <1>3, <3>1
    <3> HIDE DEF step
    <3> QED BY <3>1, <3>2 DEF F
  <2> HIDE DEF step
  <2> QED BY <1>3, <2>1
<1>5. Reached(s, c, n) = CHOOSE g : Is(g)
  BY DEF Reached
<1> HIDE DEF Is
<1>6. Is(Reached(s, c, n))
  BY <1>4, <1>5
<1> DEFINE r == Reached(s, c, n)
<1>7. r = [k \in 0..n |-> IF k = 0 THEN {c} ELSE step(k, r[k - 1])]
  BY <1>6 DEF Is
<1> HIDE DEF r
<1>8. r[0] = {c}
  BY <1>7, SMT
<1>9. ASSUME NEW k \in 1..n
      PROVE  r[k] = step(k, r[k - 1])
  <2>1. k \in 0..n /\ k # 0
    BY SMT
  <2> HIDE DEF step
  <2> QED BY <1>7, <2>1
<1> QED BY <1>8, <1>9 DEF r, Paths

-----------------------------------------------------------------------------
(* The certified DAG.                                                      *)

\* A certificate has an author and a round, its parents are of the round before.
LEMMA DagFacts ==
  ASSUME NEW P \in Dags, NEW c \in DOMAIN P
  PROVE  /\ c = <<Author(c), Round(c)>> /\ Author(c) \in Authorities
         /\ Round(c) \in Nat /\ Round(c) > 0
         /\ \A p \in P[c] : p \in DOMAIN P /\ Round(p) + 1 = Round(c)
         /\ Round(c) > 1 => IsQuorum({Author(p) : p \in P[c]})
<1>1. /\ c \in Authorities \X (Nat \ {0})
      /\ IF Round(c) = 1 THEN P[c] = {}
         ELSE /\ P[c] \subseteq {p \in DOMAIN P : Round(p) + 1 = Round(c)}
              /\ IsQuorum({Author(p) : p \in P[c]})
  BY DagsAssumption, Zenon
<1>2. c = <<Author(c), Round(c)>> /\ Author(c) \in Authorities /\ Round(c) \in Nat /\ Round(c) # 0
  BY <1>1 DEF Author, Round
<1>3. Round(c) > 0
  BY <1>2
<1>4. \A p \in P[c] : p \in DOMAIN P /\ Round(p) + 1 = Round(c)
  BY <1>1, Zenon
<1>5. Round(c) > 1 => Round(c) # 1
  BY <1>2
<1> QED BY <1>1, <1>2, <1>3, <1>4, <1>5, Zenon

\* Two certificates of one author and round are the same.
LEMMA OneCertificate ==
  ASSUME NEW P \in Dags, NEW c \in DOMAIN P, NEW d \in DOMAIN P,
         Author(c) = Author(d), Round(c) = Round(d)
  PROVE  c = d
<1> USE Zenon
<1>1. c = <<Author(c), Round(c)>> /\ d = <<Author(d), Round(d)>>
  BY DagFacts
<1> QED BY <1>1

\* A certificate above round 1 has a parent.
LEMMA HasParent ==
  ASSUME NEW P \in Dags, NEW c \in DOMAIN P, Round(c) > 1
  PROVE  P[c] # {}
<1> SUFFICES ASSUME P[c] = {} PROVE FALSE
  OBVIOUS
<1>1. IsQuorum({Author(p) : p \in P[c]})
  BY DagFacts, Zenon
<1>2. {Author(p) : p \in P[c]} = {}
  OBVIOUS
<1>3. StakeOf({}) >= quorum_threshold
  BY <1>1, <1>2, Zenon DEF IsQuorum
<1>4. StakeOf(Authorities) \in Nat
  BY StakeOfAssumption, Zenon
<1> QED BY <1>3, <1>4, TotalAssumption DEF quorum_threshold, total_votes

\* A quorum and f + 1 have an authority in common.
LEMMA QuorumMeetsValidity ==
  ASSUME NEW S \in SUBSET Authorities, NEW T \in SUBSET Authorities, IsQuorum(S), IsValidity(T)
  PROVE  \E a \in Authorities : a \in S /\ a \in T
<1> USE Zenon
<1> SUFFICES ASSUME S \cap T = {} PROVE FALSE
  OBVIOUS
<1>1. S \cup T \in SUBSET Authorities /\ Authorities \in SUBSET Authorities
  BY SMT
<1>2. /\ StakeOf(S) \in Nat /\ StakeOf(T) \in Nat /\ StakeOf(Authorities) \in Nat
      /\ StakeOf(S \cup T) \in Nat
  BY <1>1, StakeOfAssumption
<1>3. StakeOf(S \cup T) <= StakeOf(Authorities)
  BY <1>1, StakeOfAssumption
<1>4. StakeOf(S \cup T) + StakeOf({}) = StakeOf(S) + StakeOf(T)
  BY StakeOfAssumption
<1>5. StakeOf(S) >= quorum_threshold /\ StakeOf(T) >= validity_threshold
  BY DEF IsQuorum, IsValidity
<1> QED BY <1>2, <1>3, <1>4, <1>5, TotalAssumption, SMT
        DEF quorum_threshold, validity_threshold, total_votes

\* More supporters are enough when fewer are.
LEMMA ValidityGrows ==
  ASSUME NEW S \in SUBSET Authorities, NEW T \in SUBSET Authorities, S \subseteq T, IsValidity(S)
  PROVE  IsValidity(T)
<1>1. StakeOf(S) <= StakeOf(T) /\ StakeOf(S) \in Nat /\ StakeOf(T) \in Nat /\ StakeOf(Authorities) \in Nat
  BY StakeOfAssumption, Zenon
<1>2. StakeOf(S) >= validity_threshold
  BY Zenon DEF IsValidity
<1>3. validity_threshold \in Nat
  BY <1>1 DEF validity_threshold, total_votes
<1>4. StakeOf(T) >= validity_threshold
  BY <1>1, <1>2, <1>3
<1> QED BY <1>4, Zenon DEF IsValidity

-----------------------------------------------------------------------------
(* Sequences without repetition.                                           *)

Distinct(q) == \A i, j \in DOMAIN q : q[i] = q[j] => i = j

HeadAndTail(S, q) ==
  /\ Head(q) \in S /\ Tail(q) \in Seq(S) /\ Len(Tail(q)) = Len(q) - 1
  /\ \A i \in 1..(Len(q) - 1) : Tail(q)[i] = q[i + 1]
  /\ Range(q) = {Head(q)} \cup Range(Tail(q))
  /\ Distinct(q) => Distinct(Tail(q)) /\ Head(q) \notin Range(Tail(q))

\* The head and the tail of a sequence.
LEMMA TailFacts ==
  ASSUME NEW S, NEW q \in Seq(S), q # <<>>
  PROVE  HeadAndTail(S, q)
<1> DEFINE n == Len(q)
           t == Tail(q)
<1>1. /\ n \in Nat /\ n >= 1 /\ DOMAIN q = 1..n /\ Head(q) = q[1] /\ q[1] \in S
      /\ t \in Seq(S) /\ Len(t) = n - 1 /\ DOMAIN t = 1..(n - 1)
  OBVIOUS
<1>2. \A i \in 1..(n - 1) : t[i] = q[i + 1]
  OBVIOUS
<1> HIDE DEF n, t
<1>3. Range(q) = {q[1]} \cup Range(t)
  <2>1. ASSUME NEW i \in 1..n
        PROVE  q[i] \in {q[1]} \cup Range(t)
    <3>1. CASE i = 1
      BY <3>1, Zenon
    <3>2. CASE i # 1
      <4>1. i - 1 \in 1..(n - 1) /\ (i - 1) + 1 = i
        BY <1>1, <3>2
      <4>2. t[i - 1] = q[i]
        BY <1>2, <4>1, Zenon
      <4> QED BY <1>1, <4>1, <4>2, Zenon DEF Range
    <3> QED BY <3>1, <3>2, Zenon
  <2>2. ASSUME NEW i \in 1..(n - 1)
        PROVE  t[i] \in Range(q)
    <3>1. i + 1 \in 1..n
      BY <1>1
    <3> QED BY <1>1, <1>2, <3>1, Zenon DEF Range
  <2>3. q[1] \in Range(q)
    BY <1>1 DEF Range
  <2> QED BY <1>1, <2>1, <2>2, <2>3, Zenon DEF Range
<1>4. ASSUME Distinct(q)
      PROVE  Distinct(t) /\ q[1] \notin Range(t)
  <2>1. ASSUME NEW i \in 1..(n - 1), NEW j \in 1..(n - 1), t[i] = t[j]
        PROVE  i = j
    <3>1. i + 1 \in 1..n /\ j + 1 \in 1..n /\ q[i + 1] = q[j + 1]
      BY <1>1, <1>2, <2>1
    <3>2. i + 1 = j + 1
      BY <1>1, <1>4, <3>1, Zenon DEF Distinct
    <3> QED BY <3>2
  <2>2. ASSUME NEW i \in 1..(n - 1), t[i] = q[1]
        PROVE  FALSE
    <3>1. i + 1 \in 1..n /\ q[i + 1] = q[1] /\ 1 \in 1..n
      BY <1>1, <1>2, <2>2
    <3>2. i + 1 = 1
      BY <1>1, <1>4, <3>1, Zenon DEF Distinct
    <3> QED BY <3>2
  <2> QED BY <1>1, <2>1, <2>2, Zenon DEF Distinct, Range
<1> QED BY <1>1, <1>2, <1>3, <1>4, Zenon DEF n, t, HeadAndTail

Concatenation(S, q, r) ==
  /\ q \o r \in Seq(S) /\ Len(q \o r) = Len(q) + Len(r)
  /\ \A i \in 1..Len(q) : (q \o r)[i] = q[i]
  /\ \A i \in 1..Len(r) : (q \o r)[Len(q) + i] = r[i]
  /\ Range(q \o r) = Range(q) \cup Range(r)
  /\ Distinct(q) /\ Distinct(r) /\ Range(q) \cap Range(r) = {} => Distinct(q \o r)

\* A sequence followed by another.
LEMMA ConcatFacts ==
  ASSUME NEW S, NEW q \in Seq(S), NEW r \in Seq(S)
  PROVE  Concatenation(S, q, r)
<1> USE Zenon
<1> DEFINE m == Len(q)
           n == Len(r)
           u == q \o r
<1>1. /\ m \in Nat /\ n \in Nat /\ u \in Seq(S) /\ Len(u) = m + n
      /\ DOMAIN q = 1..m /\ DOMAIN r = 1..n /\ DOMAIN u = 1..(m + n)
  BY SMT
<1>2. \A i \in 1..(m + n) : u[i] = IF i <= m THEN q[i] ELSE r[i - m]
  BY SMT
<1> HIDE DEF m, n, u
<1>3. \A i \in 1..m : i \in 1..(m + n) /\ u[i] = q[i]
  BY <1>1, <1>2, SMT
<1>4. \A i \in 1..n : m + i \in 1..(m + n) /\ u[m + i] = r[i]
  <2> SUFFICES ASSUME NEW i \in 1..n PROVE m + i \in 1..(m + n) /\ u[m + i] = r[i]
    BY SMT
  <2>1. m + i \in 1..(m + n) /\ ~ (m + i <= m) /\ (m + i) - m = i
    BY <1>1, SMT
  <2> QED BY <1>2, <2>1
<1>5. \A i \in 1..(m + n) : (i \in 1..m /\ u[i] = q[i]) \/ (i - m \in 1..n /\ u[i] = r[i - m] /\ i > m)
  BY <1>1, <1>2, SMT
<1>6. Range(u) = Range(q) \cup Range(r)
  <2>1. \A x \in Range(u) : x \in Range(q) \cup Range(r)
    BY <1>1, <1>5 DEF Range
  <2>2. \A x \in Range(q) \cup Range(r) : x \in Range(u)
    BY <1>1, <1>3, <1>4 DEF Range
  <2> QED BY <2>1, <2>2
<1>7. ASSUME Distinct(q), Distinct(r), Range(q) \cap Range(r) = {},
             NEW i \in 1..(m + n), NEW j \in 1..(m + n), u[i] = u[j]
      PROVE  i = j
  <2>1. CASE i \in 1..m /\ j \in 1..m
    BY <1>1, <1>3, <1>7, <2>1 DEF Distinct
  <2>2. CASE i - m \in 1..n /\ i > m /\ j - m \in 1..n /\ j > m
    <3>1. u[i] = r[i - m] /\ u[j] = r[j - m]
      BY <1>1, <1>2, <2>2, SMT
    <3>2. i - m = j - m
      BY <1>1, <1>7, <2>2, <3>1 DEF Distinct
    <3> QED BY <1>1, <3>2, SMT
  <2>3. ASSUME NEW k \in 1..m, NEW l \in 1..n, q[k] = r[l]
        PROVE  FALSE
    <3>1. q[k] \in Range(q) /\ r[l] \in Range(r)
      BY <1>1 DEF Range
    <3> QED BY <1>7, <2>3, <3>1
  <2> QED BY <1>5, <1>7, <2>1, <2>2, <2>3
<1>8. Distinct(q) /\ Distinct(r) /\ Range(q) \cap Range(r) = {} => Distinct(u)
  BY <1>1, <1>7 DEF Distinct
<1> QED BY <1>1, <1>3, <1>4, <1>6, <1>8 DEF m, n, u, Concatenation

\* The empty sequence.
LEMMA EmptySeq ==
  ASSUME NEW S
  PROVE  <<>> \in Seq(S) /\ Len(<<>>) = 0
OBVIOUS

Prepended(S, x, q) ==
  /\ <<x>> \in Seq(S) /\ Len(<<x>>) = 1 /\ <<x>>[1] = x
  /\ <<x>> \o q \in Seq(S) /\ Len(<<x>> \o q) = Len(q) + 1 /\ <<x>> \o q # <<>>
  /\ (<<x>> \o q)[1] = x
  /\ \A i \in 1..(Len(q) + 1) : i # 1 => (<<x>> \o q)[i] = q[i - 1]

\* A sequence of one element, and one more in front of a sequence.
LEMMA PrependFacts ==
  ASSUME NEW S, NEW x \in S, NEW q \in Seq(S)
  PROVE  Prepended(S, x, q)
<1>1. <<x>> \in Seq(S) /\ Len(<<x>>) = 1 /\ <<x>>[1] = x
  OBVIOUS
<1>2. Len(q) \in Nat
  OBVIOUS
<1> DEFINE o == <<x>>
<1>3. o \in Seq(S) /\ Len(o) = 1 /\ o[1] = x
  BY <1>1, Zenon
<1> HIDE DEF o
<1>4. /\ o \o q \in Seq(S) /\ Len(o \o q) = Len(o) + Len(q)
      /\ \A i \in 1..Len(o) : (o \o q)[i] = o[i]
      /\ \A i \in 1..Len(q) : (o \o q)[Len(o) + i] = q[i]
  <2>1. Concatenation(S, o, q)
    BY <1>3, ConcatFacts, Zenon
  <2> QED BY <2>1, Zenon DEF Concatenation
<1> DEFINE u == o \o q
<1>5. ASSUME NEW i \in 1..(Len(q) + 1), i # 1
      PROVE  u[i] = q[i - 1]
  <2>1. i - 1 \in 1..Len(q) /\ Len(o) + (i - 1) = i
    BY <1>2, <1>3, <1>5
  <2>2. u[Len(o) + (i - 1)] = q[i - 1]
    BY <1>4, <2>1, Zenon
  <2> HIDE DEF u
  <2> QED BY <2>1, <2>2, Zenon
<1>7. u \in Seq(S) /\ Len(u) = Len(q) + 1 /\ u[1] = x
  <2> HIDE DEF u
  <2> QED BY <1>2, <1>3, <1>4 DEF u
<1>6. u # <<>>
  <2> HIDE DEF u
  <2> QED BY <1>2, <1>7
<1> QED BY <1>1, <1>5, <1>6, <1>7, Zenon DEF o, Prepended

Appended(S, q, x) ==
  /\ Append(q, x) \in Seq(S) /\ Len(Append(q, x)) = Len(q) + 1
  /\ \A i \in 1..Len(q) : Append(q, x)[i] = q[i]
  /\ Append(q, x)[Len(q) + 1] = x
  /\ Range(Append(q, x)) = Range(q) \cup {x}
  /\ Distinct(q) /\ x \notin Range(q) => Distinct(Append(q, x))

\* A sequence with one more element at the end.
LEMMA AppendFacts ==
  ASSUME NEW S, NEW q \in Seq(S), NEW x \in S
  PROVE  Appended(S, q, x)
<1> USE Zenon
<1> DEFINE a == Append(q, x)
           n == Len(q)
<1>1. /\ n \in Nat /\ DOMAIN q = 1..n /\ a \in Seq(S) /\ Len(a) = n + 1 /\ DOMAIN a = 1..(n + 1)
      /\ a[n + 1] = x
  BY SMT
<1>2. \A i \in 1..n : a[i] = q[i] /\ i \in 1..(n + 1)
  BY SMT
<1>3. \A i \in 1..(n + 1) : i \in 1..n \/ i = n + 1
  BY <1>1, SMT
<1>4. n + 1 \in 1..(n + 1)
  BY <1>1, SMT
<1> HIDE DEF a, n
<1>5. Range(a) = Range(q) \cup {x}
  <2>1. \A y \in Range(a) : y \in Range(q) \cup {x}
    BY <1>1, <1>2, <1>3 DEF Range
  <2>2. \A y \in Range(q) \cup {x} : y \in Range(a)
    BY <1>1, <1>2, <1>4 DEF Range
  <2> QED BY <2>1, <2>2
<1>6. ASSUME Distinct(q), x \notin Range(q)
      PROVE  Distinct(a)
  <2>1. \A i \in 1..n : a[i] # x
    BY <1>1, <1>2, <1>6 DEF Range
  <2>2. \A i, j \in 1..n : a[i] = a[j] => i = j
    BY <1>1, <1>2, <1>6 DEF Distinct
  <2> QED BY <1>1, <1>3, <2>1, <2>2 DEF Distinct
<1> QED BY <1>1, <1>2, <1>5, <1>6 DEF a, n, Appended

-----------------------------------------------------------------------------
(* Paths of the DAG.                                                       *)

Whole(P) == [dag |-> DOMAIN P, parents |-> P]

\* The parts of the state that has every certificate.
LEMMA WholeFacts ==
  ASSUME NEW P
  PROVE  Whole(P).dag = DOMAIN P /\ Whole(P).parents = P
BY Zenon DEF Whole

\* What a certificate reaches has the round that the distance says.
LEMMA ReachedIn ==
  ASSUME Library, NEW s, NEW c, c \in s.dag, NEW n \in Nat, Round(c) \in Int
  PROVE  \A k \in 0..n : \A x \in Reached(s, c, n)[k] : x \in s.dag /\ Round(x) = Round(c) - k
<1> USE Zenon
<1> SUFFICES ASSUME NEW k \in 0..n, NEW x \in Reached(s, c, n)[k]
             PROVE  x \in s.dag /\ Round(x) = Round(c) - k
  OBVIOUS
<1>0. Paths(Reached(s, c, n), s, c, n)
  BY ReachedSteps
<1>1. CASE k = 0
  <2>1. x = c
    BY <1>0, <1>1 DEF Paths
  <2> QED BY <1>1, <2>1, SMT
<1>2. CASE k # 0
  <2>1. k \in 1..n
    BY <1>2, SMT
  <2>2. x \in Layer(s, Round(c) - k)
    BY <1>0, <2>1 DEF Paths
  <2> QED BY <2>2 DEF Layer
<1> QED BY <1>1, <1>2

\* Where a dag has every parent above a round, its paths above that round are
\* those of the whole DAG.
LEMMA SamePaths ==
  ASSUME Library,
         NEW P \in Dags, NEW s, s.parents = P, s.dag \subseteq DOMAIN P, NEW b \in Nat,
         \A y \in s.dag : \A p \in P[y] : p \in s.dag \/ Round(p) <= b,
         NEW c \in s.dag, NEW n \in Nat, Round(c) - n > b
  PROVE  \A k \in 0..n : Reached(s, c, n)[k] = Reached(Whole(P), c, n)[k]
<1> USE Zenon
<1> DEFINE r == Reached(s, c, n)
           w == Reached(Whole(P), c, n)
           T == {k \in Nat : k <= n => r[k] = w[k]}
<1>0. Round(c) \in Nat /\ Whole(P).dag = DOMAIN P /\ Whole(P).parents = P /\ c \in Whole(P).dag
  BY DagFacts, WholeFacts
<1>p. Paths(r, s, c, n) /\ Paths(w, Whole(P), c, n)
  BY ReachedSteps
<1>3. ASSUME NEW k \in 0..n, NEW x \in r[k]
      PROVE  x \in s.dag
  <2>1. Round(c) \in Int
    BY <1>0, SMT
  <2> QED BY <2>1, ReachedIn
<1> HIDE DEF r, w
<1>1. r[0] = {c} /\ w[0] = {c}
  BY <1>p DEF Paths
<1>2. \A k \in 1..n : /\ r[k] = {x \in Layer(s, Round(c) - k) : \E y \in r[k - 1] : x \in P[y]}
                      /\ w[k] = {x \in Layer(Whole(P), Round(c) - k) : \E y \in w[k - 1] : x \in P[y]}
  BY <1>0, <1>p DEF Paths
<1>4. ASSUME NEW k \in Nat, k \in T
      PROVE  k + 1 \in T
  <2> SUFFICES ASSUME k + 1 <= n PROVE r[k + 1] = w[k + 1]
    BY SMT
  <2>1. k \in 0..n /\ k + 1 \in 1..n /\ (k + 1) - 1 = k /\ r[k] = w[k]
    BY <1>4, SMT
  <2>2. /\ r[k + 1] = {x \in Layer(s, Round(c) - (k + 1)) : \E y \in r[k] : x \in P[y]}
        /\ w[k + 1] = {x \in Layer(Whole(P), Round(c) - (k + 1)) : \E y \in r[k] : x \in P[y]}
    BY <1>2, <2>1
  <2>3. ASSUME NEW x \in r[k + 1]
        PROVE  x \in w[k + 1]
    BY <1>0, <2>2, <2>3 DEF Layer
  <2>4. ASSUME NEW x \in w[k + 1]
        PROVE  x \in r[k + 1]
    <3>1. Round(x) = Round(c) - (k + 1) /\ x \in DOMAIN P
      BY <1>0, <2>2, <2>4 DEF Layer
    <3>2. PICK y \in r[k] : x \in P[y]
      BY <2>2, <2>4
    <3>3. y \in s.dag
      BY <1>3, <2>1
    <3>4. ~ (Round(x) <= b)
      BY <1>0, <2>1, <3>1, SMT
    <3>5. x \in s.dag
      BY <3>2, <3>3, <3>4
    <3> QED BY <2>2, <3>1, <3>2, <3>5 DEF Layer
  <2> QED BY <2>3, <2>4
<1>5. 0 \in T
  BY <1>1
<1>6. Nat \subseteq T
  <2> HIDE DEF T
  <2> QED BY <1>4, <1>5, SetInduction
<1>7. \A k \in 0..n : r[k] = w[k]
  BY <1>6, SMT
<1> QED BY <1>7 DEF r, w

\* A path goes down to round 1.
LEMMA PathsGoDown ==
  ASSUME Library, NEW P \in Dags, NEW c \in DOMAIN P, NEW n \in Nat, n < Round(c)
  PROVE  \A k \in 0..n : Reached(Whole(P), c, n)[k] # {}
<1> USE Zenon
<1> DEFINE w == Reached(Whole(P), c, n)
           T == {k \in Nat : k <= n => w[k] # {}}
<1>0. Round(c) \in Nat /\ Whole(P).dag = DOMAIN P /\ Whole(P).parents = P /\ c \in Whole(P).dag
  BY DagFacts, WholeFacts
<1>p. Paths(w, Whole(P), c, n)
  BY ReachedSteps
<1>3. ASSUME NEW k \in 0..n, NEW x \in w[k]
      PROVE  x \in DOMAIN P /\ Round(x) = Round(c) - k
  <2>1. Round(c) \in Int /\ c \in Whole(P).dag
    BY <1>0, SMT
  <2>2. x \in Whole(P).dag /\ Round(x) = Round(c) - k
    BY <2>1, ReachedIn, SMT
  <2> QED BY <1>0, <2>2
<1> HIDE DEF w
<1>1. w[0] = {c}
  BY <1>p DEF Paths
<1>2. \A k \in 1..n : w[k] =
          {x \in Layer(Whole(P), Round(c) - k) : \E y \in w[k - 1] : x \in Whole(P).parents[y]}
  BY <1>p DEF Paths
<1>4. ASSUME NEW k \in Nat, k \in T
      PROVE  k + 1 \in T
  <2> SUFFICES ASSUME k + 1 <= n PROVE w[k + 1] # {}
    BY SMT
  <2>1. k \in 0..n /\ k + 1 \in 1..n /\ (k + 1) - 1 = k /\ w[k] # {}
    BY <1>4, SMT
  <2>2. PICK y : y \in w[k]
    BY <2>1
  <2>3. y \in DOMAIN P /\ Round(y) = Round(c) - k
    BY <1>3, <2>1, <2>2
  <2>4. Round(y) > 1
    BY <1>0, <2>1, <2>3, SMT
  <2>5. PICK p : p \in P[y]
    BY <2>3, <2>4, HasParent
  <2>6. p \in DOMAIN P /\ Round(p) + 1 = Round(y) /\ Round(p) \in Nat
    BY <2>3, <2>5, DagFacts
  <2>7. p \in Layer(Whole(P), Round(c) - (k + 1))
    BY <1>0, <2>1, <2>3, <2>6, SMT DEF Layer
  <2>8. p \in w[k + 1]
    BY <1>0, <1>2, <2>1, <2>2, <2>5, <2>7
  <2> QED BY <2>8
<1>5. 0 \in T
  BY <1>1
<1>6. Nat \subseteq T
  <2> HIDE DEF T
  <2> QED BY <1>4, <1>5, SetInduction
<1>7. \A k \in 0..n : w[k] # {}
  BY <1>6, SMT
<1> QED BY <1>7 DEF w

\* A leader that f + 1 of the next round refer to is reached by everything two
\* rounds above it or higher.
LEMMA SupportedIsReached ==
  ASSUME Library, NEW P \in Dags, NEW l \in DOMAIN P, IsValidity(Support(Whole(P), l)),
         NEW c \in DOMAIN P, Round(c) >= Round(l) + 2
  PROVE  linked(Whole(P), c, l)
<1> USE Zenon
<1> DEFINE n == Round(c) - Round(l)
           w == Reached(Whole(P), c, n)
           S == Support(Whole(P), l)
<1>0. /\ Round(c) \in Nat /\ Round(l) \in Nat /\ Round(l) > 0
      /\ Whole(P).dag = DOMAIN P /\ Whole(P).parents = P /\ c \in Whole(P).dag
  BY DagFacts, WholeFacts
<1>n. n \in Nat /\ n < Round(c) /\ n - 2 \in 0..n /\ n - 1 \in 1..n /\ n \in 1..n
  BY <1>0, SMT
<1>1. PICK y : y \in w[n - 2]
  <2> HIDE DEF n
  <2>1. w[n - 2] # {}
    BY <1>n, PathsGoDown
  <2> QED BY <2>1
<1>2. \A k \in 1..n : w[k] =
          {x \in Layer(Whole(P), Round(c) - k) : \E z \in w[k - 1] : x \in Whole(P).parents[z]}
  <2> HIDE DEF n
  <2>1. Paths(w, Whole(P), c, n)
    BY <1>n, ReachedSteps
  <2> QED BY <2>1 DEF Paths
<1>3. y \in DOMAIN P /\ Round(y) = Round(c) - (n - 2)
  <2>1. Round(c) \in Int /\ c \in Whole(P).dag
    BY <1>0, SMT
  <2> HIDE DEF n
  <2>2. y \in Whole(P).dag /\ Round(y) = Round(c) - (n - 2)
    BY <1>n, <1>1, <2>1, ReachedIn, SMT
  <2> QED BY <1>0, <2>2
<1>4. Round(y) = Round(l) + 2
  BY <1>0, <1>3, SMT
<1>5. /\ IsQuorum({Author(p) : p \in P[y]})
      /\ \A p \in P[y] : p \in DOMAIN P /\ Author(p) \in Authorities /\ Round(p) = Round(l) + 1
  <2>1. Round(y) > 1
    BY <1>0, <1>4, SMT
  <2>2. /\ IsQuorum({Author(p) : p \in P[y]})
        /\ \A p \in P[y] : p \in DOMAIN P /\ Round(p) + 1 = Round(y)
    BY <1>3, <2>1, DagFacts
  <2>3. \A p \in P[y] : Author(p) \in Authorities /\ Round(p) \in Nat
    BY <2>2, DagFacts
  <2> QED BY <1>0, <1>4, <2>2, <2>3, SMT
<1>6. S \in SUBSET Authorities /\ {Author(p) : p \in P[y]} \in SUBSET Authorities
  <2>1. \A x \in DOMAIN P : Author(x) \in Authorities
    BY DagFacts
  <2> QED BY <1>0, <1>5, <2>1 DEF Support, Layer
<1>7. PICK a \in Authorities : a \in {Author(p) : p \in P[y]} /\ a \in S
  <2> HIDE DEF S
  <2> QED BY <1>5, <1>6, QuorumMeetsValidity DEF S
<1>8. PICK p \in P[y] : Author(p) = a
  BY <1>7
<1>9. PICK x \in DOMAIN P : Author(x) = a /\ Round(x) = Round(l) + 1 /\ l \in P[x]
  BY <1>0, <1>7 DEF Support, Layer
<1>10. x = p
  BY <1>5, <1>8, <1>9, OneCertificate
<1>11. x \in w[n - 1]
  <2>1. Round(c) - (n - 1) = Round(x) /\ (n - 1) - 1 = n - 2
    BY <1>0, <1>9, SMT
  <2> HIDE DEF n, w
  <2> QED BY <1>0, <1>n, <1>1, <1>2, <1>8, <1>10, <2>1 DEF Layer
<1>12. l \in w[n]
  <2>1. Round(c) - n = Round(l)
    BY <1>0, SMT
  <2> HIDE DEF n, w
  <2> QED BY <1>0, <1>n, <1>2, <1>9, <1>11, <2>1 DEF Layer
<1> QED BY <1>12 DEF linked

-----------------------------------------------------------------------------
(* The leaders of a commit.                                                *)

Turn(s, X, prev) == IF prev \in s.dag /\ linked(s, Head(X), prev) THEN <<prev>> \o X ELSE X

ChainRuns(ch, s, c, n) ==
  ch[0] = <<c>> /\ \A k \in 1..n : ch[k] = Turn(s, ch[k - 1], leader(Round(c) - 2 * k))

\* Chain is the loop of order_leaders, turn by turn.
LEMMA ChainSteps ==
  ASSUME Library, NEW s, NEW c, c \in s.dag, EarlierRounds(s, c) \in Nat
  PROVE  ChainRuns(Chain(s, c), s, c, EarlierRounds(s, c))
<1> USE Zenon
<1> DEFINE n == EarlierRounds(s, c)
           step(k, X) == Turn(s, X, leader(Round(c) - 2 * k))
           V == Seq(s.dag)
           F == [k \in Nat |-> [X \in V |-> step(k, X)]]
           Is(f) == f = [k \in 0..n |-> IF k = 0 THEN <<c>> ELSE step(k, f[k - 1])]
           r == Chain(s, c)
<1>1. <<c>> \in V
  BY PrependFacts, EmptySeq DEF Prepended
<1>2. F \in [Nat -> [V -> V]]
  <2>1. \A k \in Nat, X \in V : step(k, X) \in V
    BY PrependFacts DEF Turn, Prepended
  <2> HIDE DEF V, step
  <2> QED BY <2>1
<1>5. r = CHOOSE g : Is(g)
  BY DEF Chain, Turn
<1> HIDE DEF V, F, n, r
<1>n. n \in Nat
  BY DEF n
<1>0. PICK f : RunsUpTo(f, V, <<c>>, F, n)
  BY <1>1, <1>2, <1>n, RecursionUpTo
<1>3. /\ f = [k \in 0..n |-> IF k = 0 THEN <<c>> ELSE F[k][f[k - 1]]]
      /\ f \in [0..n -> V]
  BY <1>0 DEF RunsUpTo
<1>4. Is(f)
  <2>1. ASSUME NEW k \in 0..n, k # 0
        PROVE  F[k][f[k - 1]] = step(k, f[k - 1])
    <3>1. k \in Nat /\ k - 1 \in 0..n
      BY <1>n, <2>1, SMT
    <3>2. f[k - 1] \in V
      BY <1>3, <3>1
    <3> HIDE DEF step
    <3> QED BY <3>1, <3>2 DEF F
  <2> HIDE DEF step
  <2> QED BY <1>3, <2>1
<1> HIDE DEF Is
<1>6. Is(r)
  BY <1>4, <1>5
<1>7. r = [k \in 0..n |-> IF k = 0 THEN <<c>> ELSE step(k, r[k - 1])]
  BY <1>6 DEF Is
<1>8. r[0] = <<c>>
  BY <1>7, <1>n, SMT
<1>9. ASSUME NEW k \in 1..n
      PROVE  r[k] = step(k, r[k - 1])
  <2>1. k \in 0..n /\ k # 0
    BY <1>n, SMT
  <2> HIDE DEF step
  <2> QED BY <1>7, <2>1
<1> QED BY <1>8, <1>9 DEF r, n, ChainRuns

Electable(m) == Round(m) % 2 = 0 /\ m = leader(Round(m))

\* L leads to c from leaders of round r and above: each is the latest leader
\* that the next one reaches.
ChainFrom(s, c, L, r) ==
  /\ L \in Seq(s.dag) /\ L # <<>> /\ L[Len(L)] = c
  /\ \A i \in DOMAIN L : Electable(L[i]) /\ Round(L[i]) >= r
  /\ \A i, j \in DOMAIN L : i < j => Round(L[i]) < Round(L[j])
  /\ \A i \in DOMAIN L : i > 1 => linked(s, L[i], L[i - 1])
  /\ \A i \in DOMAIN L : \A m \in s.dag :
       /\ Electable(m) /\ r <= Round(m) /\ Round(m) < Round(L[i])
       /\ i > 1 => Round(L[i - 1]) < Round(m)
       => ~ linked(s, L[i], m)

\* One turn of the loop takes the chain two rounds down.
LEMMA ChainGrows ==
  ASSUME NEW s, \A m \in s.dag : Round(m) \in Nat, NEW c, NEW L, NEW r \in Nat, r >= 2, r % 2 = 0,
         ChainFrom(s, c, L, r)
  PROVE  ChainFrom(s, c, Turn(s, L, leader(r - 2)), r - 2)
<1> USE Zenon
<1> DEFINE prev == leader(r - 2)
           n == Len(L)
<1>1. /\ L \in Seq(s.dag) /\ L # <<>> /\ L[n] = c
      /\ \A i \in DOMAIN L : Electable(L[i]) /\ Round(L[i]) >= r
      /\ \A i, j \in DOMAIN L : i < j => Round(L[i]) < Round(L[j])
      /\ \A i \in DOMAIN L : i > 1 => linked(s, L[i], L[i - 1])
  BY DEF ChainFrom
<1>2. \A i \in DOMAIN L : \A m \in s.dag :
       /\ Electable(m) /\ r <= Round(m) /\ Round(m) < Round(L[i])
       /\ i > 1 => Round(L[i - 1]) < Round(m)
       => ~ linked(s, L[i], m)
  BY DEF ChainFrom
<1>3. n \in Nat /\ n >= 1 /\ DOMAIN L = 1..n /\ Head(L) = L[1] /\ \A i \in 1..n : L[i] \in s.dag /\ Round(L[i]) \in Nat
  BY <1>1, SMT
<1>4. Round(prev) = r - 2 /\ Electable(prev)
  <2>1. Round(prev) = r - 2
    BY DEF leader, Round
  <2>2. (r - 2) % 2 = 0
    BY SMT
  <2> QED BY <2>1, <2>2 DEF Electable
<1>5. ASSUME NEW m \in s.dag, Electable(m), r - 2 <= Round(m), ~ (r <= Round(m))
      PROVE  m = prev
  <2>1. Round(m) = r - 2 \/ Round(m) = r - 1
    BY <1>5, SMT
  <2>2. Round(m) # r - 1
    BY <1>5, SMT DEF Electable
  <2> QED BY <1>5, <2>1, <2>2 DEF Electable
<1>8. \A i \in 1..n : Electable(L[i]) /\ Round(L[i]) >= r /\ Round(L[i]) \in Nat
  BY <1>1, <1>3
<1>9. \A i, j \in 1..n : i < j => Round(L[i]) < Round(L[j])
  BY <1>1, <1>3
<1>6. CASE ~ (prev \in s.dag /\ linked(s, L[1], prev))
  <2>1. Turn(s, L, prev) = L
    BY <1>3, <1>6 DEF Turn
  <2>2. \A i \in DOMAIN L : Electable(L[i]) /\ Round(L[i]) >= r - 2
    BY <1>1, <1>3, SMT
  <2>3. ASSUME NEW i \in DOMAIN L, NEW m \in s.dag, Electable(m), r - 2 <= Round(m),
               Round(m) < Round(L[i]), i > 1 => Round(L[i - 1]) < Round(m)
        PROVE  ~ linked(s, L[i], m)
    <3>1. CASE r <= Round(m)
      BY <1>2, <2>3, <3>1
    <3>2. CASE ~ (r <= Round(m))
      <4>1. m = prev
        BY <1>5, <2>3, <3>2
      <4>2. CASE i = 1
        BY <1>6, <4>1, <4>2
      <4>3. CASE i # 1
        <5>1. i > 1 /\ i - 1 \in DOMAIN L
          BY <1>3, <4>3, SMT
        <5>2. Round(L[i - 1]) >= r /\ Round(L[i - 1]) \in Nat /\ Round(L[i - 1]) < Round(m)
          BY <1>1, <1>3, <2>3, <5>1
        <5> QED BY <3>2, <5>2, SMT
      <4> QED BY <4>2, <4>3
    <3> QED BY <3>1, <3>2
  <2> QED BY <1>1, <2>1, <2>2, <2>3 DEF ChainFrom
<1>7. CASE prev \in s.dag /\ linked(s, L[1], prev)
  <2> DEFINE M == <<prev>> \o L
  <2>1. Turn(s, L, prev) = M
    BY <1>3, <1>7 DEF Turn
  <2>2. /\ M \in Seq(s.dag) /\ M # <<>> /\ Len(M) = n + 1 /\ DOMAIN M = 1..(n + 1)
        /\ M[1] = prev /\ \A i \in 1..(n + 1) : i # 1 => M[i] = L[i - 1]
    <3> HIDE DEF prev, n
    <3>1. /\ M \in Seq(s.dag) /\ M # <<>> /\ Len(M) = n + 1 /\ M[1] = prev
          /\ \A i \in 1..(n + 1) : i # 1 => M[i] = L[i - 1]
      <4>1. Prepended(s.dag, prev, L)
        BY <1>1, <1>7, PrependFacts
      <4> QED BY <4>1 DEF n, Prepended
    <3>2. DOMAIN M = 1..Len(M)
      <4> HIDE DEF M
      <4> QED BY <3>1, SMT
    <3> QED BY <3>1, <3>2
  <2> HIDE DEF M, prev, n
  <2>3. M[n + 1] = c
    BY <1>1, <1>3, <2>2, SMT
  <2>4. ASSUME NEW i \in 1..(n + 1)
        PROVE  \/ i = 1 /\ M[i] = prev
               \/ i > 1 /\ i - 1 \in 1..n /\ M[i] = L[i - 1]
    BY <1>3, <2>2, SMT
  <2>5. ASSUME NEW i \in 1..(n + 1)
        PROVE  Electable(M[i]) /\ Round(M[i]) >= r - 2
    <3>1. CASE i = 1 /\ M[i] = prev
      BY <1>4, <3>1, SMT
    <3>2. CASE i > 1 /\ i - 1 \in 1..n /\ M[i] = L[i - 1]
      <4>1. Electable(M[i]) /\ Round(M[i]) >= r /\ Round(M[i]) \in Nat
        BY <1>8, <3>2
      <4> QED BY <4>1, SMT
    <3> QED BY <2>4, <3>1, <3>2
  <2>6. ASSUME NEW i \in 1..(n + 1), NEW j \in 1..(n + 1), i < j
        PROVE  Round(M[i]) < Round(M[j])
    <3>0. j # 1
      BY <2>6, SMT
    <3>1. j - 1 \in 1..n /\ M[j] = L[j - 1]
      BY <2>4, <3>0
    <3>4. Round(L[j - 1]) >= r /\ Round(L[j - 1]) \in Nat
      BY <1>8, <3>1
    <3>2. CASE i = 1
      <4>1. Round(M[i]) = r - 2
        BY <1>4, <2>2, <3>2
      <4> QED BY <3>1, <3>4, <4>1, SMT
    <3>3. CASE i # 1
      <4>1. i - 1 \in 1..n /\ M[i] = L[i - 1]
        BY <2>4, <3>3
      <4>2. i - 1 < j - 1
        BY <2>6, SMT
      <4> QED BY <1>9, <3>1, <4>1, <4>2
    <3> QED BY <3>2, <3>3
  <2>7. ASSUME NEW i \in 1..(n + 1), i > 1
        PROVE  linked(s, M[i], M[i - 1])
    <3>1. i - 1 \in 1..n /\ M[i] = L[i - 1] /\ i - 1 \in 1..(n + 1)
      BY <1>3, <2>4, <2>7, SMT
    <3>2. CASE i - 1 = 1
      BY <1>7, <2>2, <3>1, <3>2
    <3>3. CASE i - 1 # 1
      <4>1. M[i - 1] = L[(i - 1) - 1] /\ i - 1 > 1
        BY <2>2, <3>1, <3>3, SMT
      <4> QED BY <1>1, <1>3, <3>1, <4>1
    <3> QED BY <3>2, <3>3
  <2>8. ASSUME NEW i \in 1..(n + 1), NEW m \in s.dag, Electable(m), r - 2 <= Round(m),
               Round(m) < Round(M[i]), i > 1 => Round(M[i - 1]) < Round(m)
        PROVE  ~ linked(s, M[i], m)
    <3>1. i # 1 /\ i > 1 /\ i - 1 \in 1..n /\ M[i] = L[i - 1] /\ i - 1 \in 1..(n + 1)
      BY <1>3, <1>4, <2>4, <2>8, SMT
    <3>2. Round(M[i - 1]) >= r - 2 /\ Round(M[i - 1]) < Round(m) /\ Round(M[i - 1]) \in Nat
      <4>1. Round(M[i - 1]) >= r - 2
        BY <2>5, <3>1
      <4>2. Round(M[i - 1]) < Round(m)
        BY <2>8, <3>1
      <4>3. Round(M[i - 1]) \in Nat
        <5>1. CASE M[i - 1] = prev
          BY <1>4, <5>1, SMT
        <5>2. CASE (i - 1) - 1 \in 1..n /\ M[i - 1] = L[(i - 1) - 1]
          BY <1>8, <5>2
        <5> QED BY <2>4, <3>1, <5>1, <5>2
      <4> QED BY <4>1, <4>2, <4>3
    <3>3. m # prev
      BY <1>4, <3>2, SMT
    <3>4. r <= Round(m)
      BY <1>5, <2>8, <3>3
    <3>5. i - 1 > 1 => Round(L[(i - 1) - 1]) < Round(m)
      BY <2>2, <3>1, <3>2, SMT
    <3> QED BY <1>2, <1>3, <2>8, <3>1, <3>4, <3>5
  <2>9. ChainFrom(s, c, M, r - 2)
    BY <2>2, <2>3, <2>5, <2>6, <2>7, <2>8 DEF ChainFrom
  <2> QED BY <2>1, <2>9 DEF prev
<1> QED BY <1>6, <1>7

\* order_leaders takes the chain down to the last committed round.
LEMMA OrderLeaders ==
  ASSUME Library, NEW s, s.lc \in LastCommits, \A m \in s.dag : Round(m) \in Nat,
         last_committed_round(s.lc) % 2 = 0,
         NEW c, c \in s.dag, Electable(c), Round(c) > last_committed_round(s.lc)
  PROVE  ChainFrom(s, c, order_leaders(s, c), last_committed_round(s.lc) + 2)
<1> USE Zenon
<1> DEFINE b == last_committed_round(s.lc)
           E == EarlierRounds(s, c)
           ch == Chain(s, c)
           R == Round(c)
           T == {k \in Nat : k <= E => ChainFrom(s, c, ch[k], R - 2 * k)}
<1>1. b \in Nat /\ b % 2 = 0 /\ R \in Nat /\ R % 2 = 0 /\ R > b
  BY LastRound DEF Electable
<1>2. E = IF R >= b + 2 THEN (R - (b + 2)) \div 2 ELSE 0 \div 2
  BY DEF EarlierRounds, saturating_sub
<1> HIDE DEF b, E, R
<1>3. R >= b + 2
  BY <1>1, SMT
<1>4. E \in Nat /\ R - 2 * E = b + 2
  BY <1>1, <1>2, <1>3, SMT
<1>5. ChainRuns(ch, s, c, E)
  BY <1>4, ChainSteps DEF E
<1> HIDE DEF ch
<1>6. 0 \in T
  <2>1. ch[0] = <<c>>
    BY <1>5 DEF ChainRuns
  <2> DEFINE q == <<c>>
  <2>2. q \in Seq(s.dag) /\ Len(q) = 1 /\ q[1] = c
    BY PrependFacts, EmptySeq DEF Prepended
  <2>3. DOMAIN q = 1..1 /\ q # <<>>
    BY <2>2, SMT
  <2> HIDE DEF q
  <2>4. \A i \in DOMAIN q : i = 1
    BY <2>3, SMT
  <2>5. q[Len(q)] = c /\ \A i \in DOMAIN q : Electable(q[i]) /\ Round(q[i]) >= R
    BY <1>1, <2>2, <2>4, SMT DEF R
  <2>6. \A i, j \in DOMAIN q : i < j => Round(q[i]) < Round(q[j])
    BY <2>4, SMT
  <2>7. \A i \in DOMAIN q : i > 1 => linked(s, q[i], q[i - 1])
    BY <2>4, SMT
  <2>8. \A i \in DOMAIN q : \A m \in s.dag :
          /\ Electable(m) /\ R <= Round(m) /\ Round(m) < Round(q[i])
          /\ i > 1 => Round(q[i - 1]) < Round(m)
          => ~ linked(s, q[i], m)
    <3>1. \A m \in s.dag : ~ (R <= Round(m) /\ Round(m) < R)
      BY <1>1, SMT
    <3> QED BY <2>2, <2>4, <3>1 DEF R
  <2>9. ChainFrom(s, c, q, R)
    BY <2>2, <2>3, <2>5, <2>6, <2>7, <2>8 DEF ChainFrom
  <2>10. R - 2 * 0 = R
    BY <1>1, SMT
  <2> QED BY <2>1, <2>9, <2>10 DEF q
<1>7. ASSUME NEW k \in Nat, k \in T
      PROVE  k + 1 \in T
  <2> SUFFICES ASSUME k + 1 <= E PROVE ChainFrom(s, c, ch[k + 1], R - 2 * (k + 1))
    BY SMT
  <2> DEFINE r == R - 2 * k
  <2>1. k <= E /\ k + 1 \in 1..E /\ (k + 1) - 1 = k
    BY <1>4, SMT
  <2>2. r \in Nat /\ r >= 2 /\ r % 2 = 0 /\ r - 2 = R - 2 * (k + 1)
    BY <1>1, <1>4, <2>1, SMT
  <2>3. ChainFrom(s, c, ch[k], r)
    BY <1>7, <2>1
  <2>4. ch[k + 1] = Turn(s, ch[(k + 1) - 1], leader(Round(c) - 2 * (k + 1)))
    BY <1>5, <2>1 DEF ChainRuns
  <2>5. ch[k + 1] = Turn(s, ch[k], leader(r - 2))
    BY <2>1, <2>2, <2>4 DEF R
  <2> HIDE DEF r
  <2>6. ChainFrom(s, c, Turn(s, ch[k], leader(r - 2)), r - 2)
    BY <2>2, <2>3, ChainGrows
  <2> QED BY <2>2, <2>5, <2>6
<1>8. Nat \subseteq T
  <2> HIDE DEF T
  <2> QED BY <1>6, <1>7, SetInduction
<1>9. E <= E
  BY <1>4, SMT
<1>10. ChainFrom(s, c, ch[E], R - 2 * E)
  BY <1>4, <1>8, <1>9
<1> QED BY <1>4, <1>10 DEF order_leaders, E, ch, b

-----------------------------------------------------------------------------
(* The depth-first search.                                                 *)

\* A state of consensus as the algorithms take it.
Formed(s) ==
  /\ s.parents \in Dags /\ s.dag \in SUBSET DOMAIN s.parents /\ IsFiniteSet(s.dag)
  /\ s.lc \in LastCommits

Lists(q, S) == q \in Seq(S) /\ Range(q) = S /\ Distinct(q)

\* Descending lists a set of certificates.
LEMMA DescendingLists ==
  ASSUME Library, NEW P \in Dags, NEW S \in SUBSET DOMAIN P, IsFiniteSet(S)
  PROVE  Lists(Descending(S), S)
<1> USE Zenon
<1> DEFINE R == {p \in S \X S : Digest[p[1]] > Digest[p[2]]}
           q == Descending(S)
           n == Cardinality(S)
<1>1. \A x, y \in S : <<x, y>> \in R <=> Digest[x] > Digest[y]
  BY SMT
<1>2. \A x, y \in S : Digest[x] \in Nat /\ (Digest[x] = Digest[y] => x = y)
  BY BullsharkAssumption
<1>3. \A x \in S : {y \in S : Digest[y] > Digest[x]} = Below(S, R, x)
  BY <1>1 DEF Below
<1> HIDE DEF R
<1>4. StrictOrder(S, R)
  BY <1>1, <1>2, SMT DEF StrictOrder
<1> DEFINE slot(k) == CHOOSE x \in S : Cardinality({y \in S : Digest[y] > Digest[x]}) = k - 1
<1>5. q = [k \in 1..n |-> slot(k)]
  BY DEF Descending
<1>a. n \in Nat /\ \A k \in 1..n : \E x \in S : Cardinality(Below(S, R, x)) = k - 1
  <2>1. Ranks(S, R)
    BY <1>4, Ranked
  <2> QED BY <2>1 DEF Ranks
<1>b. ASSUME NEW k \in 1..n
      PROVE  slot(k) \in S /\ Cardinality(Below(S, R, slot(k))) = k - 1
  <2>1. \E x \in S : Cardinality({y \in S : Digest[y] > Digest[x]}) = k - 1
    BY <1>3, <1>a
  <2>2. slot(k) \in S /\ Cardinality({y \in S : Digest[y] > Digest[slot(k)]}) = k - 1
    BY <2>1
  <2> HIDE DEF slot
  <2> QED BY <1>3, <2>2
<1> HIDE DEF slot, q
<1>c. q \in [1..n -> S] /\ \A k \in 1..n : Cardinality(Below(S, R, q[k])) = k - 1
  BY <1>5, <1>b
<1>d. InOrder(q, S, R)
  BY <1>4, <1>c, Listing
<1>6. /\ n \in Nat /\ q \in [1..n -> S]
      /\ \A x \in S : \E k \in 1..n : q[k] = x
      /\ \A j, k \in 1..n : j < k => <<q[j], q[k]>> \in R
  BY <1>a, <1>d DEF InOrder
<1> HIDE DEF n
<1>7. q \in Seq(S) /\ DOMAIN q = 1..n
  BY <1>6, SMT
<1>8. Range(q) = S
  BY <1>6, <1>7 DEF Range
<1>9. ASSUME NEW i \in 1..n, NEW j \in 1..n, q[i] = q[j]
      PROVE  i = j
  <2>1. ~ (<<q[i], q[i]>> \in R)
    BY <1>4, <1>6 DEF StrictOrder
  <2>2. ~ (i < j) /\ ~ (j < i)
    BY <1>6, <1>9, <2>1
  <2> QED BY <1>6, <2>2, SMT
<1> QED BY <1>7, <1>8, <1>9 DEF Lists, Distinct, q

\* The parents that the search would push, if they are not pushed already.
Eligible(s, x) == {p \in s.parents[x] : p \in s.dag /\ Round(p) > s.lc[Author(p)]}

\* What the search from c keeps true.
Searching(s, c, d) ==
  /\ d \in [buffer : Seq(s.dag), already_ordered : SUBSET s.dag, ordered : Seq(s.dag)]
  /\ Distinct(d.ordered) /\ Distinct(d.buffer) /\ Range(d.ordered) \cap Range(d.buffer) = {}
  /\ Range(d.ordered) \cup Range(d.buffer) = d.already_ordered \cup {c}
  /\ \A p \in d.already_ordered : Round(p) < Round(c) /\ Round(p) > s.lc[Author(p)]
  /\ \A x \in Range(d.ordered) : Eligible(s, x) \subseteq d.already_ordered

Start(c) == [buffer |-> <<c>>, already_ordered |-> {}, ordered |-> <<>>]

\* A turn of the search.
LEMMA SearchTurn ==
  ASSUME Library, NEW s, Formed(s), NEW c, c \in s.dag, NEW d, Searching(s, c, d)
  PROVE  /\ Searching(s, c, DfsStep(s, d))
         /\ d.buffer # <<>> => Len(DfsStep(s, d).ordered) = Len(d.ordered) + 1
<1> USE Zenon
<1>1. CASE d.buffer = <<>>
  BY <1>1 DEF DfsStep
<1>2. CASE d.buffer # <<>>
  <2> DEFINE x == Head(d.buffer)
             next == {p \in s.parents[x] : /\ p \in s.dag /\ p \notin d.already_ordered
                                           /\ Round(p) > s.lc[Author(p)]}
             D == Descending(next)
             t == Tail(d.buffer)
             b == D \o t
             a == d.already_ordered \cup next
             o == Append(d.ordered, x)
             e == [buffer |-> b, already_ordered |-> a, ordered |-> o]
  <2>1. DfsStep(s, d) = e
    BY <1>2 DEF DfsStep
  <2>2. d.buffer \in Seq(s.dag) /\ d.already_ordered \in SUBSET s.dag /\ d.ordered \in Seq(s.dag)
    BY DEF Searching
  <2>3. /\ Distinct(d.ordered) /\ Distinct(d.buffer) /\ Range(d.ordered) \cap Range(d.buffer) = {}
        /\ Range(d.ordered) \cup Range(d.buffer) = d.already_ordered \cup {c}
        /\ \A p \in d.already_ordered : Round(p) < Round(c) /\ Round(p) > s.lc[Author(p)]
        /\ \A y \in Range(d.ordered) : Eligible(s, y) \subseteq d.already_ordered
    BY DEF Searching
  <2>4. HeadAndTail(s.dag, d.buffer)
    BY <1>2, <2>2, TailFacts
  <2>5. /\ x \in s.dag /\ t \in Seq(s.dag) /\ Range(d.buffer) = {x} \cup Range(t)
        /\ Distinct(t) /\ x \notin Range(t)
    BY <2>3, <2>4 DEF HeadAndTail
  <2>6. /\ s.parents \in Dags /\ s.dag \in SUBSET DOMAIN s.parents /\ IsFiniteSet(s.dag)
    BY DEF Formed
  <2>7. next \in SUBSET s.dag
    OBVIOUS
  <2> HIDE DEF x, t
  <2>8. Round(x) \in Nat /\ Round(c) \in Nat /\ Round(x) <= Round(c)
    <3>1. Round(x) \in Nat /\ Round(c) \in Nat
      BY <2>5, <2>6, DagFacts
    <3>2. x = c \/ Round(x) < Round(c)
      BY <2>3, <2>5
    <3> QED BY <3>1, <3>2, SMT
  <2>9. \A p \in next : Round(p) < Round(c) /\ Round(p) > s.lc[Author(p)]
    <3> SUFFICES ASSUME NEW p \in next PROVE Round(p) < Round(c)
      OBVIOUS
    <3>1. p \in s.parents[x] /\ x \in DOMAIN s.parents
      BY <2>5, <2>6
    <3>2. Round(p) + 1 = Round(x) /\ p \in DOMAIN s.parents
      BY <2>6, <3>1, DagFacts
    <3>3. Round(p) \in Nat
      BY <2>6, <3>2, DagFacts
    <3> QED BY <2>8, <3>2, <3>3, SMT
  <2>10. c \notin next /\ next \cap d.already_ordered = {}
    <3>1. ~ (Round(c) < Round(c))
      BY <2>8, SMT
    <3>2. c \notin next
      BY <2>9, <3>1
    <3> QED BY <3>2
  <2>11. Eligible(s, x) \subseteq a
    BY DEF Eligible
  <2> HIDE DEF next
  <2>12. Lists(D, next)
    <3>1. IsFiniteSet(next)
      BY <2>6, <2>7 DEF Library, CardSubset
    <3>2. next \in SUBSET DOMAIN s.parents
      BY <2>6, <2>7
    <3> QED BY <2>6, <3>1, <3>2, DescendingLists
  <2>13. D \in Seq(s.dag) /\ Range(D) = next /\ Distinct(D)
    <3>1. D \in Seq(next) /\ Range(D) = next /\ Distinct(D)
      BY <2>12 DEF Lists
    <3> HIDE DEF D
    <3> QED BY <2>7, <3>1, SMT
  <2> HIDE DEF D
  <2>14. Concatenation(s.dag, D, t)
    BY <2>5, <2>13, ConcatFacts
  <2>15. Range(t) \cap next = {} /\ Range(d.ordered) \cap next = {} /\ x \notin next
    BY <2>3, <2>5, <2>10
  <2>16. b \in Seq(s.dag) /\ Range(b) = next \cup Range(t) /\ Distinct(b)
    <3>1. Range(D) \cap Range(t) = {}
      BY <2>13, <2>15
    <3> QED BY <2>5, <2>13, <2>14, <3>1 DEF Concatenation
  <2>17. x \notin Range(d.ordered)
    BY <2>3, <2>5
  <2>18. Appended(s.dag, d.ordered, x)
    BY <2>2, <2>5, AppendFacts
  <2>19. o \in Seq(s.dag) /\ Range(o) = Range(d.ordered) \cup {x} /\ Distinct(o) /\ Len(o) = Len(d.ordered) + 1
    BY <2>3, <2>17, <2>18 DEF Appended
  <2> HIDE DEF b, o
  <2>20. Range(o) \cap Range(b) = {}
    BY <2>3, <2>5, <2>15, <2>16, <2>19
  <2>21. Range(o) \cup Range(b) = a \cup {c}
    BY <2>3, <2>5, <2>16, <2>19
  <2>22. \A p \in a : Round(p) < Round(c) /\ Round(p) > s.lc[Author(p)]
    BY <2>3, <2>9
  <2>23. \A y \in Range(o) : Eligible(s, y) \subseteq a
    BY <2>3, <2>11, <2>19
  <2>24. a \in SUBSET s.dag
    BY <2>2, <2>7
  <2> HIDE DEF a
  <2>25. /\ e \in [buffer : Seq(s.dag), already_ordered : SUBSET s.dag, ordered : Seq(s.dag)]
         /\ e.buffer = b /\ e.already_ordered = a /\ e.ordered = o
    BY <2>16, <2>19, <2>24
  <2> HIDE DEF e
  <2>26. Searching(s, c, e)
    BY <2>16, <2>19, <2>20, <2>21, <2>22, <2>23, <2>25 DEF Searching
  <2> QED BY <2>1, <2>19, <2>25, <2>26
<1> QED BY <1>1, <1>2

SearchRuns(f, s, c, n) == f[0] = Start(c) /\ \A k \in 1..n : f[k] = DfsStep(s, f[k - 1])

\* Search is the loop of order_dag, turn by turn.
LEMMA SearchSteps ==
  ASSUME Library, NEW s, Formed(s), NEW c, c \in s.dag
  PROVE  /\ Cardinality(s.dag) \in Nat
         /\ SearchRuns(Search(s, c), s, c, Cardinality(s.dag))
         /\ \A k \in 0..Cardinality(s.dag) : Searching(s, c, Search(s, c)[k])
<1> USE Zenon
<1> DEFINE n == Cardinality(s.dag)
           W == [buffer : Seq(s.dag), already_ordered : SUBSET s.dag, ordered : Seq(s.dag)]
           V == {d \in W : Searching(s, c, d)}
           F == [k \in Nat |-> [X \in V |-> DfsStep(s, X)]]
           Is(f) == f = [k \in 0..n |-> IF k = 0 THEN Start(c) ELSE DfsStep(s, f[k - 1])]
           r == Search(s, c)
<1>n. n \in Nat
  BY DEF Library, CardNat, Formed
<1>v. \A d : d \in V <=> Searching(s, c, d)
  BY DEF Searching
<1>1. Start(c) \in V
  <2> DEFINE q == <<c>>
             z == <<>>
             d == [buffer |-> q, already_ordered |-> {}, ordered |-> z]
  <2>1. q \in Seq(s.dag) /\ Len(q) = 1 /\ q[1] = c /\ z \in Seq(s.dag) /\ Len(z) = 0
    BY PrependFacts, EmptySeq DEF Prepended
  <2>2. DOMAIN q = 1..1 /\ DOMAIN z = {}
    BY <2>1, SMT
  <2>3. d = Start(c)
    BY DEF Start
  <2> HIDE DEF q, z
  <2>4. d \in W /\ d.buffer = q /\ d.already_ordered = {} /\ d.ordered = z
    BY <2>1
  <2>5. Distinct(q) /\ Range(q) = {c}
    BY <2>1, <2>2, SMT DEF Distinct, Range
  <2>6. Distinct(z) /\ Range(z) = {}
    BY <2>2 DEF Distinct, Range
  <2> HIDE DEF d
  <2>7. Searching(s, c, d)
    BY <2>4, <2>5, <2>6 DEF Searching
  <2> QED BY <1>v, <2>3, <2>7
<1>2. F \in [Nat -> [V -> V]]
  <2>1. \A X \in V : DfsStep(s, X) \in V
    <3> SUFFICES ASSUME NEW X, Searching(s, c, X) PROVE Searching(s, c, DfsStep(s, X))
      BY <1>v
    <3> QED BY SearchTurn
  <2> HIDE DEF V
  <2> QED BY <2>1
<1>5. r = CHOOSE g : Is(g)
  BY DEF Search, Start
<1> HIDE DEF V, F, n, r
<1>0. PICK f : RunsUpTo(f, V, Start(c), F, n)
  BY <1>1, <1>2, <1>n, RecursionUpTo
<1>3. /\ f = [k \in 0..n |-> IF k = 0 THEN Start(c) ELSE F[k][f[k - 1]]]
      /\ f \in [0..n -> V]
  BY <1>0 DEF RunsUpTo
<1>4. Is(f)
  <2>1. ASSUME NEW k \in 0..n, k # 0
        PROVE  F[k][f[k - 1]] = DfsStep(s, f[k - 1])
    <3>1. k \in Nat /\ k - 1 \in 0..n
      BY <1>n, <2>1, SMT
    <3>2. f[k - 1] \in V
      BY <1>3, <3>1
    <3> QED BY <3>1, <3>2 DEF F
  <2> QED BY <1>3, <2>1
<1> HIDE DEF Is
<1>6. Is(r)
  BY <1>4, <1>5
<1>7. r = [k \in 0..n |-> IF k = 0 THEN Start(c) ELSE DfsStep(s, r[k - 1])]
  BY <1>6 DEF Is
<1>8. r[0] = Start(c)
  BY <1>7, <1>n, SMT
<1>9. ASSUME NEW k \in 1..n
      PROVE  r[k] = DfsStep(s, r[k - 1])
  <2>1. k \in 0..n /\ k # 0
    BY <1>n, SMT
  <2> QED BY <1>7, <2>1
<1>10. \A k \in 0..n : Searching(s, c, r[k])
  <2> DEFINE T == {k \in Nat : k <= n => r[k] \in V}
  <2>1. 0 \in T
    BY <1>1, <1>8
  <2>2. ASSUME NEW k \in Nat, k \in T
        PROVE  k + 1 \in T
    <3> SUFFICES ASSUME k + 1 <= n PROVE r[k + 1] \in V
      BY SMT
    <3>1. k + 1 \in 1..n /\ (k + 1) - 1 = k /\ k <= n
      BY <1>n, SMT
    <3>2. r[k + 1] = DfsStep(s, r[k])
      BY <1>9, <3>1
    <3>3. Searching(s, c, r[k])
      BY <1>v, <2>2, <3>1
    <3>4. Searching(s, c, DfsStep(s, r[k]))
      BY <3>3, SearchTurn
    <3> QED BY <1>v, <3>2, <3>4
  <2> HIDE DEF T
  <2>3. Nat \subseteq T
    BY <2>1, <2>2, SetInduction
  <2>4. \A k \in 0..n : k \in Nat /\ k <= n
    BY <1>n, SMT
  <2> QED BY <1>v, <2>3, <2>4 DEF T
<1> QED BY <1>n, <1>8, <1>9, <1>10 DEF r, n, SearchRuns

\* Without repetition, what is outside a sequence bounds its length.
LEMMA ShorterThan ==
  ASSUME Library,
         NEW S, IsFiniteSet(S), NEW q \in Seq(S), Distinct(q), NEW x \in S, x \notin Range(q)
  PROVE  Len(q) < Cardinality(S)
<1> USE Zenon
<1> DEFINE n == Len(q)
           T == S \ {x}
<1>1. n \in Nat /\ DOMAIN q = 1..n /\ q \in [1..n -> S]
  BY SMT
<1>2. \A i \in 1..n : q[i] \in T
  BY <1>1 DEF Range
<1>3. q \in [1..n -> T]
  <2> HIDE DEF T, n
  <2> QED BY <1>1, <1>2
<1>4. q \in Injection(1..n, T)
  <2> HIDE DEF T, n
  <2> QED BY <1>1, <1>3 DEF Injection, IsInjective, Distinct
<1>5. IsFiniteSet(T) /\ Cardinality(T) = Cardinality(S) - 1 /\ Cardinality(S) \in Nat
  BY DEF Library, CardRemove, CardNat
<1>6. Cardinality(1..n) = n
  BY <1>1 DEF Library, CardUpTo
<1> HIDE DEF T, n
<1>7. Cardinality(1..n) <= Cardinality(T)
  BY <1>4, <1>5 DEF Library, CardInjection
<1>8. n < Cardinality(S)
  BY <1>1, <1>5, <1>6, <1>7, SMT
<1> QED BY <1>8 DEF n

\* The search is over after as many turns as the dag has certificates.
LEMMA SearchEnds ==
  ASSUME Library, NEW s, Formed(s), NEW c, c \in s.dag
  PROVE  /\ Searching(s, c, Search(s, c)[Cardinality(s.dag)])
         /\ Search(s, c)[Cardinality(s.dag)].buffer = <<>>
<1> USE Zenon
<1> DEFINE n == Cardinality(s.dag)
           f == Search(s, c)
           T == {k \in Nat : k <= n => f[k].buffer = <<>> \/ Len(f[k].ordered) = k}
<1>1. n \in Nat /\ SearchRuns(f, s, c, n) /\ \A k \in 0..n : Searching(s, c, f[k])
  BY SearchSteps
<1> HIDE DEF f
<1>2. f[0] = Start(c) /\ \A k \in 1..n : f[k] = DfsStep(s, f[k - 1])
  BY <1>1 DEF SearchRuns
<1>3. 0 \in T
  BY <1>2, SMT DEF Start
<1>4. ASSUME NEW k \in Nat, k \in T
      PROVE  k + 1 \in T
  <2> SUFFICES ASSUME k + 1 <= n PROVE f[k + 1].buffer = <<>> \/ Len(f[k + 1].ordered) = k + 1
    BY SMT
  <2> HIDE DEF n
  <2>1. k \in 0..n /\ k + 1 \in 1..n /\ (k + 1) - 1 = k /\ k <= n
    BY <1>1, SMT
  <2>2. f[k + 1] = DfsStep(s, f[k]) /\ Searching(s, c, f[k])
    BY <1>1, <1>2, <2>1
  <2>3. CASE f[k].buffer = <<>>
    <3>1. DfsStep(s, f[k]) = f[k]
      BY <2>3 DEF DfsStep
    <3> QED BY <2>2, <2>3, <3>1
  <2>4. CASE f[k].buffer # <<>>
    <3>1. Len(f[k].ordered) = k
      BY <1>4, <2>1, <2>4
    <3>2. Len(DfsStep(s, f[k]).ordered) = Len(f[k].ordered) + 1
      BY <2>2, <2>4, SearchTurn
    <3> QED BY <2>2, <3>1, <3>2
  <2> QED BY <2>3, <2>4
<1>5. Nat \subseteq T
  <2> HIDE DEF T
  <2> QED BY <1>3, <1>4, SetInduction
<1>6. n <= n /\ n \in 0..n
  BY <1>1, SMT
<1>7. f[n].buffer = <<>> \/ Len(f[n].ordered) = n
  BY <1>1, <1>5, <1>6
<1>8. Searching(s, c, f[n])
  BY <1>1, <1>6
<1>9. f[n].buffer = <<>>
  <2> SUFFICES ASSUME f[n].buffer # <<>>, Len(f[n].ordered) = n PROVE FALSE
    BY <1>7
  <2> DEFINE d == f[n]
             x == Head(d.buffer)
  <2>1. /\ d.buffer \in Seq(s.dag) /\ d.ordered \in Seq(s.dag) /\ Distinct(d.ordered)
        /\ Range(d.ordered) \cap Range(d.buffer) = {}
    BY <1>8 DEF Searching
  <2> HIDE DEF d, n
  <2>2. HeadAndTail(s.dag, d.buffer)
    BY <2>1, TailFacts DEF d
  <2>3. x \in s.dag /\ x \in Range(d.buffer)
    BY <2>2 DEF HeadAndTail
  <2>4. x \notin Range(d.ordered) /\ IsFiniteSet(s.dag)
    BY <2>1, <2>3 DEF Formed
  <2>5. Len(d.ordered) < Cardinality(s.dag)
    BY <2>1, <2>3, <2>4, ShorterThan
  <2> QED BY <1>1, <2>5, SMT DEF d, n
<1> QED BY <1>8, <1>9 DEF f

-----------------------------------------------------------------------------
(* The order of a sub-dag.                                                 *)

ByRound(o) == \A i, j \in DOMAIN o : i < j => Round(o[i]) <= Round(o[j])

Sorted(o, S, q, K) ==
  o \in Seq(S) /\ Range(o) = {q[i] : i \in K} /\ Distinct(o) /\ ByRound(o)

\* SortByRound has what is at the kept places, once and by round.
LEMMA SortFacts ==
  ASSUME Library, NEW S, NEW q \in Seq(S), \A x \in S : Round(x) \in Nat, Distinct(q),
         NEW K \in SUBSET (1..Len(q))
  PROVE  Sorted(SortByRound(q, K), S, q, K)
<1> USE Zenon
<1> DEFINE Before(j, i) == Round(q[j]) < Round(q[i]) \/ (Round(q[j]) = Round(q[i]) /\ j < i)
           R == {p \in K \X K : Before(p[1], p[2])}
           n == Cardinality(K)
           slot(k) == CHOOSE i \in K : Cardinality({j \in K : Before(j, i)}) = k - 1
           l == [k \in 1..n |-> slot(k)]
           o == SortByRound(q, K)
<1>1. Len(q) \in Nat /\ DOMAIN q = 1..Len(q)
  BY SMT
<1>2. IsFiniteSet(K)
  <2>1. IsFiniteSet(1..Len(q))
    BY <1>1 DEF Library, CardUpTo
  <2> QED BY <2>1 DEF Library, CardSubset
<1>3. \A i \in K : i \in Nat /\ q[i] \in S /\ Round(q[i]) \in Nat
  BY SMT
<1>o. o = [k \in 1..n |-> q[slot(k)]]
  BY DEF SortByRound
<1>4. \A i, j \in K : <<j, i>> \in R <=> Before(j, i)
  BY SMT
<1>5. \A i \in K : {j \in K : Before(j, i)} = Below(K, R, i)
  BY <1>4 DEF Below
<1> HIDE DEF R
<1>6. StrictOrder(K, R)
  <2>1. \A i \in K : ~ Before(i, i)
    BY <1>3, SMT
  <2>2. \A i, j, k \in K : Before(i, j) /\ Before(j, k) => Before(i, k)
    BY <1>3, SMT
  <2>3. \A i, j \in K : i = j \/ Before(i, j) \/ Before(j, i)
    BY <1>3, SMT
  <2> HIDE DEF Before
  <2> QED BY <1>4, <2>1, <2>2, <2>3 DEF StrictOrder
<1>a. n \in Nat /\ \A k \in 1..n : \E i \in K : Cardinality(Below(K, R, i)) = k - 1
  <2>1. Ranks(K, R)
    BY <1>2, <1>6, Ranked
  <2> QED BY <2>1 DEF Ranks
<1>b. ASSUME NEW k \in 1..n
      PROVE  slot(k) \in K /\ Cardinality(Below(K, R, slot(k))) = k - 1
  <2> HIDE DEF Before
  <2>1. \E i \in K : Cardinality({j \in K : Before(j, i)}) = k - 1
    BY <1>5, <1>a
  <2>2. slot(k) \in K /\ Cardinality({j \in K : Before(j, slot(k))}) = k - 1
    BY <2>1
  <2> HIDE DEF slot
  <2> QED BY <1>5, <2>2
<1> HIDE DEF slot
<1>c. /\ l \in [1..n -> K] /\ \A k \in 1..n : l[k] = slot(k)
      /\ \A k \in 1..n : Cardinality(Below(K, R, l[k])) = k - 1
  BY <1>b
<1> HIDE DEF l
<1>d. InOrder(l, K, R)
  BY <1>2, <1>6, <1>c, Listing
<1>7. /\ \A i \in K : \E k \in 1..n : l[k] = i
      /\ \A j, k \in 1..n : j < k => <<l[j], l[k]>> \in R
  BY <1>d DEF InOrder
<1> HIDE DEF n, o
<1>8. DOMAIN o = 1..n /\ \A k \in 1..n : o[k] = q[l[k]] /\ l[k] \in K
  BY <1>o, <1>c
<1>9. o \in Seq(S)
  <2>1. o \in [1..n -> S]
    <3>1. \A k \in 1..n : q[slot(k)] \in S
      BY <1>3, <1>b
    <3> QED BY <1>o, <3>1
  <2> QED BY <1>a, <2>1, SMT
<1>10. Range(o) = {q[i] : i \in K}
  <2>1. ASSUME NEW k \in 1..n
        PROVE  o[k] \in {q[i] : i \in K}
    BY <1>8
  <2>2. ASSUME NEW i \in K
        PROVE  q[i] \in {o[k] : k \in 1..n}
    <3>1. PICK k \in 1..n : l[k] = i
      BY <1>7
    <3>2. o[k] = q[i]
      BY <1>8, <3>1
    <3> QED BY <3>2
  <2>3. Range(o) = {o[k] : k \in 1..n}
    BY <1>8 DEF Range
  <2> QED BY <2>1, <2>2, <2>3
<1>11. ASSUME NEW j \in 1..n, NEW k \in 1..n, j < k
       PROVE  Round(o[j]) <= Round(o[k]) /\ l[j] # l[k]
  <2>1. <<l[j], l[k]>> \in R /\ l[j] \in K /\ l[k] \in K
    BY <1>7, <1>8, <1>11
  <2>2. Before(l[j], l[k])
    BY <1>4, <2>1
  <2>3. l[j] # l[k]
    BY <1>6, <2>1 DEF StrictOrder
  <2>4. Round(q[l[j]]) \in Nat /\ Round(q[l[k]]) \in Nat /\ o[j] = q[l[j]] /\ o[k] = q[l[k]]
    BY <1>3, <1>8, <2>1
  <2>5. Round(q[l[j]]) < Round(q[l[k]]) \/ Round(q[l[j]]) = Round(q[l[k]])
    BY <2>2
  <2>6. Round(o[j]) <= Round(o[k])
    <3> HIDE DEF Before
    <3> QED BY <2>4, <2>5, SMT
  <2> QED BY <2>3, <2>6
<1>12. ByRound(o)
  BY <1>8, <1>11 DEF ByRound
<1>13. ASSUME NEW j \in 1..n, NEW k \in 1..n, o[j] = o[k]
       PROVE  j = k
  <2>1. q[l[j]] = q[l[k]] /\ l[j] \in DOMAIN q /\ l[k] \in DOMAIN q
    BY <1>1, <1>8, <1>13
  <2>2. l[j] = l[k]
    BY <2>1 DEF Distinct
  <2>3. ~ (j < k) /\ ~ (k < j)
    BY <1>11, <2>2
  <2> QED BY <1>a, <2>3, SMT
<1>14. Distinct(o)
  BY <1>8, <1>13 DEF Distinct
<1> QED BY <1>9, <1>10, <1>12, <1>14 DEF Sorted, o

\* A sub-dag of the leader c: distinct certificates of the dag by round, with
\* those of their eligible parents that are not too old; c is the last.
SubDag(s, c, o) ==
  /\ o \in Seq(s.dag) /\ Distinct(o) /\ ByRound(o)
  /\ \A x \in Range(o) : x = c \/ (Round(x) < Round(c) /\ Round(x) > s.lc[Author(x)])
  /\ c \in Range(o)
  /\ \A x \in Range(o) : \A p \in Eligible(s, x) :
       Round(p) + GcDepth >= last_committed_round(s.lc) => p \in Range(o)

\* order_dag gives the sub-dag of a leader above the last committed round.
LEMMA OrderDag ==
  ASSUME Library, NEW s, Formed(s), NEW c, c \in s.dag, Round(c) > last_committed_round(s.lc)
  PROVE  SubDag(s, c, order_dag(s, c))
<1> USE Zenon
<1> DEFINE d == Search(s, c)[Cardinality(s.dag)]
           q == d.ordered
           b == last_committed_round(s.lc)
           K == {i \in 1..Len(q) : Round(q[i]) + GcDepth >= b}
           o == order_dag(s, c)
<1>1. Searching(s, c, d) /\ d.buffer = <<>>
  BY SearchEnds
<1>2. o = SortByRound(q, K)
  BY DEF order_dag
<1> HIDE DEF d
<1>3. /\ q \in Seq(s.dag) /\ Distinct(q) /\ Range(q) \cup Range(d.buffer) = d.already_ordered \cup {c}
      /\ \A p \in d.already_ordered : Round(p) < Round(c) /\ Round(p) > s.lc[Author(p)]
      /\ \A x \in Range(q) : Eligible(s, x) \subseteq d.already_ordered
  BY <1>1 DEF Searching
<1>4. Range(q) = d.already_ordered \cup {c}
  <2>1. Range(d.buffer) = {}
    BY <1>1, SMT DEF Range
  <2> QED BY <1>3, <2>1
<1>5. \A x \in s.dag : Round(x) \in Nat
  <2>1. s.parents \in Dags /\ s.dag \in SUBSET DOMAIN s.parents
    BY DEF Formed
  <2> QED BY <2>1, DagFacts
<1> HIDE DEF q, o
<1>6. Sorted(o, s.dag, q, K)
  <2>1. K \in SUBSET (1..Len(q))
    BY SMT
  <2> HIDE DEF K
  <2> QED BY <1>2, <1>3, <1>5, <2>1, SortFacts
<1>7. o \in Seq(s.dag) /\ Range(o) = {q[i] : i \in K} /\ Distinct(o) /\ ByRound(o)
  BY <1>6 DEF Sorted
<1>8. DOMAIN q = 1..Len(q)
  BY <1>3, SMT
<1>9. \A x : x \in Range(o) <=> x \in Range(q) /\ Round(x) + GcDepth >= b
  BY <1>7, <1>8 DEF Range
<1>10. b \in Nat /\ GcDepth \in Nat /\ Round(c) \in Nat
  BY <1>5, LastRound, BullsharkAssumption DEF Formed
<1>11. Round(c) + GcDepth >= b
  BY <1>10, SMT
<1>12. c \in Range(o)
  BY <1>4, <1>9, <1>11
<1>13. \A x \in Range(o) : x = c \/ (Round(x) < Round(c) /\ Round(x) > s.lc[Author(x)])
  BY <1>3, <1>4, <1>9
<1>14. \A x \in Range(o) : \A p \in Eligible(s, x) : Round(p) + GcDepth >= b => p \in Range(o)
  BY <1>3, <1>4, <1>9
<1> QED BY <1>7, <1>12, <1>13, <1>14 DEF SubDag, o, b

\* The parents of what is in the dag are in it too, unless they are committed or
\* overtaken for their author.
Closed(s) == \A x \in s.dag : \A p \in s.parents[x] : p \in s.dag \/ Round(p) <= s.lc[Author(p)]

SameCommits(s, t) ==
  /\ Formed(s) /\ Formed(t) /\ Closed(s) /\ Closed(t)
  /\ s.lc = t.lc /\ s.parents = t.parents

\* A turn of the search is the same in two dags that are closed.
LEMMA SameTurn ==
  ASSUME NEW s, NEW t, SameCommits(s, t), NEW c, NEW d, Searching(s, c, d), Searching(t, c, d)
  PROVE  DfsStep(s, d) = DfsStep(t, d)
<1> USE Zenon
<1>1. CASE d.buffer = <<>>
  BY <1>1 DEF DfsStep
<1>2. CASE d.buffer # <<>>
  <2> DEFINE x == Head(d.buffer)
             next(z) == {p \in z.parents[x] : /\ p \in z.dag /\ p \notin d.already_ordered
                                              /\ Round(p) > z.lc[Author(p)]}
             step(S) == [buffer |-> Descending(S) \o Tail(d.buffer),
                         already_ordered |-> d.already_ordered \cup S,
                         ordered |-> Append(d.ordered, x)]
  <2>1. DfsStep(s, d) = step(next(s)) /\ DfsStep(t, d) = step(next(t))
    BY <1>2 DEF DfsStep
  <2>2. d.buffer \in Seq(s.dag) /\ d.buffer \in Seq(t.dag)
    BY DEF Searching
  <2>3. x \in s.dag /\ x \in t.dag
    BY <1>2, <2>2, SMT
  <2> HIDE DEF x, step
  <2>4. /\ s.lc = t.lc /\ s.parents = t.parents /\ Closed(s) /\ Closed(t)
        /\ s.parents \in Dags /\ s.dag \in SUBSET DOMAIN s.parents /\ s.lc \in LastCommits
    BY DEF SameCommits, Formed
  <2>5. ASSUME NEW p \in s.parents[x], Round(p) > s.lc[Author(p)]
        PROVE  p \in s.dag /\ p \in t.dag
    <3>1. x \in DOMAIN s.parents
      BY <2>3, <2>4
    <3>2. p \in DOMAIN s.parents
      BY <2>4, <3>1, DagFacts
    <3>3. Round(p) \in Nat /\ Author(p) \in Authorities
      BY <2>4, <3>2, DagFacts
    <3>4. ~ (Round(p) <= s.lc[Author(p)])
      BY <2>4, <2>5, <3>3, SMT DEF LastCommits
    <3> QED BY <2>3, <2>4, <3>4 DEF Closed
  <2>6. next(s) = next(t)
    BY <2>4, <2>5
  <2> QED BY <2>1, <2>6
<1> QED BY <1>1, <1>2

\* The search ends the same in two dags that are closed.
LEMMA SameSearch ==
  ASSUME Library, NEW s, NEW t, SameCommits(s, t), NEW c, c \in s.dag, c \in t.dag,
         Cardinality(s.dag) <= Cardinality(t.dag)
  PROVE  Search(t, c)[Cardinality(t.dag)] = Search(s, c)[Cardinality(s.dag)]
<1> USE Zenon
<1> DEFINE n == Cardinality(s.dag)
           m == Cardinality(t.dag)
           f == Search(s, c)
           g == Search(t, c)
           u(k) == IF k <= n THEN k ELSE n
           T == {k \in Nat : k <= m => g[k] = f[u(k)]}
<1>0. Formed(s) /\ Formed(t)
  BY DEF SameCommits
<1>1. n \in Nat /\ SearchRuns(f, s, c, n) /\ \A k \in 0..n : Searching(s, c, f[k])
  BY <1>0, SearchSteps
<1>2. m \in Nat /\ SearchRuns(g, t, c, m) /\ \A k \in 0..m : Searching(t, c, g[k])
  BY <1>0, SearchSteps
<1>3. f[n].buffer = <<>>
  BY <1>0, SearchEnds
<1>4. n <= m
  BY SMT
<1> HIDE DEF n, m, f, g
<1>5. f[0] = Start(c) /\ \A k \in 1..n : f[k] = DfsStep(s, f[k - 1])
  BY <1>1 DEF SearchRuns
<1>6. g[0] = Start(c) /\ \A k \in 1..m : g[k] = DfsStep(t, g[k - 1])
  BY <1>2 DEF SearchRuns
<1>7. 0 \in T
  BY <1>1, <1>5, <1>6, SMT
<1>8. ASSUME NEW k \in Nat, k \in T
      PROVE  k + 1 \in T
  <2> SUFFICES ASSUME k + 1 <= m PROVE g[k + 1] = f[u(k + 1)]
    BY SMT
  <2>1. k \in 0..m /\ k + 1 \in 1..m /\ (k + 1) - 1 = k /\ k <= m
    BY <1>2, SMT
  <2>2. g[k + 1] = DfsStep(t, g[k]) /\ g[k] = f[u(k)] /\ Searching(t, c, g[k])
    BY <1>2, <1>6, <1>8, <2>1
  <2>3. CASE k + 1 <= n
    <3>1. u(k) = k /\ u(k + 1) = k + 1 /\ k \in 0..n /\ k + 1 \in 1..n
      BY <1>1, <2>3, SMT
    <3>2. f[k + 1] = DfsStep(s, f[k]) /\ Searching(s, c, f[k])
      BY <1>1, <1>5, <2>1, <3>1
    <3>3. g[k] = f[k]
      BY <2>2, <3>1
    <3>4. DfsStep(s, f[k]) = DfsStep(t, f[k])
      <4>1. Searching(s, c, f[k]) /\ Searching(t, c, f[k])
        BY <2>2, <3>2, <3>3
      <4> QED BY <4>1, SameTurn, SMT
    <3> QED BY <2>2, <3>1, <3>2, <3>3, <3>4
  <2>4. CASE ~ (k + 1 <= n)
    <3>1. u(k) = n /\ u(k + 1) = n
      BY <1>1, <2>4, SMT
    <3>2. g[k] = f[n]
      BY <2>2, <3>1
    <3>3. DfsStep(t, f[n]) = f[n]
      BY <1>3 DEF DfsStep
    <3> QED BY <2>2, <3>1, <3>2, <3>3
  <2> QED BY <2>3, <2>4
<1>9. Nat \subseteq T
  <2> HIDE DEF T
  <2> QED BY <1>7, <1>8, SetInduction
<1>10. m <= m /\ u(m) = n
  BY <1>1, <1>2, <1>4, SMT
<1> HIDE DEF u
<1>11. g[m] = f[n]
  BY <1>2, <1>9, <1>10
<1> QED BY <1>11 DEF f, g, m, n

\* The order of a sub-dag depends on the last commits and the DAG, not on what
\* the validator has received.
LEMMA SameOrder ==
  ASSUME Library, NEW s, NEW t, SameCommits(s, t), NEW c, c \in s.dag, c \in t.dag
  PROVE  order_dag(s, c) = order_dag(t, c)
<1> USE Zenon
<1>0. Cardinality(s.dag) \in Nat /\ Cardinality(t.dag) \in Nat
  BY DEF Library, CardNat, SameCommits, Formed
<1>1. SameCommits(t, s) /\ s.lc = t.lc
  BY DEF SameCommits
<1>2. Search(s, c)[Cardinality(s.dag)] = Search(t, c)[Cardinality(t.dag)]
  <2>1. CASE Cardinality(s.dag) <= Cardinality(t.dag)
    BY <2>1, SameSearch
  <2>2. CASE Cardinality(t.dag) <= Cardinality(s.dag)
    BY <1>1, <2>2, SameSearch
  <2> QED BY <1>0, <2>1, <2>2, SMT
<1> QED BY <1>1, <1>2 DEF order_dag

-----------------------------------------------------------------------------
(* The inductive invariant, for one validator.                             *)

\* Nobody restarts and nothing is old enough to be garbage collected.
Calm == MaxRestarts = 0 /\ \A d \in Dags : \A c \in DOMAIN d : Round(c) <= GcDepth

\* A certificate that may be missing: at or below the last committed round, and
\* in calm runs at or below the last commit of its author.
Settled(lc, p) == IF Calm THEN Round(p) <= lc[Author(p)] ELSE Round(p) <= last_committed_round(lc)

State(P, lc, dg) == [lc |-> lc, dag |-> dg, parents |-> P]

IsLeader(P, m) == m \in DOMAIN P /\ Electable(m)

\* What is stored is in the dag, on its way to it, or settled, and so are the
\* parents of what is in the dag or on its way.
Held(P, lc, dg, ch, store) ==
  /\ store \in SUBSET DOMAIN P /\ IsFiniteSet(store) /\ dg \in SUBSET store /\ ch \in Seq(store)
  /\ \A c \in dg : Round(c) > lc[Author(c)]
  /\ \A c \in store : c \in dg \/ c \in Range(ch) \/ Settled(lc, c)
  /\ \A c \in store : \A p \in P[c] : p \in store \/ Settled(lc, p)
  /\ \A c \in dg : \A p \in P[c] : p \in dg \/ Settled(lc, p)
  /\ \A i \in DOMAIN ch : \A p \in P[ch[i]] :
       p \in dg \/ Settled(lc, p) \/ \E j \in DOMAIN ch : j < i /\ ch[j] = p

\* What is garbage collected is settled.
Collected(P, lc, gc) == gc \in Nat /\ \A p \in DOMAIN P : Round(p) <= gc => Settled(lc, p)

\* lc has the last committed round of each authority in the first n sub-dags.
Fits(lc, sd, n) ==
  /\ \A x \in Places(sd) : x[1] <= n => Round(At(sd, x)) <= lc[Author(At(sd, x))]
  /\ \A a \in Authorities : lc[a] # 0 =>
       \E x \in Places(sd) : x[1] <= n /\ Author(At(sd, x)) = a /\ Round(At(sd, x)) = lc[a]

LastLeaderRound(sd) == IF sd = <<>> THEN 0 ELSE Round(sd[Len(sd)].leader)

Once(sd) == \A x, y \in Places(sd) : At(sd, x) = At(sd, y) => x = y

Advance(sd) ==
  \A i \in DOMAIN sd :
    /\ sd[i].certificates # <<>>
    /\ sd[i].certificates[Len(sd[i].certificates)] = sd[i].leader
    /\ Round(sd[i].leader) % 2 = 0
    /\ i > 1 => Round(sd[i].leader) > Round(sd[i - 1].leader)

SubDags(P) == [leader : DOMAIN P, certificates : Seq(DOMAIN P)]

Committed(P, lc, sd) ==
  /\ lc \in LastCommits /\ sd \in Seq(SubDags(P))
  /\ Fits(lc, sd, Len(sd)) /\ last_committed_round(lc) = LastLeaderRound(sd)
  /\ Once(sd) /\ Advance(sd)

\* The elected leaders are in the dag, above the last commit, and their rounds
\* grow.
Waiting(lc, dg, tc) ==
  /\ tc \in Seq(dg)
  /\ \A i \in DOMAIN tc : Electable(tc[i]) /\ Round(tc[i]) > last_committed_round(lc)
  /\ \A i, j \in DOMAIN tc : i < j => Round(tc[i]) < Round(tc[j])

\* No leader above the elected ones has the support it needs.
NoneWaits(P, lc, dg, tc) ==
  \A c \in dg :
    (/\ Electable(c) /\ Round(c) > last_committed_round(lc)
     /\ tc # <<>> => Round(c) > Round(tc[Len(tc)]))
    => ~ IsValidity(Support(State(P, lc, dg), c))

Causal(P, sd) ==
  \A x \in Places(sd) : \A p \in P[At(sd, x)] :
    \E y \in Places(sd) : /\ Earlier(y, x)
                          /\ Author(At(sd, y)) = Author(p) /\ Round(At(sd, y)) >= Round(p)

\* The leaders committed and elected.
Leaders(sd, tc) ==
  [i \in 1..(Len(sd) + Len(tc)) |-> IF i <= Len(sd) THEN sd[i].leader ELSE tc[i - Len(sd)]]

\* Each of n leaders is the latest that the next one reaches, the first reaches
\* none.
Linked(P, L, n) ==
  /\ \A i \in 1..n : IsLeader(P, L[i])
  /\ \A i \in 1..n : i > 1 => linked(Whole(P), L[i], L[i - 1]) /\ Round(L[i - 1]) < Round(L[i])
  /\ \A i \in 1..n : \A m \in DOMAIN P :
       Electable(m) /\ Round(m) < Round(L[i]) /\ (i > 1 => Round(L[i - 1]) < Round(m))
         => ~ linked(Whole(P), L[i], m)

\* The leaders are linked and the last of them has the support it needs.
Elected(P, L, n) == Linked(P, L, n) /\ (n > 0 => IsValidity(Support(Whole(P), L[n])))

\* Each sub-dag is ordered from the last commits before it.
OrderedFrom(P, sd, i, lc, dg) ==
  /\ Fits(lc, sd, i - 1) /\ sd[i].leader \in dg
  /\ Formed(State(P, lc, dg)) /\ Closed(State(P, lc, dg))
  /\ sd[i].certificates = order_dag(State(P, lc, dg), sd[i].leader)

Ordered(P, sd) ==
  \A i \in DOMAIN sd : \E lc \in LastCommits, dg \in SUBSET DOMAIN P : OrderedFrom(P, sd, i, lc, dg)

\* What holds of a validator.
Sound(P, lc, dg, tc, ch, gc, store, sd) ==
  /\ Held(P, lc, dg, ch, store) /\ Collected(P, lc, gc)
  /\ Committed(P, lc, sd) /\ Waiting(lc, dg, tc)
  /\ MaxRestarts = 0 => NoneWaits(P, lc, dg, tc)
  /\ Calm => Causal(P, sd) /\ Ordered(P, sd) /\ Elected(P, Leaders(sd, tc), Len(sd) + Len(tc))

\* A commit settles certificates and unsettles none; all that is settled is at or
\* below the last committed round.
LEMMA SettledFacts ==
  ASSUME Library, NEW P \in Dags, NEW p \in DOMAIN P, NEW lc \in LastCommits
  PROVE  /\ Round(p) <= lc[Author(p)] => Settled(lc, p)
         /\ Settled(lc, p) => Round(p) <= last_committed_round(lc)
         /\ ~ Calm /\ Round(p) <= last_committed_round(lc) => Settled(lc, p)
         /\ Calm /\ Settled(lc, p) => Round(p) <= lc[Author(p)]
<1> USE Zenon
<1>1. Round(p) \in Nat /\ Author(p) \in Authorities
  BY DagFacts
<1>2. last_committed_round(lc) \in Nat /\ lc[Author(p)] <= last_committed_round(lc)
  BY <1>1, LastRound
<1>3. lc[Author(p)] \in Nat
  BY <1>1 DEF LastCommits
<1> QED BY <1>1, <1>2, <1>3, SMT DEF Settled

\* Later last commits.
LEMMA SettledStays ==
  ASSUME Library, NEW P \in Dags, NEW lc \in LastCommits, NEW ld \in LastCommits,
         \A a \in Authorities : lc[a] <= ld[a]
  PROVE  /\ last_committed_round(lc) <= last_committed_round(ld)
         /\ \A p \in DOMAIN P : Settled(lc, p) => Settled(ld, p)
<1> USE Zenon
<1> DEFINE b == last_committed_round(lc)
           e == last_committed_round(ld)
<1>1. b \in Nat /\ (b # 0 => \E a \in Authorities : lc[a] = b)
  BY LastRound
<1>2. e \in Nat /\ \A a \in Authorities : ld[a] <= e
  BY LastRound
<1>3. lc \in [Authorities -> Nat] /\ ld \in [Authorities -> Nat]
  BY DEF LastCommits
<1> HIDE DEF b, e
<1>4. b <= e
  <2>1. CASE b = 0
    BY <1>2, <2>1, SMT
  <2>2. CASE b # 0
    <3>1. PICK a \in Authorities : lc[a] = b
      BY <1>1, <2>2
    <3>2. ld[a] <= e /\ lc[a] <= ld[a] /\ ld[a] \in Nat
      BY <1>2, <1>3
    <3> QED BY <1>1, <1>2, <3>1, <3>2, SMT
  <2> QED BY <2>1, <2>2
<1>5. ASSUME NEW p \in DOMAIN P, Settled(lc, p)
      PROVE  Settled(ld, p)
  <2>1. Round(p) \in Nat /\ Author(p) \in Authorities
    BY DagFacts
  <2>2. lc[Author(p)] <= ld[Author(p)] /\ lc[Author(p)] \in Nat /\ ld[Author(p)] \in Nat
    BY <1>3, <2>1
  <2>3. CASE Calm
    <3>1. Round(p) <= lc[Author(p)]
      BY <1>5, <2>3 DEF Settled
    <3>2. Round(p) <= ld[Author(p)]
      BY <2>1, <2>2, <3>1, SMT
    <3> QED BY <2>3, <3>2 DEF Settled
  <2>4. CASE ~ Calm
    <3>1. Round(p) <= b
      BY <1>5, <2>4 DEF Settled, b
    <3>2. Round(p) <= e
      BY <1>1, <1>2, <1>4, <2>1, <3>1, SMT
    <3> QED BY <2>4, <3>2 DEF Settled, e
  <2> QED BY <2>3, <2>4
<1> QED BY <1>4, <1>5 DEF b, e

-----------------------------------------------------------------------------
(* What is held.                                                           *)

\* The Synchronizer accepts a certificate, and hands it over once or more.
LEMMA AcceptHeld ==
  ASSUME Library, NEW P \in Dags, NEW lc \in LastCommits, NEW dg, NEW ch, NEW store, NEW gc,
         Held(P, lc, dg, ch, store), Collected(P, lc, gc),
         NEW c \in DOMAIN P, Round(c) <= gc + 1 \/ P[c] \subseteq store, NEW n \in Nat, n >= 1
  PROVE  Held(P, lc, dg, ch \o [i \in 1..n |-> c], store \cup {c})
<1> USE Zenon
<1> DEFINE S == store \cup {c}
           r == [i \in 1..n |-> c]
           u == ch \o r
<1>1. /\ store \in SUBSET DOMAIN P /\ IsFiniteSet(store) /\ dg \in SUBSET store /\ ch \in Seq(store)
      /\ \A x \in dg : Round(x) > lc[Author(x)]
      /\ \A x \in store : x \in dg \/ x \in Range(ch) \/ Settled(lc, x)
      /\ \A x \in store : \A p \in P[x] : p \in store \/ Settled(lc, p)
      /\ \A x \in dg : \A p \in P[x] : p \in dg \/ Settled(lc, p)
  BY DEF Held
<1>2. \A i \in DOMAIN ch : \A p \in P[ch[i]] :
        p \in dg \/ Settled(lc, p) \/ \E j \in DOMAIN ch : j < i /\ ch[j] = p
  BY DEF Held
<1>3. r \in Seq(S) /\ Len(r) = n /\ \A i \in 1..n : r[i] = c
  BY SMT
<1>4. ch \in Seq(S) /\ Len(ch) \in Nat /\ DOMAIN ch = 1..Len(ch)
  BY <1>1, SMT
<1> HIDE DEF r
<1>5. Concatenation(S, ch, r)
  BY <1>3, <1>4, ConcatFacts
<1>6. /\ u \in Seq(S) /\ Len(u) = Len(ch) + n
      /\ \A i \in 1..Len(ch) : u[i] = ch[i]
      /\ \A i \in 1..n : u[Len(ch) + i] = r[i]
      /\ Range(u) = Range(ch) \cup Range(r)
  BY <1>3, <1>5 DEF Concatenation
<1> HIDE DEF u
<1>7. DOMAIN u = 1..(Len(ch) + n)
  BY <1>6, SMT
<1>8. c \in Range(u)
  <2>1. 1 \in DOMAIN r /\ r[1] = c
    BY <1>3, SMT
  <2> QED BY <1>6, <2>1 DEF Range
<1>9. \A p \in P[c] : p \in store \/ Settled(lc, p)
  <2> SUFFICES ASSUME NEW p \in P[c], p \notin store PROVE Settled(lc, p)
    BY SMT
  <2>1. Round(c) <= gc + 1
    BY SMT
  <2>2. p \in DOMAIN P /\ Round(p) + 1 = Round(c) /\ Round(c) \in Nat
    BY DagFacts
  <2>3. Round(p) \in Nat
    BY <2>2, DagFacts
  <2>4. gc \in Nat
    BY DEF Collected
  <2>5. Round(p) <= gc
    BY <2>1, <2>2, <2>3, <2>4, SMT
  <2> QED BY <2>2, <2>5 DEF Collected
<1>10. S \in SUBSET DOMAIN P /\ dg \in SUBSET S
  BY <1>1
<1>11. IsFiniteSet(S)
  BY <1>1 DEF Library, CardAdd
<1>12. \A x \in S : x \in dg \/ x \in Range(u) \/ Settled(lc, x)
  BY <1>1, <1>6, <1>8
<1>13. \A x \in S : \A p \in P[x] : p \in S \/ Settled(lc, p)
  BY <1>1, <1>9
<1>14. ASSUME NEW i \in DOMAIN u, NEW p \in P[u[i]], p \notin dg, ~ Settled(lc, p)
       PROVE  \E j \in DOMAIN u : j < i /\ u[j] = p
  <2>1. CASE i \in 1..Len(ch)
    <3>1. u[i] = ch[i] /\ i \in DOMAIN ch
      BY <1>4, <1>6, <2>1
    <3>2. PICK j \in DOMAIN ch : j < i /\ ch[j] = p
      BY <1>2, <1>14, <3>1
    <3>3. j \in DOMAIN u /\ u[j] = ch[j]
      BY <1>4, <1>6, <1>7, SMT
    <3> QED BY <3>2, <3>3
  <2>2. CASE i \notin 1..Len(ch)
    <3>1. i - Len(ch) \in 1..n /\ Len(ch) + (i - Len(ch)) = i
      BY <1>4, <1>7, <2>2, SMT
    <3>2. u[i] = c
      <4>1. u[Len(ch) + (i - Len(ch))] = c
        BY <1>3, <1>6, <3>1
      <4> QED BY <3>1, <4>1
    <3>3. p \in store
      BY <1>9, <1>14, <3>2
    <3>4. p \in Range(ch)
      BY <1>1, <1>14, <3>3
    <3>5. PICK j \in DOMAIN ch : ch[j] = p
      BY <3>4 DEF Range
    <3>6. j \in DOMAIN u /\ u[j] = ch[j] /\ j < i
      BY <1>4, <1>6, <1>7, <2>2, <3>1, SMT
    <3> QED BY <3>5, <3>6
  <2> QED BY <2>1, <2>2
<1>15. \A i \in DOMAIN u : \A p \in P[u[i]] :
         p \in dg \/ Settled(lc, p) \/ \E j \in DOMAIN u : j < i /\ u[j] = p
  BY <1>14
<1> HIDE DEF S
<1>16. Held(P, lc, dg, u, S)
  BY <1>1, <1>6, <1>10, <1>11, <1>12, <1>13, <1>15 DEF Held
<1> QED BY <1>16 DEF u, r, S

\* Consensus takes the first certificate of the channel.
LEMMA ProcessHeld ==
  ASSUME Library, NEW P \in Dags, NEW lc \in LastCommits, NEW dg, NEW ch, NEW store,
         Held(P, lc, dg, ch, store), ch # <<>>,
         NEW D, D = IF Round(Head(ch)) <= lc[Author(Head(ch))] THEN dg ELSE dg \cup {Head(ch)}
  PROVE  Held(P, lc, D, Tail(ch), store)
<1> USE Zenon
<1> DEFINE c == Head(ch)
           t == Tail(ch)
           n == Len(ch)
<1>1. /\ store \in SUBSET DOMAIN P /\ IsFiniteSet(store) /\ dg \in SUBSET store /\ ch \in Seq(store)
      /\ \A x \in dg : Round(x) > lc[Author(x)]
      /\ \A x \in store : x \in dg \/ x \in Range(ch) \/ Settled(lc, x)
      /\ \A x \in store : \A p \in P[x] : p \in store \/ Settled(lc, p)
      /\ \A x \in dg : \A p \in P[x] : p \in dg \/ Settled(lc, p)
  BY DEF Held
<1>2. \A i \in DOMAIN ch : \A p \in P[ch[i]] :
        p \in dg \/ Settled(lc, p) \/ \E j \in DOMAIN ch : j < i /\ ch[j] = p
  BY DEF Held
<1>3. n \in Nat /\ n >= 1 /\ DOMAIN ch = 1..n /\ c = ch[1] /\ 1 \in 1..n
  BY <1>1, SMT
<1>4. HeadAndTail(store, ch)
  BY <1>1, TailFacts
<1>5. /\ c \in store /\ t \in Seq(store) /\ Len(t) = n - 1
      /\ \A i \in 1..(n - 1) : t[i] = ch[i + 1]
      /\ Range(ch) = {c} \cup Range(t)
  BY <1>4 DEF HeadAndTail
<1> HIDE DEF c, t, n
<1>6. DOMAIN t = 1..(n - 1)
  BY <1>3, <1>5, SMT
<1>7. Round(c) \in Nat /\ Author(c) \in Authorities /\ lc[Author(c)] \in Nat
  <2>1. Round(c) \in Nat /\ Author(c) \in Authorities
    BY <1>1, <1>5, DagFacts
  <2> QED BY <2>1 DEF LastCommits
<1>8. D = IF Round(c) <= lc[Author(c)] THEN dg ELSE dg \cup {c}
  BY DEF c
<1>9. c \in D \/ Settled(lc, c)
  <2>1. Round(c) <= lc[Author(c)] => Settled(lc, c)
    BY <1>1, <1>5, SettledFacts
  <2> QED BY <1>8, <2>1
<1>10. D \in SUBSET store /\ dg \subseteq D /\ \A x \in D : x \in dg \/ x = c
  BY <1>1, <1>5, <1>8
<1>11. \A x \in D : Round(x) > lc[Author(x)]
  <2>1. ~ (Round(c) <= lc[Author(c)]) => Round(c) > lc[Author(c)]
    BY <1>7, SMT
  <2> QED BY <1>1, <1>8, <2>1
<1>12. \A x \in store : x \in D \/ x \in Range(t) \/ Settled(lc, x)
  BY <1>1, <1>5, <1>9, <1>10
<1>13. \A p \in P[c] : p \in dg \/ Settled(lc, p)
  <2> SUFFICES ASSUME NEW p \in P[c], p \notin dg, ~ Settled(lc, p) PROVE FALSE
    BY SMT
  <2>1. PICK j \in DOMAIN ch : j < 1 /\ ch[j] = p
    BY <1>2, <1>3
  <2> QED BY <1>3, <2>1, SMT
<1>14. \A x \in D : \A p \in P[x] : p \in D \/ Settled(lc, p)
  BY <1>1, <1>10, <1>13
<1>15. ASSUME NEW i \in DOMAIN t, NEW p \in P[t[i]], p \notin D, ~ Settled(lc, p)
       PROVE  \E j \in DOMAIN t : j < i /\ t[j] = p
  <2>1. t[i] = ch[i + 1] /\ i + 1 \in DOMAIN ch
    BY <1>3, <1>5, <1>6, SMT
  <2>2. p \notin dg
    BY <1>10, <1>15
  <2>3. PICK j \in DOMAIN ch : j < i + 1 /\ ch[j] = p
    BY <1>2, <1>15, <2>1, <2>2
  <2>4. p # c
    BY <1>9, <1>15
  <2>5. j # 1
    BY <1>3, <2>3, <2>4
  <2>6. j - 1 \in DOMAIN t /\ j - 1 < i /\ (j - 1) + 1 = j
    BY <1>3, <1>6, <2>3, <2>5, SMT
  <2>7. t[j - 1] = p
    BY <1>5, <1>6, <2>3, <2>6
  <2> QED BY <2>6, <2>7
<1>16. \A i \in DOMAIN t : \A p \in P[t[i]] :
         p \in D \/ Settled(lc, p) \/ \E j \in DOMAIN t : j < i /\ t[j] = p
  BY <1>15
<1>17. Held(P, lc, D, t, store)
  BY <1>1, <1>5, <1>10, <1>11, <1>12, <1>14, <1>16 DEF Held
<1> QED BY <1>17 DEF t

\* The dag is cut down to what is not settled.
LEMMA CutHeld ==
  ASSUME Library, NEW P \in Dags, NEW lc \in LastCommits, NEW dg, NEW ch, NEW store,
         Held(P, lc, dg, ch, store),
         NEW ld \in LastCommits, \A a \in Authorities : lc[a] <= ld[a],
         NEW D \in SUBSET dg, \A x \in D : Round(x) > ld[Author(x)],
         \A x \in dg : x \in D \/ Settled(ld, x)
  PROVE  Held(P, ld, D, ch, store)
<1> USE Zenon
<1>1. /\ store \in SUBSET DOMAIN P /\ IsFiniteSet(store) /\ dg \in SUBSET store /\ ch \in Seq(store)
      /\ \A x \in store : x \in dg \/ x \in Range(ch) \/ Settled(lc, x)
      /\ \A x \in store : \A p \in P[x] : p \in store \/ Settled(lc, p)
      /\ \A x \in dg : \A p \in P[x] : p \in dg \/ Settled(lc, p)
  BY DEF Held
<1>2. \A i \in DOMAIN ch : \A p \in P[ch[i]] :
        p \in dg \/ Settled(lc, p) \/ \E j \in DOMAIN ch : j < i /\ ch[j] = p
  BY DEF Held
<1>3. \A p \in DOMAIN P : Settled(lc, p) => Settled(ld, p)
  BY SettledStays
<1>4. \A x \in store : \A p \in P[x] : p \in DOMAIN P
  BY <1>1, DagFacts
<1>5. D \in SUBSET store
  BY <1>1
<1>6. \A x \in store : x \in D \/ x \in Range(ch) \/ Settled(ld, x)
  BY <1>1, <1>3
<1>7. \A x \in store : \A p \in P[x] : p \in store \/ Settled(ld, p)
  BY <1>1, <1>3, <1>4
<1>8. \A x \in D : \A p \in P[x] : p \in D \/ Settled(ld, p)
  BY <1>1, <1>3, <1>4
<1>9. \A i \in DOMAIN ch : ch[i] \in store
  BY <1>1, SMT
<1>10. ASSUME NEW i \in DOMAIN ch, NEW p \in P[ch[i]]
       PROVE  p \in D \/ Settled(ld, p) \/ \E j \in DOMAIN ch : j < i /\ ch[j] = p
  BY <1>2, <1>3, <1>4, <1>9
<1> QED BY <1>1, <1>5, <1>6, <1>7, <1>8, <1>10 DEF Held

\* A commit of the leader l, with the certificates o.
CommitsTo(lc, dg, l, o, ld, D) ==
  /\ ld \in LastCommits /\ \A a \in Authorities : lc[a] <= ld[a]
  /\ last_committed_round(ld) = Round(l)
  /\ \A c \in Range(o) : Round(c) <= ld[Author(c)]
  /\ \A a \in Authorities : ld[a] = lc[a] \/ \E c \in Range(o) : Author(c) = a /\ Round(c) = ld[a]
  /\ D \in SUBSET dg /\ \A x \in D : Round(x) > ld[Author(x)]
  /\ \A x \in dg : x \in D \/ Settled(ld, x)

\* A sequence has finitely many elements.
LEMMA RangeFinite ==
  ASSUME Library, NEW S, NEW q \in Seq(S)
  PROVE  IsFiniteSet(Range(q)) /\ Range(q) \in SUBSET S
<1>1. IsFiniteSet(1..Len(q)) /\ DOMAIN q = 1..Len(q)
  BY DEF Library, CardUpTo
<1>2. Range(q) = {q[i] : i \in 1..Len(q)}
  BY <1>1, Zenon DEF Range
<1>3. IsFiniteSet({q[i] : i \in 1..Len(q)})
  BY <1>1, ValuesFinite, Zenon
<1>4. Range(q) \in SUBSET S
  BY <1>1, <1>2
<1> QED BY <1>2, <1>3, <1>4, Zenon

\* The leader is the last of its sub-dag.
LEMMA LeaderIsLast ==
  ASSUME NEW s, NEW c, NEW o, SubDag(s, c, o), \A x \in s.dag : Round(x) \in Nat
  PROVE  Len(o) \in Nat /\ Len(o) \in DOMAIN o /\ o # <<>> /\ o[Len(o)] = c
<1> DEFINE n == Len(o)
<1>1. o \in Seq(s.dag) /\ ByRound(o) /\ c \in Range(o)
  BY Zenon DEF SubDag
<1>2. \A x \in Range(o) : x = c \/ (Round(x) < Round(c) /\ Round(x) > s.lc[Author(x)])
  BY Zenon DEF SubDag
<1>3. n \in Nat /\ DOMAIN o = 1..n
  BY <1>1
<1>4. PICK k \in 1..n : o[k] = c
  BY <1>1, <1>3, Zenon DEF Range
<1>5. n \in 1..n /\ k <= n
  BY <1>3
<1>6. Round(o[n]) \in Nat /\ Round(c) \in Nat
  BY <1>1, <1>4, <1>5
<1> HIDE DEF n
<1>7. ~ (Round(o[n]) < Round(c))
  <2>1. CASE k = n
    BY <1>4, <1>6, <2>1
  <2>2. CASE k # n
    <3>1. k < n
      BY <1>3, <1>5, <2>2
    <3>2. Round(o[k]) <= Round(o[n])
      BY <1>1, <1>3, <1>5, <3>1, Zenon DEF ByRound
    <3> QED BY <1>4, <1>6, <3>2
  <2> QED BY <2>1, <2>2, Zenon
<1>8. o[n] \in Range(o)
  BY <1>3, <1>5, Zenon DEF Range
<1>9. o[n] = c
  BY <1>2, <1>7, <1>8, Zenon
<1>10. o # <<>>
  BY <1>3, <1>5 DEF n
<1> QED BY <1>3, <1>5, <1>9, <1>10, Zenon DEF n

\* What update does for the certificates of a sub-dag.
LEMMA UpdateCommits ==
  ASSUME Library, NEW P \in Dags, NEW lc \in LastCommits, NEW dg \in SUBSET DOMAIN P,
         \A x \in dg : Round(x) > lc[Author(x)],
         NEW l \in DOMAIN P, Round(l) > last_committed_round(lc),
         NEW o, SubDag(State(P, lc, dg), l, o)
  PROVE  CommitsTo(lc, dg, l, o, update(State(P, lc, dg), Range(o)).lc,
                   update(State(P, lc, dg), Range(o)).dag)
<1> USE Zenon
<1> DEFINE s == State(P, lc, dg)
           R == Range(o)
           u == update(s, R)
           ld == u.lc
           D == u.dag
           e == last_committed_round(ld)
<1>0. s.lc = lc /\ s.dag = dg /\ s.parents = P
  BY DEF State
<1>1. o \in Seq(dg) /\ l \in R /\ \A x \in R : x = l \/ (Round(x) < Round(l) /\ Round(x) > lc[Author(x)])
  BY <1>0 DEF SubDag
<1>2. IsFiniteSet(R) /\ R \in SUBSET dg
  BY <1>1, RangeFinite
<1>3. \A c \in DOMAIN P : Author(c) \in Authorities /\ Round(c) \in Nat
  BY DagFacts
<1>a. D = {x \in dg : /\ Round(x) + GcDepth >= e
                      /\ \A c \in R : Author(c) = Author(x) => Round(x) > Round(c)}
  <2>1. D = {x \in s.dag : /\ Round(x) + GcDepth >= e
                           /\ \A c \in R : Author(c) = Author(x) => Round(x) > Round(c)}
    BY DEF update
  <2> QED BY <1>0, <2>1
<1> HIDE DEF s, R
<1>4. /\ ld \in LastCommits
      /\ \A a \in Authorities :
           /\ s.lc[a] <= ld[a]
           /\ ld[a] = s.lc[a] \/ \E c \in R : Author(c) = a /\ Round(c) = ld[a]
      /\ \A c \in R : Round(c) <= ld[Author(c)]
  <2>1. s.lc \in LastCommits /\ \A c \in R : Author(c) \in Authorities /\ Round(c) \in Nat
    BY <1>0, <1>2, <1>3
  <2> QED BY <1>2, <2>1, UpdateRounds
<1> HIDE DEF u, ld, D
<1>5. /\ e \in Nat /\ \A a \in Authorities : ld[a] <= e
      /\ e # 0 => \E a \in Authorities : ld[a] = e
  BY <1>4, LastRound
<1>6. /\ last_committed_round(lc) \in Nat
      /\ \A a \in Authorities : lc[a] <= last_committed_round(lc)
  BY LastRound
<1>t. lc \in [Authorities -> Nat] /\ ld \in [Authorities -> Nat]
  BY <1>4 DEF LastCommits
<1> HIDE DEF e
<1>7. e = Round(l)
  <2>1. Round(l) \in Nat /\ Author(l) \in Authorities
    BY <1>3
  <2>2. Round(l) <= ld[Author(l)] /\ ld[Author(l)] <= e /\ ld[Author(l)] \in Nat
    BY <1>1, <1>4, <1>5, <1>t, <2>1
  <2>3. Round(l) <= e /\ e # 0
    BY <1>5, <1>6, <2>1, <2>2, SMT
  <2>4. PICK a \in Authorities : ld[a] = e
    BY <1>5, <2>3
  <2>5. CASE ld[a] = s.lc[a]
    <3>1. e <= last_committed_round(lc)
      BY <1>0, <1>6, <2>4, <2>5
    <3> QED BY <1>5, <1>6, <2>1, <2>3, <3>1, SMT
  <2>6. CASE \E c \in R : Author(c) = a /\ Round(c) = ld[a]
    <3>1. PICK c \in R : Round(c) = e
      BY <2>4, <2>6
    <3>2. c = l \/ Round(c) < Round(l)
      BY <1>1
    <3> QED BY <1>5, <2>1, <2>3, <3>1, <3>2, SMT
  <2> QED BY <1>4, <2>5, <2>6
<1>8. ASSUME NEW x \in D
      PROVE  x \in dg /\ Round(x) > ld[Author(x)]
  <2>1. x \in dg /\ \A c \in R : Author(c) = Author(x) => Round(x) > Round(c)
    BY <1>a
  <2>2. Author(x) \in Authorities /\ Round(x) > lc[Author(x)]
    BY <1>3, <2>1
  <2>3. ld[Author(x)] = lc[Author(x)] \/ \E c \in R : Author(c) = Author(x) /\ Round(c) = ld[Author(x)]
    BY <1>0, <1>4, <2>2
  <2> QED BY <2>1, <2>2, <2>3
<1>9. ASSUME NEW x \in dg, x \notin D
      PROVE  Settled(ld, x)
  <2>1. /\ x \in DOMAIN P /\ Round(x) \in Nat /\ Author(x) \in Authorities /\ ld[Author(x)] \in Nat
        /\ GcDepth \in Nat
    BY <1>3, <1>t, BullsharkAssumption
  <2>2. \/ ~ (Round(x) + GcDepth >= e)
        \/ \E c \in R : Author(c) = Author(x) /\ ~ (Round(x) > Round(c))
    BY <1>9, <1>a
  <2>3. CASE ~ (Round(x) + GcDepth >= e)
    <3>1. Round(x) <= e /\ ~ (Round(l) <= GcDepth)
      BY <1>5, <1>7, <2>1, <2>3, SMT
    <3>2. ~ Calm
      BY <3>1 DEF Calm
    <3> QED BY <3>1, <3>2 DEF Settled, e
  <2>4. CASE \E c \in R : Author(c) = Author(x) /\ ~ (Round(x) > Round(c))
    <3>1. PICK c \in R : Author(c) = Author(x) /\ ~ (Round(x) > Round(c))
      BY <2>4
    <3>2. Round(c) <= ld[Author(x)] /\ Round(c) \in Nat
      BY <1>2, <1>3, <1>4, <3>1
    <3>3. Round(x) <= ld[Author(x)]
      BY <2>1, <3>1, <3>2, SMT
    <3> QED BY <1>4, <2>1, <3>3, SettledFacts
  <2> QED BY <2>2, <2>3, <2>4
<1>10. \A a \in Authorities : /\ lc[a] <= ld[a]
                              /\ ld[a] = lc[a] \/ \E c \in R : Author(c) = a /\ Round(c) = ld[a]
  BY <1>0, <1>4
<1>11. D \in SUBSET dg
  BY <1>8
<1>12. last_committed_round(ld) = Round(l)
  BY <1>7 DEF e
<1>13. CommitsTo(lc, dg, l, o, ld, D)
  BY <1>4, <1>8, <1>9, <1>10, <1>11, <1>12 DEF CommitsTo, R
<1> QED BY <1>13 DEF ld, D, u, s, R

-----------------------------------------------------------------------------
(* What is committed.                                                      *)

\* se is sd with one more sub-dag.
Longer(P, sd, se, l, o) ==
  /\ Len(sd) \in Nat /\ DOMAIN sd = 1..Len(sd)
  /\ se \in Seq(SubDags(P)) /\ Len(se) = Len(sd) + 1 /\ DOMAIN se = 1..(Len(sd) + 1)
  /\ \A i \in 1..Len(sd) : se[i] = sd[i]
  /\ se[Len(sd) + 1].leader = l /\ se[Len(sd) + 1].certificates = o
  /\ \A x \in Places(sd) : x \in Places(se) /\ At(se, x) = At(sd, x) /\ x[1] \in 1..Len(sd)
  /\ \A k \in DOMAIN o : /\ <<Len(sd) + 1, k>> \in Places(se)
                         /\ At(se, <<Len(sd) + 1, k>>) = o[k]
  /\ \A x \in Places(se) : x \in Places(sd) \/ \E k \in DOMAIN o : x = <<Len(sd) + 1, k>>

\* The places of the commit order.
LEMMA PlaceFacts ==
  ASSUME NEW sd
  PROVE  /\ \A x \in Places(sd) : /\ x[1] \in DOMAIN sd /\ x[2] \in DOMAIN sd[x[1]].certificates
                                  /\ x = <<x[1], x[2]>>
         /\ \A i \in DOMAIN sd : \A k \in DOMAIN sd[i].certificates : <<i, k>> \in Places(sd)
BY DEF Places

\* The commits of one more leader.
LEMMA CommitLengthens ==
  ASSUME NEW P, NEW sd \in Seq(SubDags(P)), NEW l \in DOMAIN P, NEW o \in Seq(DOMAIN P)
  PROVE  Longer(P, sd, Append(sd, [leader |-> l, certificates |-> o]), l, o)
<1> USE Zenon
<1> DEFINE w == [leader |-> l, certificates |-> o]
           se == Append(sd, w)
           n == Len(sd)
<1>1. w \in SubDags(P) /\ w.leader = l /\ w.certificates = o
  BY DEF SubDags
<1> HIDE DEF w
<1>2. Appended(SubDags(P), sd, w)
  BY <1>1, AppendFacts
<1>3. /\ se \in Seq(SubDags(P)) /\ Len(se) = n + 1 /\ \A i \in 1..n : se[i] = sd[i]
      /\ se[n + 1] = w
  BY <1>2 DEF Appended
<1>4. n \in Nat /\ DOMAIN sd = 1..n
  BY SMT
<1> HIDE DEF se, n
<1>5. DOMAIN se = 1..(n + 1)
  BY <1>3, SMT
<1>6. ASSUME NEW x \in Places(sd)
      PROVE  x \in Places(se) /\ At(se, x) = At(sd, x) /\ x[1] \in 1..n
  <2>1. x[1] \in 1..n /\ x[2] \in DOMAIN sd[x[1]].certificates /\ x = <<x[1], x[2]>>
    BY <1>4, PlaceFacts
  <2>2. se[x[1]] = sd[x[1]]
    BY <1>3, <2>1
  <2>3. x[1] \in DOMAIN se
    BY <1>4, <1>5, <2>1, SMT
  <2>4. <<x[1], x[2]>> \in Places(se)
    BY <2>1, <2>2, <2>3, PlaceFacts
  <2>5. At(se, x) = At(sd, x)
    BY <2>2 DEF At
  <2> QED BY <2>1, <2>4, <2>5
<1>7. ASSUME NEW k \in DOMAIN o
      PROVE  <<n + 1, k>> \in Places(se) /\ At(se, <<n + 1, k>>) = o[k]
  <2>1. n + 1 \in DOMAIN se
    BY <1>4, <1>5, SMT
  <2>2. se[n + 1].certificates = o
    BY <1>1, <1>3
  <2>3. <<n + 1, k>> \in Places(se)
    BY <2>1, <2>2, PlaceFacts
  <2> QED BY <2>2, <2>3 DEF At
<1>8. ASSUME NEW x \in Places(se)
      PROVE  x \in Places(sd) \/ \E k \in DOMAIN o : x = <<n + 1, k>>
  <2>1. x[1] \in 1..(n + 1) /\ x[2] \in DOMAIN se[x[1]].certificates /\ x = <<x[1], x[2]>>
    BY <1>5, PlaceFacts
  <2>2. CASE x[1] = n + 1
    BY <1>1, <1>3, <2>1, <2>2
  <2>3. CASE x[1] # n + 1
    <3>1. x[1] \in 1..n
      BY <1>4, <2>1, <2>3, SMT
    <3>2. se[x[1]] = sd[x[1]]
      BY <1>3, <3>1
    <3>3. <<x[1], x[2]>> \in Places(sd)
      BY <1>4, <2>1, <3>1, <3>2, PlaceFacts
    <3> QED BY <2>1, <3>3
  <2> QED BY <2>2, <2>3
<1>9. se[n + 1].leader = l /\ se[n + 1].certificates = o
  BY <1>1, <1>3
<1>10. Longer(P, sd, se, l, o)
  BY <1>3, <1>4, <1>5, <1>6, <1>7, <1>8, <1>9 DEF Longer, n
<1> QED BY <1>10 DEF se, w

\* The commits of the first sub-dags stay.
LEMMA FitsStays ==
  ASSUME NEW P, NEW sd, NEW se, NEW l, NEW o, Longer(P, sd, se, l, o),
         NEW lc, NEW n \in Nat, n <= Len(sd), Fits(lc, sd, n)
  PROVE  Fits(lc, se, n)
<1> USE Zenon
<1>1. /\ \A x \in Places(sd) : x[1] <= n => Round(At(sd, x)) <= lc[Author(At(sd, x))]
      /\ \A a \in Authorities : lc[a] # 0 =>
           \E x \in Places(sd) : x[1] <= n /\ Author(At(sd, x)) = a /\ Round(At(sd, x)) = lc[a]
  BY DEF Fits
<1>2. /\ Len(sd) \in Nat
      /\ \A x \in Places(sd) : x \in Places(se) /\ At(se, x) = At(sd, x) /\ x[1] \in 1..Len(sd)
      /\ \A x \in Places(se) : x \in Places(sd) \/ \E k \in DOMAIN o : x = <<Len(sd) + 1, k>>
  BY DEF Longer
<1>3. ASSUME NEW x \in Places(se), x[1] <= n
      PROVE  Round(At(se, x)) <= lc[Author(At(se, x))]
  <2>1. x \in Places(sd)
    BY <1>2, <1>3, SMT
  <2>2. At(se, x) = At(sd, x)
    BY <1>2, <2>1
  <2> QED BY <1>1, <1>3, <2>1, <2>2
<1>4. ASSUME NEW a \in Authorities, lc[a] # 0
      PROVE  \E x \in Places(se) : x[1] <= n /\ Author(At(se, x)) = a /\ Round(At(se, x)) = lc[a]
  <2>1. PICK x \in Places(sd) : x[1] <= n /\ Author(At(sd, x)) = a /\ Round(At(sd, x)) = lc[a]
    BY <1>1, <1>4
  <2>2. x \in Places(se) /\ At(se, x) = At(sd, x)
    BY <1>2
  <2> QED BY <2>1, <2>2
<1> QED BY <1>3, <1>4 DEF Fits

\* A leader is committed.
CommitStep(P, lc, dg, l, o, ld, D, sd, se) ==
  /\ lc \in LastCommits /\ dg \in SUBSET DOMAIN P /\ \A x \in dg : Round(x) > lc[Author(x)]
  /\ l \in dg /\ Electable(l) /\ Round(l) > last_committed_round(lc)
  /\ SubDag(State(P, lc, dg), l, o) /\ CommitsTo(lc, dg, l, o, ld, D) /\ Longer(P, sd, se, l, o)

\* The commits fit the last commits, none is a second one, and leaders advance.
LEMMA CommitCommitted ==
  ASSUME NEW P \in Dags, NEW lc, NEW dg, NEW l, NEW o, NEW ld, NEW D, NEW sd, NEW se,
         CommitStep(P, lc, dg, l, o, ld, D, sd, se), Committed(P, lc, sd)
  PROVE  Committed(P, ld, se)
<1> USE Zenon
<1> DEFINE n == Len(sd)
<1>1. /\ lc \in LastCommits /\ dg \in SUBSET DOMAIN P /\ \A x \in dg : Round(x) > lc[Author(x)]
      /\ l \in dg /\ Electable(l) /\ Round(l) > last_committed_round(lc)
      /\ SubDag(State(P, lc, dg), l, o) /\ CommitsTo(lc, dg, l, o, ld, D) /\ Longer(P, sd, se, l, o)
  BY DEF CommitStep
<1>2. o \in Seq(dg) /\ Distinct(o)
  <2>1. State(P, lc, dg).dag = dg
    BY DEF State
  <2> QED BY <1>1, <2>1 DEF SubDag
<1>3. /\ ld \in LastCommits /\ \A a \in Authorities : lc[a] <= ld[a]
      /\ last_committed_round(ld) = Round(l)
      /\ \A c \in Range(o) : Round(c) <= ld[Author(c)]
      /\ \A a \in Authorities : ld[a] = lc[a] \/ \E c \in Range(o) : Author(c) = a /\ Round(c) = ld[a]
  BY <1>1 DEF CommitsTo
<1>4. /\ n \in Nat /\ DOMAIN sd = 1..n
      /\ se \in Seq(SubDags(P)) /\ Len(se) = n + 1 /\ DOMAIN se = 1..(n + 1)
      /\ \A i \in 1..n : se[i] = sd[i]
      /\ se[n + 1].leader = l /\ se[n + 1].certificates = o
      /\ \A x \in Places(sd) : x \in Places(se) /\ At(se, x) = At(sd, x) /\ x[1] \in 1..n
      /\ \A k \in DOMAIN o : <<n + 1, k>> \in Places(se) /\ At(se, <<n + 1, k>>) = o[k]
      /\ \A x \in Places(se) : x \in Places(sd) \/ \E k \in DOMAIN o : x = <<n + 1, k>>
  BY <1>1 DEF Longer
<1>5. /\ Fits(lc, sd, n) /\ last_committed_round(lc) = LastLeaderRound(sd) /\ Once(sd) /\ Advance(sd)
      /\ sd \in Seq(SubDags(P))
  BY DEF Committed
<1>6. \A c \in DOMAIN P : Author(c) \in Authorities /\ Round(c) \in Nat
  BY DagFacts
<1>7. lc \in [Authorities -> Nat] /\ ld \in [Authorities -> Nat]
  BY <1>1, <1>3 DEF LastCommits
<1> HIDE DEF n
<1>8. \A k \in DOMAIN o : o[k] \in dg /\ o[k] \in Range(o)
  BY <1>2, SMT DEF Range
<1>9. ASSUME NEW x \in Places(sd)
      PROVE  /\ At(sd, x) \in DOMAIN P /\ Round(At(sd, x)) <= lc[Author(At(sd, x))]
             /\ x[1] <= n
  <2>1. x[1] \in 1..n /\ x[2] \in DOMAIN sd[x[1]].certificates
    BY <1>4, PlaceFacts
  <2>2. sd[x[1]].certificates \in Seq(DOMAIN P)
    <3>1. \A i \in 1..Len(sd) : sd[i] \in SubDags(P)
      BY <1>5, SMT
    <3>2. sd[x[1]] \in SubDags(P)
      BY <2>1, <3>1 DEF n
    <3> QED BY <3>2 DEF SubDags
  <2>3. At(sd, x) \in DOMAIN P
    BY <2>1, <2>2, SMT DEF At
  <2>4. x[1] <= n
    BY <1>4, <2>1, SMT
  <2> QED BY <1>5, <2>3, <2>4 DEF Fits
<1>10. Fits(ld, se, n + 1)
  <2>1. ASSUME NEW x \in Places(se)
        PROVE  Round(At(se, x)) <= ld[Author(At(se, x))]
    <3>1. CASE x \in Places(sd)
      <4>1. At(se, x) = At(sd, x) /\ At(sd, x) \in DOMAIN P /\ Round(At(sd, x)) <= lc[Author(At(sd, x))]
        BY <1>4, <1>9, <3>1
      <4> DEFINE y == At(sd, x)
      <4> HIDE DEF y
      <4>2. y \in DOMAIN P /\ Round(y) <= lc[Author(y)] /\ At(se, x) = y
        BY <4>1 DEF y
      <4>3. /\ Author(y) \in Authorities /\ Round(y) \in Nat
            /\ lc[Author(y)] \in Nat /\ ld[Author(y)] \in Nat /\ lc[Author(y)] <= ld[Author(y)]
        BY <1>3, <1>6, <1>7, <4>2
      <4>4. Round(y) <= ld[Author(y)]
        BY <4>2, <4>3, SMT
      <4> QED BY <4>2, <4>4
    <3>2. CASE \E k \in DOMAIN o : x = <<n + 1, k>>
      <4>1. PICK k \in DOMAIN o : x = <<n + 1, k>>
        BY <3>2
      <4>2. At(se, x) = o[k]
        BY <1>4, <4>1
      <4> QED BY <1>3, <1>8, <4>2
    <3> QED BY <1>4, <3>1, <3>2
  <2>2. ASSUME NEW a \in Authorities, ld[a] # 0
        PROVE  \E x \in Places(se) : x[1] <= n + 1 /\ Author(At(se, x)) = a /\ Round(At(se, x)) = ld[a]
    <3>1. CASE ld[a] = lc[a]
      <4>1. PICK x \in Places(sd) : x[1] <= n /\ Author(At(sd, x)) = a /\ Round(At(sd, x)) = lc[a]
        BY <1>5, <2>2, <3>1 DEF Fits
      <4>2. x[1] <= n + 1
        BY <1>4, <4>1, SMT
      <4> QED BY <1>4, <3>1, <4>1, <4>2
    <3>2. CASE \E c \in Range(o) : Author(c) = a /\ Round(c) = ld[a]
      <4>1. PICK k \in DOMAIN o : Author(o[k]) = a /\ Round(o[k]) = ld[a]
        BY <3>2 DEF Range
      <4> DEFINE x == <<n + 1, k>>
      <4>2. x \in Places(se) /\ At(se, x) = o[k]
        BY <1>4
      <4>3. x[1] <= n + 1
        BY <1>4, SMT
      <4> HIDE DEF x
      <4> QED BY <4>1, <4>2, <4>3
    <3> QED BY <1>3, <3>1, <3>2
  <2> QED BY <2>1, <2>2 DEF Fits
<1>11. LastLeaderRound(se) = Round(l)
  BY <1>4, SMT DEF LastLeaderRound
<1>12. Once(se)
  <2>1. ASSUME NEW x \in Places(sd), NEW k \in DOMAIN o
        PROVE  At(sd, x) # o[k]
    <3> DEFINE y == At(sd, x)
               z == o[k]
    <3>1. y \in DOMAIN P /\ Round(y) <= lc[Author(y)] /\ z \in dg
      BY <1>8, <1>9
    <3> HIDE DEF y, z
    <3>2. Round(z) > lc[Author(z)] /\ Author(y) \in Authorities /\ Round(y) \in Nat
      BY <1>1, <1>6, <3>1
    <3>3. lc[Author(y)] \in Nat
      BY <1>7, <3>2
    <3>4. y # z
      BY <3>1, <3>2, <3>3, SMT
    <3> QED BY <3>4 DEF y, z
  <2>2. ASSUME NEW x \in Places(se), NEW y \in Places(se), At(se, x) = At(se, y)
        PROVE  x = y
    <3>1. CASE x \in Places(sd) /\ y \in Places(sd)
      BY <1>4, <1>5, <2>2, <3>1 DEF Once
    <3>2. CASE x \in Places(sd) /\ \E k \in DOMAIN o : y = <<n + 1, k>>
      <4>1. PICK k \in DOMAIN o : y = <<n + 1, k>>
        BY <3>2
      <4>2. At(se, y) = o[k] /\ At(se, x) = At(sd, x)
        BY <1>4, <3>2, <4>1
      <4> QED BY <2>1, <2>2, <3>2, <4>2
    <3>3. CASE y \in Places(sd) /\ \E k \in DOMAIN o : x = <<n + 1, k>>
      <4>1. PICK k \in DOMAIN o : x = <<n + 1, k>>
        BY <3>3
      <4>2. At(se, x) = o[k] /\ At(se, y) = At(sd, y)
        BY <1>4, <3>3, <4>1
      <4> QED BY <2>1, <2>2, <3>3, <4>2
    <3>4. CASE (\E k \in DOMAIN o : x = <<n + 1, k>>) /\ (\E k \in DOMAIN o : y = <<n + 1, k>>)
      <4>1. PICK j \in DOMAIN o : x = <<n + 1, j>>
        BY <3>4
      <4>2. PICK k \in DOMAIN o : y = <<n + 1, k>>
        BY <3>4
      <4>3. o[j] = o[k]
        BY <1>4, <2>2, <4>1, <4>2
      <4>4. j = k
        BY <1>2, <4>3 DEF Distinct
      <4> QED BY <4>1, <4>2, <4>4
    <3> QED BY <1>4, <3>1, <3>2, <3>3, <3>4
  <2> QED BY <2>2 DEF Once
<1>13. Advance(se)
  <2>1. State(P, lc, dg).dag = dg
    BY DEF State
  <2>2. \A x \in State(P, lc, dg).dag : Round(x) \in Nat
    BY <1>1, <1>6, <2>1
  <2>3. Len(o) \in Nat /\ Len(o) \in DOMAIN o /\ o # <<>> /\ o[Len(o)] = l
    BY <1>1, <2>2, LeaderIsLast
  <2>4. Round(l) % 2 = 0
    BY <1>1 DEF Electable
  <2>5. ASSUME NEW i \in 1..(n + 1)
        PROVE  /\ se[i].certificates # <<>>
               /\ se[i].certificates[Len(se[i].certificates)] = se[i].leader
               /\ Round(se[i].leader) % 2 = 0
               /\ i > 1 => Round(se[i].leader) > Round(se[i - 1].leader)
    <3>1. CASE i = n + 1
      <4>1. ASSUME i > 1
            PROVE  Round(l) > Round(se[i - 1].leader)
        <5>1. n \in 1..n /\ i - 1 = n
          BY <1>4, <3>1, <4>1, SMT
        <5>2. sd # <<>>
          BY <1>4, <5>1, SMT
        <5>3. LastLeaderRound(sd) = Round(sd[n].leader)
          BY <5>2 DEF LastLeaderRound, n
        <5>4. se[n] = sd[n]
          BY <1>4, <5>1
        <5> QED BY <1>1, <1>5, <5>1, <5>3, <5>4
      <4> QED BY <1>4, <2>3, <2>4, <3>1, <4>1
    <3>2. CASE i # n + 1
      <4>1. i \in 1..n /\ (i > 1 => i - 1 \in 1..n)
        BY <1>4, <3>2, SMT
      <4>2. se[i] = sd[i] /\ (i > 1 => se[i - 1] = sd[i - 1])
        BY <1>4, <4>1
      <4>3. /\ sd[i].certificates # <<>>
            /\ sd[i].certificates[Len(sd[i].certificates)] = sd[i].leader
            /\ Round(sd[i].leader) % 2 = 0
            /\ i > 1 => Round(sd[i].leader) > Round(sd[i - 1].leader)
        BY <1>4, <1>5, <4>1 DEF Advance
      <4> QED BY <4>2, <4>3
    <3> QED BY <3>1, <3>2
  <2> QED BY <1>4, <2>5 DEF Advance
<1> QED BY <1>3, <1>4, <1>10, <1>11, <1>12, <1>13 DEF Committed

\* In calm runs a certificate follows its parents, or later ones of their authors.
LEMMA CommitCausal ==
  ASSUME Library, NEW P \in Dags, NEW lc, NEW dg, NEW l, NEW o, NEW ld, NEW D, NEW sd, NEW se,
         CommitStep(P, lc, dg, l, o, ld, D, sd, se), Committed(P, lc, sd), Calm,
         \A x \in dg : \A p \in P[x] : p \in dg \/ Settled(lc, p), Causal(P, sd)
  PROVE  Causal(P, se)
<1> USE Zenon
<1> DEFINE n == Len(sd)
           s == State(P, lc, dg)
<1>1. /\ lc \in LastCommits /\ dg \in SUBSET DOMAIN P /\ \A x \in dg : Round(x) > lc[Author(x)]
      /\ l \in dg /\ Round(l) > last_committed_round(lc)
      /\ SubDag(s, l, o) /\ Longer(P, sd, se, l, o)
  BY DEF CommitStep
<1>2. s.dag = dg /\ s.lc = lc /\ s.parents = P
  BY DEF State
<1> HIDE DEF s
<1>3. /\ o \in Seq(dg) /\ ByRound(o)
      /\ \A x \in Range(o) : \A p \in Eligible(s, x) :
           Round(p) + GcDepth >= last_committed_round(lc) => p \in Range(o)
  BY <1>1, <1>2 DEF SubDag
<1>4. /\ n \in Nat
      /\ \A x \in Places(sd) : x \in Places(se) /\ At(se, x) = At(sd, x) /\ x[1] \in 1..n
      /\ \A k \in DOMAIN o : <<n + 1, k>> \in Places(se) /\ At(se, <<n + 1, k>>) = o[k]
      /\ \A x \in Places(se) : x \in Places(sd) \/ \E k \in DOMAIN o : x = <<n + 1, k>>
  BY <1>1 DEF Longer
<1>5. Fits(lc, sd, n)
  BY DEF Committed
<1>6. \A c \in DOMAIN P : Author(c) \in Authorities /\ Round(c) \in Nat /\ Round(c) > 0
  BY DagFacts
<1>7. lc \in [Authorities -> Nat]
  BY <1>1 DEF LastCommits
<1>8. Round(l) <= GcDepth /\ GcDepth \in Nat
  <2>1. Round(l) <= GcDepth
    BY <1>1 DEF Calm
  <2> QED BY <2>1, BullsharkAssumption
<1>9. last_committed_round(lc) \in Nat
  BY <1>1, LastRound
<1> HIDE DEF n
<1>10. o \in Seq(dg) /\ DOMAIN o = 1..Len(o) /\ Len(o) \in Nat
  <2>1. o \in Seq(dg)
    BY <1>3
  <2> QED BY <2>1, SMT
<1>11. n \in Nat
  BY <1>4
<1>12. ASSUME NEW x \in Places(sd), NEW p \in P[At(se, x)]
       PROVE  \E y \in Places(se) : /\ Earlier(y, x)
                                    /\ Author(At(se, y)) = Author(p) /\ Round(At(se, y)) >= Round(p)
  <2>1. p \in P[At(sd, x)]
    BY <1>4, <1>12
  <2>2. PICK y \in Places(sd) : /\ Earlier(y, x)
                                /\ Author(At(sd, y)) = Author(p) /\ Round(At(sd, y)) >= Round(p)
    BY <2>1 DEF Causal
  <2> QED BY <1>4, <2>2
<1>13. ASSUME NEW k \in DOMAIN o, NEW p \in P[o[k]]
       PROVE  \E y \in Places(se) : /\ Earlier(y, <<n + 1, k>>)
                                    /\ Author(At(se, y)) = Author(p) /\ Round(At(se, y)) >= Round(p)
  <2>1. o[k] \in dg /\ o[k] \in Range(o)
    BY <1>10, SMT DEF Range
  <2>2. o[k] \in DOMAIN P
    BY <1>1, <2>1
  <2>3. p \in DOMAIN P /\ Round(p) + 1 = Round(o[k])
    BY <2>2, <1>13, DagFacts
  <2>4. Author(p) \in Authorities /\ Round(p) \in Nat /\ Round(p) > 0 /\ Round(o[k]) \in Nat
    BY <1>6, <2>2, <2>3
  <2>5. CASE p \in dg
    <3>1. p \in Eligible(s, o[k])
      BY <1>1, <1>2, <1>13, <2>5 DEF Eligible
    <3>2. Round(l) \in Nat
      BY <1>1, <1>6
    <3>3. Round(p) + GcDepth >= last_committed_round(lc)
      BY <1>1, <1>8, <1>9, <2>4, <3>2, SMT
    <3>4. p \in Range(o)
      BY <1>3, <2>1, <3>1, <3>3
    <3>5. PICK j \in DOMAIN o : o[j] = p
      BY <3>4 DEF Range
    <3>6. ~ (Round(o[k]) <= Round(o[j])) /\ j # k
      BY <2>3, <2>4, <3>5, SMT
    <3>7. DOMAIN o \in SUBSET Nat
      BY <1>10, SMT
    <3>8. j < k
      <4>1. ~ (k < j)
        BY <1>3, <3>6 DEF ByRound
      <4> QED BY <3>6, <3>7, <4>1, SMT
    <3> DEFINE y == <<n + 1, j>>
    <3>9. Earlier(y, <<n + 1, k>>)
      BY <3>8 DEF Earlier
    <3>10. y \in Places(se) /\ At(se, y) = p
      BY <1>4, <3>5
    <3>11. Round(p) >= Round(p)
      BY <2>4, SMT
    <3> HIDE DEF y
    <3> QED BY <3>9, <3>10, <3>11
  <2>6. CASE Settled(lc, p)
    <3>1. Round(p) <= lc[Author(p)]
      BY <2>6 DEF Settled
    <3>2. lc[Author(p)] \in Nat
      BY <1>7, <2>4
    <3>3. lc[Author(p)] # 0 /\ lc[Author(p)] >= Round(p)
      BY <2>4, <3>1, <3>2, SMT
    <3>4. PICK y \in Places(sd) : /\ y[1] <= n /\ Author(At(sd, y)) = Author(p)
                                  /\ Round(At(sd, y)) = lc[Author(p)]
      BY <1>5, <2>4, <3>3 DEF Fits
    <3>5. y[1] \in 1..n
      BY <1>4
    <3>6. y[1] < n + 1
      BY <1>11, <3>5, SMT
    <3>7. Earlier(y, <<n + 1, k>>)
      BY <3>6 DEF Earlier
    <3>8. y \in Places(se) /\ Author(At(se, y)) = Author(p) /\ Round(At(se, y)) >= Round(p)
      BY <1>4, <3>3, <3>4
    <3> QED BY <3>7, <3>8
  <2> QED BY <2>1, <2>5, <2>6, <1>13
<1>14. ASSUME NEW x \in Places(se), NEW p \in P[At(se, x)]
       PROVE  \E y \in Places(se) : /\ Earlier(y, x)
                                    /\ Author(At(se, y)) = Author(p) /\ Round(At(se, y)) >= Round(p)
  <2>1. CASE x \in Places(sd)
    BY <1>12, <2>1, <1>14
  <2>2. CASE \E k \in DOMAIN o : x = <<n + 1, k>>
    <3>1. PICK k \in DOMAIN o : x = <<n + 1, k>>
      BY <2>2
    <3>2. At(se, x) = o[k]
      BY <1>4, <3>1
    <3>3. p \in P[o[k]]
      BY <1>14, <3>2
    <3> QED BY <1>13, <3>1, <3>3
  <2> QED BY <1>4, <2>1, <2>2
<1> QED BY <1>14 DEF Causal

\* In calm runs each sub-dag is ordered from the commits before it.
LEMMA CommitOrdered ==
  ASSUME NEW P \in Dags, NEW lc, NEW dg, NEW l, NEW o, NEW ld, NEW D, NEW sd, NEW se,
         CommitStep(P, lc, dg, l, o, ld, D, sd, se), Committed(P, lc, sd),
         Formed(State(P, lc, dg)), Closed(State(P, lc, dg)), o = order_dag(State(P, lc, dg), l),
         Ordered(P, sd)
  PROVE  Ordered(P, se)
<1> USE Zenon
<1> DEFINE n == Len(sd)
<1>1. lc \in LastCommits /\ dg \in SUBSET DOMAIN P /\ l \in dg /\ Longer(P, sd, se, l, o)
  BY DEF CommitStep
<1>2. /\ n \in Nat /\ DOMAIN sd = 1..n /\ DOMAIN se = 1..(n + 1)
      /\ \A i \in 1..n : se[i] = sd[i]
      /\ se[n + 1].leader = l /\ se[n + 1].certificates = o
  BY <1>1 DEF Longer
<1>3. Fits(lc, sd, n)
  BY DEF Committed
<1>4. Fits(lc, se, n)
  <2>1. n <= Len(sd)
    BY <1>2, SMT
  <2> QED BY <1>1, <1>2, <1>3, <2>1, FitsStays
<1>5. ASSUME NEW i \in 1..n
      PROVE  \E lb \in LastCommits, db \in SUBSET DOMAIN P : OrderedFrom(P, se, i, lb, db)
  <2>1. PICK lb \in LastCommits, db \in SUBSET DOMAIN P : OrderedFrom(P, sd, i, lb, db)
    BY <1>2 DEF Ordered
  <2>2. /\ Fits(lb, sd, i - 1) /\ sd[i].leader \in db
        /\ Formed(State(P, lb, db)) /\ Closed(State(P, lb, db))
        /\ sd[i].certificates = order_dag(State(P, lb, db), sd[i].leader)
    BY <2>1 DEF OrderedFrom
  <2>3. i - 1 \in Nat /\ i - 1 <= Len(sd)
    BY <1>2, SMT
  <2>4. Fits(lb, se, i - 1)
    BY <1>1, <2>2, <2>3, FitsStays
  <2>5. se[i] = sd[i]
    BY <1>2
  <2> QED BY <2>2, <2>4, <2>5 DEF OrderedFrom
<1>6. OrderedFrom(P, se, n + 1, lc, dg)
  <2>1. (n + 1) - 1 = n
    BY <1>2, SMT
  <2> QED BY <1>1, <1>2, <1>4, <2>1 DEF OrderedFrom
<1>7. \A i \in DOMAIN se : i \in 1..n \/ i = n + 1
  BY <1>2, SMT
<1> HIDE DEF n
<1> QED BY <1>1, <1>5, <1>6, <1>7 DEF Ordered

\* The leaders that are left are above the one committed.
LEMMA CommitWaiting ==
  ASSUME Library, NEW P \in Dags, NEW lc, NEW dg, NEW l, NEW o, NEW ld, NEW D, NEW sd, NEW se,
         CommitStep(P, lc, dg, l, o, ld, D, sd, se),
         NEW tc, tc # <<>>, l = Head(tc), Waiting(lc, dg, tc)
  PROVE  Waiting(ld, D, Tail(tc))
<1> USE Zenon
<1> DEFINE t == Tail(tc)
<1>1. /\ dg \in SUBSET DOMAIN P /\ ld \in LastCommits /\ last_committed_round(ld) = Round(l)
      /\ \A x \in dg : x \in D \/ Settled(ld, x)
  BY DEF CommitStep, CommitsTo
<1>2. /\ tc \in Seq(dg)
      /\ \A i \in DOMAIN tc : Electable(tc[i])
      /\ \A i, j \in DOMAIN tc : i < j => Round(tc[i]) < Round(tc[j])
  BY DEF Waiting
<1>3. t \in Seq(dg) /\ Len(t) = Len(tc) - 1 /\ \A i \in 1..(Len(tc) - 1) : t[i] = tc[i + 1]
  BY <1>2, TailFacts DEF HeadAndTail
<1>4. Len(tc) \in Nat /\ DOMAIN tc = 1..Len(tc) /\ Len(tc) > 0 /\ l = tc[1]
  BY <1>2, SMT
<1> HIDE DEF t
<1>5. DOMAIN t = 1..(Len(tc) - 1)
  BY <1>3, SMT
<1>6. ASSUME NEW i \in 1..(Len(tc) - 1)
      PROVE  t[i] \in D /\ Electable(t[i]) /\ Round(t[i]) > Round(l)
  <2>1. i + 1 \in 1..Len(tc) /\ 1 \in 1..Len(tc) /\ 1 < i + 1
    BY <1>4, SMT
  <2>2. t[i] = tc[i + 1] /\ Electable(tc[i + 1]) /\ Round(tc[1]) < Round(tc[i + 1])
    BY <1>2, <1>3, <1>4, <2>1
  <2>3. tc[i + 1] \in dg
    BY <1>2, <2>1, SMT
  <2>4. t[i] \in DOMAIN P /\ Round(t[i]) \in Nat /\ Round(l) \in Nat
    <3>1. tc[1] \in dg
      BY <1>2, <2>1, SMT
    <3>2. t[i] \in DOMAIN P /\ l \in DOMAIN P
      BY <1>1, <1>4, <2>2, <2>3, <3>1
    <3> QED BY <3>2, DagFacts
  <2>5. Round(l) < Round(t[i])
    BY <1>4, <2>2
  <2>6. ~ (Round(t[i]) <= last_committed_round(ld))
    BY <1>1, <2>4, <2>5, SMT
  <2>7. ~ Settled(ld, t[i])
    BY <1>1, <2>4, <2>6, SettledFacts
  <2>8. Round(t[i]) > Round(l)
    BY <2>4, <2>5
  <2> QED BY <1>1, <2>2, <2>3, <2>7, <2>8
<1>7. t \in Seq(D)
  <2>1. \A i \in 1..Len(t) : t[i] \in D
    BY <1>3, <1>6
  <2> QED BY <1>3, <2>1, SMT
<1>8. ASSUME NEW i \in 1..(Len(tc) - 1), NEW j \in 1..(Len(tc) - 1), i < j
      PROVE  Round(t[i]) < Round(t[j])
  <2>1. i + 1 \in DOMAIN tc /\ j + 1 \in DOMAIN tc /\ i + 1 < j + 1
    BY <1>4, <1>8, SMT
  <2>2. Round(tc[i + 1]) < Round(tc[j + 1])
    BY <1>2, <2>1
  <2> QED BY <1>3, <2>2
<1>9. Waiting(ld, D, t)
  BY <1>1, <1>5, <1>6, <1>7, <1>8 DEF Waiting
<1> QED BY <1>9 DEF t

\* A smaller dag supports less.
LEMMA SupportFacts ==
  ASSUME NEW P \in Dags, NEW lc, NEW ld, NEW dg \in SUBSET DOMAIN P, NEW D \in SUBSET dg, NEW c
  PROVE  /\ IsValidity(Support(State(P, ld, D), c)) => IsValidity(Support(State(P, lc, dg), c))
         /\ IsValidity(Support(State(P, ld, D), c)) => IsValidity(Support(Whole(P), c))
<1> USE Zenon
<1> DEFINE S(X) == {Author(x) : x \in {y \in X : Round(y) = Round(c) + 1 /\ c \in P[y]}}
<1>1. \A k, X : Support(State(P, k, X), c) = S(X)
  BY DEF Support, Layer, State
<1>2. Support(Whole(P), c) = S(DOMAIN P)
  BY DEF Support, Layer, Whole
<1>3. \A x \in DOMAIN P : Author(x) \in Authorities
  BY DagFacts
<1>4. /\ S(D) \in SUBSET Authorities /\ S(dg) \in SUBSET Authorities
      /\ S(DOMAIN P) \in SUBSET Authorities
      /\ S(D) \subseteq S(dg) /\ S(D) \subseteq S(DOMAIN P)
  BY <1>3
<1> HIDE DEF S
<1> QED BY <1>1, <1>2, <1>4, ValidityGrows

\* No leader above those left has the support it needs.
LEMMA CommitNoneWaits ==
  ASSUME Library, NEW P \in Dags, NEW lc, NEW dg, NEW l, NEW o, NEW ld, NEW D, NEW sd, NEW se,
         CommitStep(P, lc, dg, l, o, ld, D, sd, se),
         NEW tc, tc # <<>>, l = Head(tc), Waiting(lc, dg, tc), NoneWaits(P, lc, dg, tc)
  PROVE  NoneWaits(P, ld, D, Tail(tc))
<1> USE Zenon
<1> DEFINE t == Tail(tc)
<1>1. /\ lc \in LastCommits /\ dg \in SUBSET DOMAIN P /\ l \in dg
      /\ Round(l) > last_committed_round(lc)
      /\ D \in SUBSET dg /\ last_committed_round(ld) = Round(l)
  BY DEF CommitStep, CommitsTo
<1>2. tc \in Seq(dg)
  BY DEF Waiting
<1>3. t \in Seq(dg) /\ Len(t) = Len(tc) - 1 /\ \A i \in 1..(Len(tc) - 1) : t[i] = tc[i + 1]
  BY <1>2, TailFacts DEF HeadAndTail
<1>4. Len(tc) \in Nat /\ Len(tc) > 0 /\ l = tc[1]
  BY <1>2, SMT
<1> HIDE DEF t
<1>5. t # <<>> => t[Len(t)] = tc[Len(tc)]
  <2>1. SUFFICES ASSUME t # <<>>
                 PROVE  t[Len(t)] = tc[Len(tc)]
    BY SMT
  <2>2. Len(t) \in 1..(Len(tc) - 1) /\ Len(t) + 1 = Len(tc)
    BY <1>3, <1>4, <2>1, SMT
  <2> QED BY <1>3, <2>2
<1>6. t = <<>> => tc[Len(tc)] = l
  <2>1. SUFFICES ASSUME t = <<>>
                 PROVE  tc[Len(tc)] = l
    BY SMT
  <2>2. Len(tc) = 1
    BY <1>3, <1>4, <2>1, SMT
  <2> QED BY <1>4, <2>2
<1>7. ASSUME NEW c \in D, Electable(c), Round(c) > last_committed_round(ld),
             t # <<>> => Round(c) > Round(t[Len(t)])
      PROVE  ~ IsValidity(Support(State(P, ld, D), c))
  <2>1. c \in dg /\ l \in DOMAIN P /\ c \in DOMAIN P
    BY <1>1
  <2>2. Round(c) \in Nat /\ Round(l) \in Nat /\ last_committed_round(lc) \in Nat
    BY <1>1, <2>1, DagFacts, LastRound
  <2>3. Round(c) > last_committed_round(lc) /\ Round(c) > Round(l)
    BY <1>1, <1>7, <2>2, SMT
  <2>4. Round(c) > Round(tc[Len(tc)])
    BY <1>5, <1>6, <1>7, <2>3
  <2>5. ~ IsValidity(Support(State(P, lc, dg), c))
    BY <1>7, <2>1, <2>3, <2>4 DEF NoneWaits
  <2> QED BY <1>1, <2>5, SupportFacts
<1>8. NoneWaits(P, ld, D, t)
  BY <1>7 DEF NoneWaits
<1> QED BY <1>8 DEF t

\* A leader that was elected is now committed.
LEMMA CommitLeaders ==
  ASSUME NEW P, NEW sd, NEW se, NEW l, NEW o, Longer(P, sd, se, l, o), NEW S,
         NEW tc \in Seq(S), tc # <<>>, l = Head(tc)
  PROVE  /\ Leaders(se, Tail(tc)) = Leaders(sd, tc)
         /\ Len(se) + Len(Tail(tc)) = Len(sd) + Len(tc)
<1> USE Zenon
<1> DEFINE t == Tail(tc)
           n == Len(sd)
<1>1. /\ n \in Nat /\ Len(se) = n + 1 /\ \A i \in 1..n : se[i] = sd[i]
      /\ se[n + 1].leader = l
  BY DEF Longer
<1>2. t \in Seq(S) /\ Len(t) = Len(tc) - 1 /\ \A i \in 1..(Len(tc) - 1) : t[i] = tc[i + 1]
  BY TailFacts DEF HeadAndTail
<1>3. Len(tc) \in Nat /\ Len(tc) > 0 /\ l = tc[1]
  BY SMT
<1> HIDE DEF t, n
<1>4. Len(se) + Len(t) = n + Len(tc)
  BY <1>1, <1>2, <1>3, SMT
<1>5. ASSUME NEW i \in 1..(n + Len(tc))
      PROVE  (IF i <= Len(se) THEN se[i].leader ELSE t[i - Len(se)])
             = (IF i <= n THEN sd[i].leader ELSE tc[i - n])
  <2>1. CASE i <= n
    <3>1. i <= Len(se) /\ i \in 1..n
      BY <1>1, <2>1, SMT
    <3> QED BY <1>1, <2>1, <3>1
  <2>2. CASE i = n + 1
    <3>1. i <= Len(se) /\ ~ (i <= n) /\ i - n = 1
      BY <1>1, <2>2, SMT
    <3> QED BY <1>1, <1>3, <2>2, <3>1
  <2>3. CASE ~ (i <= n) /\ i # n + 1
    <3>1. /\ ~ (i <= Len(se)) /\ i - Len(se) \in 1..(Len(tc) - 1)
          /\ (i - Len(se)) + 1 = i - n
      BY <1>1, <1>3, <2>3, SMT
    <3>2. t[i - Len(se)] = tc[i - n]
      BY <1>2, <3>1
    <3> QED BY <2>3, <3>1, <3>2
  <2> QED BY <2>1, <2>2, <2>3
<1>6. Leaders(se, t) = Leaders(sd, tc)
  BY <1>4, <1>5 DEF Leaders, n
<1> QED BY <1>4, <1>6 DEF t, n

-----------------------------------------------------------------------------
(* What holds of a validator, step by step.                                *)

\* A turn of the loop over the leaders.
LEMMA CommitSound ==
  ASSUME Library, NEW P \in Dags, NEW lc, NEW dg, NEW tc, NEW ch, NEW gc, NEW store, NEW sd,
         Sound(P, lc, dg, tc, ch, gc, store, sd), tc # <<>>,
         NEW l, l = Head(tc), NEW o, o = order_dag(State(P, lc, dg), l),
         NEW u, u = update(State(P, lc, dg), Range(o))
  PROVE  /\ Sound(P, u.lc, u.dag, Tail(tc), ch, gc, store,
                  Append(sd, [leader |-> l, certificates |-> o]))
         /\ \A a \in Authorities : lc[a] <= u.lc[a]
         /\ Longer(P, sd, Append(sd, [leader |-> l, certificates |-> o]), l, o)
<1> USE Zenon
<1> DEFINE s == State(P, lc, dg)
           se == Append(sd, [leader |-> l, certificates |-> o])
           ld == u.lc
           D == u.dag
<1>1. /\ Held(P, lc, dg, ch, store) /\ Collected(P, lc, gc)
      /\ Committed(P, lc, sd) /\ Waiting(lc, dg, tc)
      /\ MaxRestarts = 0 => NoneWaits(P, lc, dg, tc)
      /\ Calm => Causal(P, sd) /\ Ordered(P, sd) /\ Elected(P, Leaders(sd, tc), Len(sd) + Len(tc))
  BY DEF Sound
<1>2. /\ lc \in LastCommits /\ sd \in Seq(SubDags(P))
  BY <1>1 DEF Committed
<1>3. /\ store \in SUBSET DOMAIN P /\ IsFiniteSet(store) /\ dg \in SUBSET store
      /\ \A c \in dg : Round(c) > lc[Author(c)]
      /\ \A c \in dg : \A p \in P[c] : p \in dg \/ Settled(lc, p)
  BY <1>1 DEF Held
<1>4. dg \in SUBSET DOMAIN P /\ IsFiniteSet(dg)
  BY <1>3 DEF Library, CardSubset
<1>5. l \in dg /\ Electable(l) /\ Round(l) > last_committed_round(lc) /\ tc \in Seq(dg)
  <2>1. /\ tc \in Seq(dg)
        /\ \A i \in DOMAIN tc : Electable(tc[i]) /\ Round(tc[i]) > last_committed_round(lc)
    BY <1>1 DEF Waiting
  <2>2. 1 \in DOMAIN tc /\ l = tc[1] /\ tc[1] \in dg
    BY <2>1, SMT
  <2> QED BY <2>1, <2>2
<1>6. s.lc = lc /\ s.dag = dg /\ s.parents = P
  BY DEF State
<1>7. Formed(s)
  BY <1>2, <1>4, <1>6 DEF Formed
<1> HIDE DEF s, se, ld, D
<1>8. SubDag(s, l, o)
  BY <1>5, <1>6, <1>7, OrderDag DEF s
<1>9. l \in DOMAIN P
  BY <1>4, <1>5
<1>10. CommitsTo(lc, dg, l, o, ld, D)
  BY <1>2, <1>3, <1>4, <1>5, <1>8, <1>9, UpdateCommits DEF s, ld, D
<1>11. o \in Seq(DOMAIN P)
  <2>1. o \in Seq(dg)
    BY <1>6, <1>8 DEF SubDag
  <2> QED BY <1>4, <2>1, SMT
<1>12. Longer(P, sd, se, l, o)
  BY <1>2, <1>9, <1>11, CommitLengthens DEF se
<1>13. CommitStep(P, lc, dg, l, o, ld, D, sd, se)
  BY <1>2, <1>3, <1>4, <1>5, <1>8, <1>10, <1>12 DEF CommitStep, s
<1>14. /\ ld \in LastCommits /\ \A a \in Authorities : lc[a] <= ld[a]
       /\ D \in SUBSET dg /\ \A x \in D : Round(x) > ld[Author(x)]
       /\ \A x \in dg : x \in D \/ Settled(ld, x)
  BY <1>10 DEF CommitsTo
<1>15. Held(P, ld, D, ch, store)
  BY <1>1, <1>2, <1>14, CutHeld
<1>16. Collected(P, ld, gc)
  <2>1. \A p \in DOMAIN P : Settled(lc, p) => Settled(ld, p)
    BY <1>2, <1>14, SettledStays
  <2> QED BY <1>1, <2>1 DEF Collected
<1>17. Committed(P, ld, se)
  BY <1>1, <1>13, CommitCommitted
<1>18. Waiting(ld, D, Tail(tc))
  BY <1>1, <1>13, CommitWaiting
<1>19. MaxRestarts = 0 => NoneWaits(P, ld, D, Tail(tc))
  BY <1>1, <1>13, CommitNoneWaits
<1>20. ASSUME Calm
       PROVE  Causal(P, se) /\ Ordered(P, se) /\ Elected(P, Leaders(se, Tail(tc)), Len(se) + Len(Tail(tc)))
  <2>1. Causal(P, se)
    BY <1>1, <1>3, <1>13, <1>20, CommitCausal
  <2>2. Closed(s)
    <3>1. ASSUME NEW x \in dg, NEW p \in P[x]
          PROVE  p \in dg \/ Round(p) <= lc[Author(p)]
      BY <1>3, <1>20 DEF Settled
    <3> QED BY <1>6, <3>1 DEF Closed
  <2>3. Ordered(P, se)
    BY <1>1, <1>7, <1>13, <1>20, <2>2, CommitOrdered DEF s
  <2>4. Leaders(se, Tail(tc)) = Leaders(sd, tc) /\ Len(se) + Len(Tail(tc)) = Len(sd) + Len(tc)
    BY <1>5, <1>12, CommitLeaders, SMT
  <2> QED BY <1>1, <1>20, <2>1, <2>3, <2>4
<1>21. Sound(P, ld, D, Tail(tc), ch, gc, store, se)
  BY <1>15, <1>16, <1>17, <1>18, <1>19, <1>20 DEF Sound
<1> QED BY <1>12, <1>14, <1>21 DEF se, ld, D
=============================================================================
