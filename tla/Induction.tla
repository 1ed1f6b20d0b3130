------------------------------- MODULE Induction -------------------------------
(***************************************************************************)
(* What the proofs about recursive definitions and about searches for a    *)
(* smallest element rest on: least elements, induction over the naturals   *)
(* with the property given as a set, the existence of functions defined by *)
(* recursion on a natural number or along a measure, and products and      *)
(* quotients of naturals.                                                  *)
(***************************************************************************)
EXTENDS Integers, NaturalsInduction, WellFoundedInduction, TLAPS

(* A set of naturals that is not empty has a smallest element.             *)
LEMMA NatMinimum ==
    ASSUME NEW T, T \subseteq Nat, T # {}
    PROVE  \E x \in T : \A y \in T : x <= y
<1> DEFINE R == {p \in Nat \X Nat : p[1] < p[2]}
<1>1. IsWellFoundedOn(R, Nat)
  BY NatLessThanWellFounded DEF OpToRel
<1>2. PICK x \in T : \A y \in T : ~(<<y, x>> \in R)
  <2> HIDE DEF R
  <2>. QED
    BY <1>1, WFMin
<1>3. ASSUME NEW y \in T PROVE x <= y
  <2>1. x \in Nat /\ y \in Nat
    OBVIOUS
  <2>2. <<y, x>> \notin R
    BY <1>2
  <2>3. ~(y < x)
    BY <2>1, <2>2
  <2>. QED
    BY <2>1, <2>3
<1>. QED
  BY <1>3

(* A set that holds 0, and the successor of each of its members, holds     *)
(* every natural number.                                                   *)
LEMMA SetInduction ==
    ASSUME NEW T, 0 \in T, \A n \in Nat : n \in T => n + 1 \in T
    PROVE  \A n \in Nat : n \in T
<1> DEFINE B == {n \in Nat : n \notin T}
<1> SUFFICES ASSUME B # {}
             PROVE  FALSE
  OBVIOUS
<1>1. PICK x \in B : \A y \in B : x <= y
  <2>1. B \subseteq Nat
    OBVIOUS
  <2> HIDE DEF B
  <2>. QED
    BY <2>1, NatMinimum
<1>2. x # 0 /\ x \in Nat
  OBVIOUS
<1>3. x - 1 \in Nat /\ x - 1 < x /\ (x - 1) + 1 = x
  BY <1>2
<1>4. x - 1 \in T
  BY <1>1, <1>3
<1>. QED
  BY <1>3, <1>4

(* The same up to a bound.                                                 *)
LEMMA BoundedInduction ==
    ASSUME NEW T, NEW N \in Nat, 0 \in T, \A n \in 0 .. N - 1 : n \in T => n + 1 \in T
    PROVE  \A n \in 0 .. N : n \in T
<1> DEFINE U == {n \in Nat : n <= N => n \in T}
<1>1. 0 \in U
  OBVIOUS
<1>2. ASSUME NEW n \in Nat, n \in U PROVE n + 1 \in U
  BY <1>2
<1>3. \A n \in Nat : n \in U
  <2> HIDE DEF U
  <2>. QED
    BY <1>1, <1>2, SetInduction
<1>. QED
  BY <1>3

(* The first n + 1 values of the function a value and a step determine.    *)
Begins(S, a, g, n, h) ==
    /\ h \in [0 .. n -> S]
    /\ h[0] = a
    /\ \A i \in 0 .. n - 1 : h[i + 1] = g[<<i, h[i]>>]

(* They can be continued by one more.                                      *)
LEMMA BeginningExtends ==
    ASSUME NEW S, NEW a \in S, NEW g \in [Nat \X S -> S], NEW n \in Nat, NEW h,
           Begins(S, a, g, n, h)
    PROVE  \E k : Begins(S, a, g, n + 1, k)
<1> DEFINE k == [i \in 0 .. n + 1 |-> IF i = n + 1 THEN g[<<n, h[n]>>] ELSE h[i]]
<1>1. h[n] \in S /\ g[<<n, h[n]>>] \in S
  BY DEF Begins
<1>2. k \in [0 .. n + 1 -> S] /\ k[0] = a
  BY <1>1 DEF Begins
<1>3. ASSUME NEW i \in 0 .. n PROVE k[i + 1] = g[<<i, k[i]>>]
  <2>1. CASE i = n
    <3>1. k[n + 1] = g[<<n, h[n]>>] /\ k[n] = h[n]
      OBVIOUS
    <3> HIDE DEF k
    <3>. QED
      BY <2>1, <3>1
  <2>2. CASE i # n
    <3>1. i \in 0 .. n - 1 /\ i + 1 \in 0 .. n + 1 /\ i + 1 # n + 1 /\ i # n + 1
      BY <2>2
    <3>. QED
      BY <3>1 DEF Begins
  <2>. QED
    BY <2>1, <2>2
<1>4. (n + 1) - 1 = n
  OBVIOUS
<1> HIDE DEF k
<1>. QED
  BY <1>2, <1>3, <1>4 DEF Begins

(* Two of them agree where both are defined.                               *)
LEMMA BeginningsAgree ==
    ASSUME NEW S, NEW a \in S, NEW g \in [Nat \X S -> S], NEW n \in Nat,
           NEW h, Begins(S, a, g, n, h), NEW k, Begins(S, a, g, n + 1, k)
    PROVE  h[n] = k[n]
<1> DEFINE U == {i \in 0 .. n : h[i] = k[i]}
<1>1. 0 \in U
  BY DEF Begins
<1>2. ASSUME NEW i \in 0 .. n - 1, i \in U PROVE i + 1 \in U
  <2>1. h[i + 1] = g[<<i, h[i]>>] /\ k[i + 1] = g[<<i, k[i]>>]
    BY DEF Begins
  <2>. QED
    BY <1>2, <2>1
<1>3. \A i \in 0 .. n : i \in U
  <2> HIDE DEF U
  <2>. QED
    BY <1>1, <1>2, BoundedInduction
<1>. QED
  BY <1>3

(* All of its values.                                                      *)
Iterates(S, a, g, f) ==
    /\ f \in [Nat -> S]
    /\ f[0] = a
    /\ \A n \in Nat : f[n + 1] = g[<<n, f[n]>>]

(* A value and a step function determine a function on the naturals.       *)
LEMMA NatRecursion ==
    ASSUME NEW S, NEW a \in S, NEW g \in [Nat \X S -> S]
    PROVE  \E f : Iterates(S, a, g, f)
<1> DEFINE T == {n \in Nat : \E h : Begins(S, a, g, n, h)}
<1>1. \A n \in Nat : n \in T
  <2>1. 0 \in T
    <3>1. Begins(S, a, g, 0, [i \in 0 .. 0 |-> a])
      BY DEF Begins
    <3>. QED
      BY <3>1
  <2>2. ASSUME NEW n \in Nat, n \in T PROVE n + 1 \in T
    BY <2>2, BeginningExtends
  <2> HIDE DEF T
  <2>. QED
    BY <2>1, <2>2, SetInduction
<1> DEFINE H(n) == CHOOSE h : Begins(S, a, g, n, h)
           f == [n \in Nat |-> H(n)[n]]
<1>2. ASSUME NEW n \in Nat PROVE Begins(S, a, g, n, H(n))
  BY <1>1
<1> HIDE DEF H
<1>3. f \in [Nat -> S] /\ f[0] = a
  BY <1>2 DEF Begins
<1>4. ASSUME NEW n \in Nat PROVE f[n + 1] = g[<<n, f[n]>>]
  <2>1. n + 1 \in Nat /\ Begins(S, a, g, n, H(n)) /\ Begins(S, a, g, n + 1, H(n + 1))
    BY <1>2
  <2>2. H(n)[n] = H(n + 1)[n]
    BY <2>1, BeginningsAgree
  <2>3. n \in 0 .. (n + 1) - 1
    OBVIOUS
  <2>4. H(n + 1)[n + 1] = g[<<n, H(n + 1)[n]>>]
    BY <2>1, <2>3 DEF Begins
  <2>5. f[n + 1] = H(n + 1)[n + 1] /\ f[n] = H(n)[n]
    BY <2>1
  <2> HIDE DEF f
  <2>. QED
    BY <2>2, <2>4, <2>5
<1> HIDE DEF f
<1>5. Iterates(S, a, g, f)
  BY <1>3, <1>4 DEF Iterates
<1>. QED
  BY <1>5

(* The function a recursive definition on 0 .. N names.                    *)
Unfolds(S, a, g, N, f) ==
    /\ f \in [0 .. N -> S]
    /\ f = [i \in 0 .. N |-> IF i = 0 THEN a ELSE g[<<i, f[i - 1]>>]]

(* The same up to a bound, in the shape a recursive function is written.   *)
LEMMA BoundedRecursion ==
    ASSUME NEW S, NEW a \in S, NEW N \in Nat, NEW g \in [(1 .. N) \X S -> S]
    PROVE  \E f : Unfolds(S, a, g, N, f)
<1> DEFINE G == [x \in Nat \X S |-> IF x[1] + 1 \in 1 .. N THEN g[<<x[1] + 1, x[2]>>] ELSE a]
<1>1. G \in [Nat \X S -> S]
  OBVIOUS
<1>2. \A n \in Nat, v \in S : n + 1 \in 1 .. N => G[<<n, v>>] = g[<<n + 1, v>>]
  OBVIOUS
<1> HIDE DEF G
<1>3. PICK F : Iterates(S, a, G, F)
  BY <1>1, NatRecursion
<1> DEFINE f == [i \in 0 .. N |-> F[i]]
<1>4. f \in [0 .. N -> S]
  BY <1>3 DEF Iterates
<1>5. ASSUME NEW i \in 0 .. N
      PROVE  f[i] = IF i = 0 THEN a ELSE g[<<i, f[i - 1]>>]
  <2>1. CASE i = 0
    BY <1>3, <2>1 DEF Iterates
  <2>2. CASE i # 0
    <3>1. i - 1 \in Nat /\ i - 1 \in 0 .. N /\ (i - 1) + 1 = i /\ i \in 1 .. N
      BY <2>2
    <3>2. F[i] = G[<<i - 1, F[i - 1]>>] /\ F[i - 1] \in S
      BY <1>3, <3>1 DEF Iterates
    <3>3. G[<<i - 1, F[i - 1]>>] = g[<<i, F[i - 1]>>]
      BY <1>2, <3>1, <3>2
    <3>4. f[i] = F[i] /\ f[i - 1] = F[i - 1]
      BY <3>1
    <3>. QED
      BY <2>2, <3>2, <3>3, <3>4
  <2>. QED
    BY <2>1, <2>2
<1>6. Unfolds(S, a, g, N, f)
  <2> HIDE DEF f
  <2>. QED
    BY <1>4, <1>5 DEF Unfolds
<1>. QED
  BY <1>6

(* A step g that looks, at each argument, only at values of arguments of   *)
(* a smaller measure m.                                                    *)
Determined(A, S, m, g) ==
    /\ S # {}
    /\ m \in [A -> Nat]
    /\ g \in [A \X [A -> S] -> S]
    /\ \A a \in A : \A f1, f2 \in [A -> S] :
          (\A b \in A : m[b] < m[a] => f1[b] = f2[b]) => g[<<a, f1>>] = g[<<a, f2>>]

(* It determines a function: recursion along a measure.                    *)
LEMMA MeasuredRecursion ==
    ASSUME NEW A, NEW S, NEW m, NEW g, Determined(A, S, m, g)
    PROVE  \E f \in [A -> S] : \A a \in A : f[a] = g[<<a, f>>]
<1>0. PICK s : s \in S
  BY DEF Determined
<1>1. \A a \in A, f1, f2 \in [A -> S] :
        (\A b \in A : m[b] < m[a] => f1[b] = f2[b]) => g[<<a, f1>>] = g[<<a, f2>>]
  BY DEF Determined
<1> m \in [A -> Nat] /\ g \in [A \X [A -> S] -> S]
  BY DEF Determined
<1> DEFINE F0 == [a \in A |-> s]
           G == [x \in Nat \X [A -> S] |-> [a \in A |-> g[<<a, x[2]>>]]]
<1>2. F0 \in [A -> S] /\ G \in [Nat \X [A -> S] -> [A -> S]]
  BY <1>0
<1>3. \A k \in Nat, f \in [A -> S], a \in A : G[<<k, f>>][a] = g[<<a, f>>]
  OBVIOUS
<1> HIDE DEF F0, G
<1>4. PICK F : Iterates([A -> S], F0, G, F)
  BY <1>2, NatRecursion
<1>5. \A k \in Nat : F[k] \in [A -> S]
  BY <1>4 DEF Iterates
<1>6. \A k \in Nat, a \in A : F[k + 1][a] = g[<<a, F[k]>>]
  <2> TAKE k \in Nat, a \in A
  <2>1. F[k + 1] = G[<<k, F[k]>>]
    BY <1>4 DEF Iterates
  <2>2. F[k] \in [A -> S]
    BY <1>5
  <2>3. G[<<k, F[k]>>][a] = g[<<a, F[k]>>]
    BY <1>3, <2>2
  <2>. QED
    BY <2>1, <2>3
<1> DEFINE T == {k \in Nat : \A a \in A : m[a] < k => F[k + 1][a] = F[k][a]}
<1>7. \A k \in Nat : k \in T
  <2>1. 0 \in T
    OBVIOUS
  <2>2. ASSUME NEW k \in Nat, k \in T PROVE k + 1 \in T
    <3>1. ASSUME NEW a \in A, m[a] < k + 1 PROVE F[(k + 1) + 1][a] = F[k + 1][a]
      <4>1. \A b \in A : m[b] < m[a] => F[k + 1][b] = F[k][b]
        BY <2>2, <3>1
      <4>2. g[<<a, F[k + 1]>>] = g[<<a, F[k]>>]
        <5>1. F[k + 1] \in [A -> S] /\ F[k] \in [A -> S]
          BY <1>5
        <5> HIDE DEF T
        <5>. QED
          BY <1>1, <4>1, <5>1
      <4>3. F[(k + 1) + 1][a] = g[<<a, F[k + 1]>>] /\ F[k + 1][a] = g[<<a, F[k]>>]
        <5>1. k + 1 \in Nat
          OBVIOUS
        <5>. QED
          BY <1>6, <5>1
      <4>. QED
        BY <4>2, <4>3
    <3>. QED
      BY <3>1
  <2> HIDE DEF T
  <2>. QED
    BY <2>1, <2>2, SetInduction
<1> DEFINE U == {j \in Nat : \A b \in A : F[m[b] + 1 + j][b] = F[m[b] + 1][b]}
<1>8. \A j \in Nat : j \in U
  <2>1. 0 \in U
    OBVIOUS
  <2>2. ASSUME NEW j \in Nat, j \in U PROVE j + 1 \in U
    <3>1. ASSUME NEW b \in A PROVE F[m[b] + 1 + (j + 1)][b] = F[m[b] + 1][b]
      <4>1. m[b] + 1 + j \in Nat /\ m[b] < m[b] + 1 + j /\ m[b] + 1 + (j + 1) = (m[b] + 1 + j) + 1
        OBVIOUS
      <4>2. m[b] + 1 + j \in T
        BY <1>7, <4>1
      <4>. QED
        BY <2>2, <4>1, <4>2
    <3>. QED
      BY <3>1
  <2> HIDE DEF U
  <2>. QED
    BY <2>1, <2>2, SetInduction
<1> DEFINE f == [a \in A |-> F[m[a] + 1][a]]
<1>9. f \in [A -> S]
  BY <1>5
<1>10. ASSUME NEW a \in A PROVE f[a] = g[<<a, f>>]
  <2>1. ASSUME NEW b \in A, m[b] < m[a] PROVE f[b] = F[m[a]][b]
    <3>1. m[a] - (m[b] + 1) \in Nat /\ m[b] + 1 + (m[a] - (m[b] + 1)) = m[a]
      BY <2>1
    <3>2. m[a] - (m[b] + 1) \in U
      BY <1>8, <3>1
    <3>. QED
      BY <3>1, <3>2
  <2>2. g[<<a, f>>] = g[<<a, F[m[a]]>>]
    <3> HIDE DEF f
    <3>. QED
      BY <1>1, <1>5, <1>9, <2>1
  <2>. QED
    BY <1>6, <2>2
<1> HIDE DEF f
<1>. QED
  BY <1>9, <1>10

-----------------------------------------------------------------------------
(* Products and quotients.                                                 *)

(* Quotient and remainder.                                                *)
LEMMA DivFacts ==
    ASSUME NEW a \in Nat, NEW b \in Nat \ {0}
    PROVE  /\ a \div b \in Nat
           /\ a % b \in Nat /\ a % b < b
           /\ a = b * (a \div b) + (a % b)
BY Z3

(* Products are natural numbers.                                           *)
LEMMA TimesNat ==
    ASSUME NEW a \in Nat, NEW b \in Nat
    PROVE  a * b \in Nat
BY Z3

(* Products are monotone.                                                  *)
LEMMA TimesMonotone ==
    ASSUME NEW a \in Nat, NEW b \in Nat, NEW c \in Nat, a <= b
    PROVE  a * c <= b * c
BY Z3

(* A common factor can be cancelled.                                       *)
LEMMA TimesCancels ==
    ASSUME NEW a \in Int, NEW b \in Int, NEW c \in Nat \ {0}, c * a < c * b
    PROVE  a < b
BY Z3

(* The quotient is the only number with a remainder below the divisor.     *)
LEMMA DivUnique ==
    ASSUME NEW a \in Nat, NEW b \in Nat \ {0}, NEW q \in Nat,
           q * b <= a, a < q * b + b
    PROVE  a \div b = q
<1> DEFINE x == a \div b
<1>1. x \in Nat /\ b * x <= a /\ a < b * x + b
  BY DivFacts
<1>2. b * x < b * (q + 1) /\ b * q < b * (x + 1)
  BY <1>1, Z3
<1>3. x < q + 1 /\ q < x + 1
  BY <1>1, <1>2, TimesCancels
<1>. QED
  BY <1>1, <1>3

(* A place below a, inside of the b places of its group.                   *)
LEMMA PlaceBound ==
    ASSUME NEW a \in Nat, NEW n \in Nat, NEW b \in Nat, NEW x \in Nat, a < n, x < b
    PROVE  a * b + x \in Nat /\ a * b + x < n * b
<1>1. (a + 1) * b <= n * b
  BY TimesMonotone
<1>2. (a + 1) * b = a * b + b /\ a * b \in Nat /\ n * b \in Nat
  BY TimesNat, Z3
<1> DEFINE ab == a * b
           nb == n * b
           ab1 == (a + 1) * b
<1>3. ab1 <= nb /\ ab1 = ab + b /\ ab \in Nat /\ nb \in Nat
  BY <1>1, <1>2
<1> HIDE DEF ab, nb, ab1
<1>4. ab + x \in Nat /\ ab + x < nb
  BY <1>3
<1>. QED
  BY <1>4 DEF ab, nb

(* Group and place inside the group are determined by the number.          *)
LEMMA PlaceUnique ==
    ASSUME NEW b \in Nat, NEW a \in Nat, NEW x \in Nat, NEW c \in Nat, NEW y \in Nat,
           x < b, y < b, a * b + x = c * b + y
    PROVE  a = c /\ x = y
<1> DEFINE ab == a * b
           cb == c * b
<1>1. ab \in Nat /\ cb \in Nat
  BY TimesNat
<1>2. ab + x = cb + y
  OBVIOUS
<1>3. a < c => ab + x < cb
  BY PlaceBound
<1>4. c < a => cb + y < ab
  BY PlaceBound
<1>5. a = c => ab = cb
  OBVIOUS
<1> HIDE DEF ab, cb
<1>. QED
  BY <1>1, <1>2, <1>3, <1>4, <1>5
=============================================================================
