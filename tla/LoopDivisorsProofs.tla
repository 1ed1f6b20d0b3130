-------------------------- MODULE LoopDivisorsProofs --------------------------
(***************************************************************************)
(* Proofs about LoopDivisors, for every width and every loop nest: magicu  *)
(* ends with a multiplier that divides exactly (DivisionExact) and never   *)
(* leaves its 64 bits (WordsSuffice), and the counters recovered with the  *)
(* multipliers are those of the program (UnrollExact).                     *)
(*                                                                         *)
(* Both quotients of magicu follow a division by hand: with P = Pow[p] and *)
(* K = Pow[p - Width], q1 and r1 divide P by nc + 1, q2 and r2 divide      *)
(* P + K - 1 by d.  When the loop ends, M = q2 + 1 exceeds P / d by        *)
(* (K + delta) / d, and delta * (nc + 1) <= P is what the loop waited for. *)
(*                                                                         *)
(* The strides are products of bounds modulo a word; a nest of fewer       *)
(* elements than a word holds makes none of them wrap, and the counters    *)
(* are then the digits of the position, put together loop by loop.         *)
(***************************************************************************)
EXTENDS LoopDivisors, Induction

-----------------------------------------------------------------------------
(* Division by multiplying and shifting.                                  *)

(* Multiplying by M and dividing by P divides n by e.                      *)
Divides(M, P, e, n) == (n * M) \div P = n \div e

(* Multiplying by M and dividing by P divides by e when M * e exceeds P by *)
(* K + delta.  A position n fails only if n * (K + delta) reaches P times  *)
(* the distance from n to the next multiple of e.  Far from it, n < P / K  *)
(* is enough; one below it, twice that multiple is still at most nc.       *)
LEMMA ExactDivision ==
    ASSUME NEW e \in Nat \ {0}, NEW c \in Nat, NEW j \in Nat, NEW T \in Nat,
           NEW P \in Nat \ {0}, NEW K \in Nat \ {0}, NEW delta \in Nat, NEW M \in Nat,
           NEW n \in Nat,
           e <= T - 1, c = j * e, c <= T - 1, T - 1 < c + e,
           P = T * K, M * e = P + K + delta, delta * (c + 1) <= P,
           2 * n + 4 <= T
    PROVE  Divides(M, P, e, n)
<1> DEFINE q == n \div e
           r == n % e
           x == K + delta
<1>1. q \in Nat /\ r \in Nat /\ r < e /\ n = e * q + r
  BY DivFacts
<1>2. e <= c
  <2>1. j # 0
    BY Z3
  <2>. QED
    BY <2>1, Z3
<1>3. /\ n * K \in Nat /\ n * delta \in Nat /\ n * x = n * K + n * delta
      /\ 2 * (n * K) + 4 * K <= P
  <2>1. (2 * n + 4) * K <= T * K
    BY TimesMonotone
  <2>2. (2 * n + 4) * K = 2 * (n * K) + 4 * K
    BY Z3
  <2>3. n * x = n * K + n * delta
    BY Z3
  <2>. QED
    BY <2>1, <2>2, <2>3, TimesNat
<1>4. n * x < (e - r) * P
  <2>1. CASE r = e - 1
    <3>1. e * (2 * (q + 1)) < e * (j + 1)
      <4>1. e * (2 * (q + 1)) = 2 * (e * q + e) /\ e * (j + 1) = c + e
        BY <1>1, Z3
      <4>. QED
        BY <1>1, <2>1, <4>1
    <3>2. 2 * (q + 1) <= j
      BY <1>1, <3>1, TimesCancels
    <3>3. 2 * (n + 1) <= c
      <4>1. (2 * (q + 1)) * e <= j * e
        BY <1>1, <3>2, TimesMonotone
      <4>2. (2 * (q + 1)) * e = 2 * (e * q + e)
        BY <1>1, Z3
      <4>. QED
        BY <1>1, <2>1, <4>1, <4>2
    <3>4. 2 * (n * delta) <= P
      <4>1. (2 * n) * delta <= (c + 1) * delta
        BY <3>3, TimesMonotone
      <4>2. (2 * n) * delta = 2 * (n * delta) /\ (c + 1) * delta = delta * (c + 1)
        BY Z3
      <4>. QED
        BY <4>1, <4>2
    <3>5. (e - r) * P = P
      BY <2>1
    <3>. QED
      BY <1>3, <3>4, <3>5
  <2>2. CASE r < e - 1
    <3>1. n * delta <= P
      <4>1. n * delta <= (c + 1) * delta
        BY <1>2, TimesMonotone
      <4>2. (c + 1) * delta = delta * (c + 1)
        BY Z3
      <4>. QED
        BY <4>1, <4>2
    <3>2. 2 * P <= (e - r) * P
      BY <1>1, <2>2, TimesMonotone
    <3>. QED
      BY <1>3, <3>1, <3>2
  <2>. QED
    BY <1>1, <2>1, <2>2
<1>5. /\ e * (n * M) = n * P + n * x
      /\ n * P = e * (q * P) + r * P
      /\ (e - r) * P = e * P - r * P
      /\ e * (q * P + P) = e * (q * P) + e * P
  <2>1. e * (n * M) = n * (M * e)
    BY Z3
  <2>2. n * (P + x) = n * P + n * x
    BY Z3
  <2>3. M * e = P + x
    OBVIOUS
  <2>4. n * P = e * (q * P) + r * P
    BY <1>1, Z3
  <2>5. (e - r) * P = e * P - r * P /\ e * (q * P + P) = e * (q * P) + e * P
    BY <1>1, Z3
  <2>. QED
    BY <2>1, <2>2, <2>3, <2>4, <2>5
<1>6. /\ n * M \in Nat /\ q * P \in Nat /\ r * P \in Nat /\ n * P \in Nat
      /\ e * P \in Nat /\ e * (n * M) \in Nat /\ e * (q * P) \in Nat /\ n * x \in Nat
  BY <1>1, TimesNat
<1>7. e * (n * M) < e * (q * P + P) /\ e * (q * P) < e * (n * M + 1)
  <2>1. e * (n * M) < e * (q * P + P)
    BY <1>4, <1>5, <1>6
  <2>2. e * (n * M + 1) = e * (n * M) + e
    BY <1>6, Z3
  <2>3. e * (n * M) = e * (q * P) + r * P + n * x
    BY <1>5, <1>6
  <2>4. e * (q * P) < e * (n * M) + e
    BY <1>6, <2>3
  <2>. QED
    BY <2>1, <2>2, <2>4
<1>8. n * M < q * P + P /\ q * P < n * M + 1
  <2>1. /\ n * M \in Int /\ n * M + 1 \in Int
        /\ q * P \in Int /\ q * P + P \in Int
    BY <1>6
  <2>2. n * M < q * P + P
    <3> HIDE DEF q
    <3>. QED
      BY <1>7, <2>1, TimesCancels
  <2>3. q * P < n * M + 1
    <3> HIDE DEF q
    <3>. QED
      BY <1>7, <2>1, TimesCancels
  <2>. QED
    BY <2>2, <2>3
<1>. QED
  BY <1>1, <1>6, <1>8, DivUnique DEF Divides

-----------------------------------------------------------------------------
(* Powers of two.                                                          *)

(* The words, and the powers of two at the bounds of the iteration.        *)
LEMMA WordFacts ==
    /\ Width \in Nat \ {0} /\ Word \in Nat /\ Word >= 2
    /\ Pow[0] = 1 /\ Pow[Width + 0] = Word
    /\ 2 * Width - Width = Width
<1>1. Width - 1 \in 0 .. Width /\ 1 \in 0 .. Width /\ 0 \in 0 .. Width /\ Width \in 0 .. Width
  BY PowTypeAssumption
<1>2. Pow[(Width - 1) + 1] = Pow[Width - 1] * Pow[1] /\ (Width - 1) + 1 = Width
  BY <1>1, PowTypeAssumption, PowAssumption
<1>3. Pow[Width - 1] \in Nat \ {0} /\ Pow[0] \in Nat \ {0}
  BY <1>1, PowTypeAssumption
<1>4. Pow[0 + 1] = Pow[0] * Pow[1] /\ 0 + 1 = 1
  BY <1>1, PowAssumption
<1>5. Pow[1] = 2 /\ Width \in Nat \ {0}
  BY PowTypeAssumption, PowAssumption
<1>6. Word = Pow[Width - 1] * 2
  BY <1>2, <1>5 DEF Word
<1>7. Word \in Nat /\ Word >= 2
  BY <1>3, <1>6
<1>8. Pow[0] = 1
  <2>1. 2 = Pow[0] * 2
    BY <1>4, <1>5
  <2>. QED
    BY <1>3, <2>1
<1>9. Pow[Width + 0] = Word
  <2>1. Width + 0 = Width
    BY <1>5
  <2>. QED
    BY <2>1 DEF Word
<1>10. 2 * Width - Width = Width
  BY <1>5
<1>. QED
  BY <1>5, <1>7, <1>8, <1>9, <1>10

(* Inside magicu the exponent is Width + s: what its power splits into, and *)
(* what one more bit does to it.                                            *)
LEMMA PowFacts ==
    ASSUME NEW s \in 0 .. Width
    PROVE  /\ Pow[s] \in Nat \ {0} /\ Pow[Width + s] \in Nat \ {0}
           /\ Pow[Width + s] = Word * Pow[s]
           /\ Pow[s] <= Word
           /\ s < Width => Pow[s + 1] = 2 * Pow[s] /\ Pow[Width + s + 1] = 2 * Pow[Width + s]
<1>1. Width \in Nat \ {0} /\ Width \in 0 .. Width /\ Width - s \in 0 .. Width
      /\ 1 \in 0 .. Width /\ s + (Width - s) = Width
  BY PowTypeAssumption
<1>2. Pow[s] \in Nat \ {0} /\ Pow[Width + s] \in Nat \ {0} /\ Pow[Width - s] \in Nat \ {0}
      /\ Word \in Nat \ {0}
  BY <1>1, PowTypeAssumption DEF Word
<1>3. Pow[Width + s] = Word * Pow[s]
  BY <1>1, PowAssumption DEF Word
<1>4. Pow[s] <= Word
  <2>1. Word = Pow[s] * Pow[Width - s]
    BY <1>1, PowAssumption DEF Word
  <2>2. 1 * Pow[s] <= Pow[Width - s] * Pow[s]
    BY <1>2, TimesMonotone
  <2>3. Pow[Width - s] * Pow[s] = Pow[s] * Pow[Width - s]
    BY <1>2, Z3
  <2>. QED
    BY <1>2, <2>1, <2>2, <2>3
<1>5. ASSUME s < Width
      PROVE  Pow[s + 1] = 2 * Pow[s] /\ Pow[Width + s + 1] = 2 * Pow[Width + s]
  <2>1. s + 1 \in 0 .. Width /\ Width + (s + 1) = Width + s + 1
    BY <1>1, <1>5
  <2>2. Pow[s + 1] = Pow[s] * 2
    BY <1>1, PowAssumption
  <2>3. Pow[Width + (s + 1)] = Word * Pow[s + 1]
    BY <1>1, <2>1, PowAssumption DEF Word
  <2>4. Word * (Pow[s] * 2) = 2 * (Word * Pow[s])
    BY <1>2, Z3
  <2>. QED
    BY <1>2, <1>3, <2>1, <2>2, <2>3, <2>4
<1>. QED
  BY <1>2, <1>3, <1>4, <1>5

-----------------------------------------------------------------------------
(* The inductive invariant: the two divisions by hand.                     *)

MagicuInv ==
    phase = "magicu" =>
        /\ left > 0
        /\ d \in 2 .. Word - 1
        /\ p < 2 * Width
        /\ \E j \in Nat : nc = j * d
        /\ nc <= Word - 1 /\ Word - 1 < nc + d
        /\ r1 <= nc /\ q1 * (nc + 1) + r1 = Pow[p]
        /\ r2 < d /\ q2 * d + r2 = Pow[p] + Pow[p - Width] - 1

IInv == DivTypeOK /\ MagicuInv /\ DivisionExact /\ WordsSuffice

(* A divisor whose multiplier is exact joins the others.                   *)
LEMMA StoreKeeps ==
    ASSUME DivTypeOK, DivisionExact, left > 0, nest' = nest, d \in 1 .. Word - 1,
           NEW M \in Nat, NEW s \in 0 .. Width, NEW a \in {0, 1}, Store(M, s, a),
           M < Word * Word, \A i \in Finished : magic[i].M < Word * Word,
           \A n \in Positions : (n * M) \div Pow[Width + s] = n \div d
    PROVE  /\ nest' \in Nests
           /\ left' \in 0 .. Len(nest'.incs)
           /\ d' \in 0 .. Word - 1
           /\ strides' \in [Finished' -> 1 .. Word - 1]
           /\ magic' \in [Finished' -> [M : Nat, s : 0 .. Width, add : {0, 1}]]
           /\ phase' = "next"
           /\ DivisionExact'
           /\ \A i \in Finished' : magic'[i].M < Word * Word
<1>1. /\ left \in 1 .. Len(nest.incs) /\ Len(nest.incs) \in Nat
      /\ nest.incs[left] \in 0 .. Word - 1
  <2> DEFINE S == 0 .. Word - 1
  <2>1. nest.incs \in Seq(S)
    BY NestsAssumption DEF DivTypeOK
  <2>2. left \in 0 .. Len(nest.incs) /\ left > 0
    BY DEF DivTypeOK
  <2> HIDE DEF S
  <2>3. Len(nest.incs) \in Nat
    BY <2>1
  <2>4. left \in 1 .. Len(nest.incs)
    BY <2>2, <2>3
  <2>5. nest.incs[left] \in S
    BY <2>1, <2>4
  <2>. QED
    BY <2>3, <2>4, <2>5 DEF S
<1>2. left' = left - 1 /\ phase' = "next"
  BY DEF Store
<1>3. Finished' = left .. Len(nest.incs) /\ Finished' = Finished \cup {left}
  BY <1>1, <1>2 DEF Finished
<1>4. d' \in 0 .. Word - 1
  <2>1. d \in Nat /\ d * nest.incs[left] \in Nat
    BY <1>1, WordFacts, TimesNat
  <2>2. /\ (d * nest.incs[left]) % Word \in Nat
        /\ (d * nest.incs[left]) % Word < Word
    BY <2>1, WordFacts, DivFacts
  <2>. QED
    BY <2>2, WordFacts DEF Store
<1>5. \A i \in Finished' :
         /\ magic'[i] = IF i = left THEN [M |-> M, s |-> s, add |-> a] ELSE magic[i]
         /\ strides'[i] = IF i = left THEN d ELSE strides[i]
  BY <1>3 DEF Store
<1>6. \A i \in Finished' : i # left => i \in Finished
  BY <1>3
<1>7. strides' \in [Finished' -> 1 .. Word - 1]
  BY <1>3, <1>5, <1>6 DEF Store, DivTypeOK
<1>8. magic' \in [Finished' -> [M : Nat, s : 0 .. Width, add : {0, 1}]]
  BY <1>3, <1>5, <1>6 DEF Store, DivTypeOK
<1>9. DivisionExact'
  <2> SUFFICES ASSUME NEW i \in Finished', NEW n \in Positions
               PROVE  (n * magic'[i].M) \div Pow[Width + magic'[i].s] = n \div strides'[i]
    BY DEF DivisionExact, Quotient, Positions, Word
  <2>1. CASE i = left
    BY <1>5, <2>1
  <2>2. CASE i # left
    BY <1>5, <1>6, <2>2 DEF DivisionExact, Quotient
  <2>. QED
    BY <2>1, <2>2
<1>10. \A i \in Finished' : magic'[i].M < Word * Word
  BY <1>5, <1>6
<1>. QED
  BY <1>1, <1>2, <1>4, <1>7, <1>8, <1>9, <1>10, SMTT(20) DEF DivTypeOK

(* A stride of one is multiplied by a word and shifted by one.             *)
LEMMA DivideByOneKeeps ==
    IInv /\ DivideByOne => IInv'
<1> SUFFICES ASSUME IInv, DivideByOne
             PROVE  IInv'
  OBVIOUS
<1>1. Word \in Nat /\ Word < Word * Word /\ 0 \in 0 .. Width
  <2>1. 2 * Word <= Word * Word
    BY WordFacts, TimesMonotone
  <2>. QED
    BY <2>1, WordFacts
<1>2. \A n \in Positions : (n * Word) \div Pow[Width + 0] = n \div d
  <2> SUFFICES ASSUME NEW n \in Positions
               PROVE  (n * Word) \div Word = n \div 1
    BY WordFacts DEF DivideByOne
  <2>1. n \in Nat /\ n * Word \in Nat
    BY WordFacts, TimesNat DEF Positions
  <2>2. (n * Word) \div Word = n
    BY <2>1, WordFacts, DivUnique
  <2>3. n \div 1 = n
    BY <2>1, DivUnique
  <2>. QED
    BY <2>2, <2>3
<1>3. Store(Word, 0, 0) /\ d \in 1 .. Word - 1 /\ left > 0 /\ nest' = nest
  BY WordFacts DEF DivideByOne, Begin
<1>4. UNCHANGED <<p, nc, q1, r1, q2, r2, add>>
  BY DEF DivideByOne, locals
<1>5. \A i \in Finished : magic[i].M < Word * Word
  BY DEF IInv, WordsSuffice
<1>6. /\ nest' \in Nests
      /\ left' \in 0 .. Len(nest'.incs)
      /\ d' \in 0 .. Word - 1
      /\ strides' \in [Finished' -> 1 .. Word - 1]
      /\ magic' \in [Finished' -> [M : Nat, s : 0 .. Width, add : {0, 1}]]
      /\ phase' = "next"
      /\ DivisionExact'
      /\ \A i \in Finished' : magic'[i].M < Word * Word
  BY <1>1, <1>2, <1>3, <1>5, StoreKeeps DEF IInv
<1>7. DivTypeOK'
  BY <1>4, <1>6 DEF IInv, DivTypeOK, Word
<1>8. WordsSuffice'
  BY <1>4, <1>6 DEF IInv, WordsSuffice, Word
<1>9. MagicuInv'
  BY <1>6 DEF MagicuInv
<1>. QED
  BY <1>6, <1>7, <1>8, <1>9 DEF IInv

(* A division by zero stops the compiler.                                  *)
LEMMA DivideByZeroKeeps ==
    IInv /\ DivideByZero => IInv'
BY DEF IInv, DivideByZero, Begin, DivTypeOK, MagicuInv, DivisionExact, WordsSuffice,
       Quotient, Positions, Finished, Word, locals

(* A quotient is no more than the number divided.                          *)
LEMMA QuotientFits ==
    ASSUME NEW W \in Nat, W >= 2, NEW Q \in Nat, NEW m \in Nat, m > 0,
           NEW R \in Nat, Q * m + R = W
    PROVE  Q < W * W
<1>1. 1 * Q <= m * Q /\ 2 * W <= W * W
  BY TimesMonotone
<1>2. m * Q = Q * m /\ Q * m \in Nat /\ W * W \in Nat
  BY TimesNat, Z3
<1>. QED
  BY <1>1, <1>2

(* The preparation of magicu establishes its invariant.                    *)
LEMMA PrepareKeeps ==
    IInv /\ Prepare => IInv'
<1> SUFFICES ASSUME IInv, Prepare
             PROVE  IInv'
  OBVIOUS
<1> USE DEF Prepare, Begin
<1>1. d \in 2 .. Word - 1 /\ d \in Nat \ {0} /\ Word \in Nat /\ Word - 1 \in Nat
  BY WordFacts DEF IInv, DivTypeOK
<1>2. /\ nc' \in Nat /\ nc' <= Word - 1 /\ Word - 1 < nc' + d
      /\ \E j \in Nat : nc' = j * d
  <2> DEFINE j == (Word - 1) \div d
             r == (Word - 1) % d
  <2>1. j \in Nat /\ r \in Nat /\ r < d /\ Word - 1 = d * j + r
    BY <1>1, DivFacts
  <2>2. nc' = (Word - 1) - r
    BY DEF LargestMultiple
  <2> HIDE DEF j, r
  <2>3. d * j = j * d /\ j * d \in Nat
    BY <1>1, <2>1, TimesNat, Z3
  <2>4. nc' = j * d
    BY <1>1, <2>1, <2>2, <2>3
  <2>. QED
    BY <1>1, <2>1, <2>2, <2>3, <2>4
<1>3. q1' \in Nat /\ r1' \in Nat /\ r1' <= nc' /\ q1' * (nc' + 1) + r1' = Word
  <2> DEFINE m == nc' + 1
  <2>1. m \in Nat \ {0}
    BY <1>2
  <2>2. /\ Word \div m \in Nat /\ Word % m \in Nat /\ Word % m < m
        /\ Word = m * (Word \div m) + (Word % m)
    BY <1>1, <2>1, DivFacts
  <2>3. q1' = Word \div m /\ r1' = Word - q1' * m
    OBVIOUS
  <2>4. m * q1' = q1' * m /\ q1' * m \in Nat
    BY <2>1, <2>2, <2>3, TimesNat, Z3
  <2>. QED
    BY <1>1, <1>2, <2>1, <2>2, <2>3, <2>4
<1>4. q2' \in Nat /\ r2' \in Nat /\ r2' < d /\ q2' * d + r2' = Word
  <2>1. /\ Word \div d \in Nat /\ Word % d \in Nat /\ Word % d < d
        /\ Word = d * (Word \div d) + (Word % d)
    BY <1>1, DivFacts
  <2>2. q2' = Word \div d /\ r2' = Word - q2' * d
    OBVIOUS
  <2>3. d * q2' = q2' * d /\ q2' * d \in Nat
    BY <1>1, <2>1, <2>2, TimesNat, Z3
  <2>. QED
    BY <1>1, <2>1, <2>2, <2>3
<1>5. q1' < Word * Word /\ q2' < Word * Word
  <2>1. PICK Q1 \in Nat, R1 \in Nat, c \in Nat :
           Q1 = q1' /\ R1 = r1' /\ c = nc' /\ Q1 * (c + 1) + R1 = Word
    BY <1>2, <1>3, Zenon
  <2>2. PICK Q2 \in Nat, R2 \in Nat : Q2 = q2' /\ R2 = r2' /\ Q2 * d + R2 = Word
    BY <1>4, Zenon
  <2>3. Q1 < Word * Word /\ Q2 < Word * Word
    BY <1>1, <2>1, <2>2, WordFacts, QuotientFits
  <2>. QED
    BY <2>1, <2>2, <2>3, Zenon
<1>6. DivTypeOK'
  <2>1. {nc', q1', r1', q2', r2'} \subseteq Nat
    BY <1>2, <1>3, <1>4
  <2>2. p' \in Width .. 2 * Width
    BY WordFacts
  <2>3. Finished' = Finished /\ Word' = Word
    BY DEF Finished, Word
  <2>. QED
    BY <2>1, <2>2, <2>3 DEF IInv, DivTypeOK
<1>7. MagicuInv'
  <2>1. left' > 0 /\ d' = d /\ p' = Width
    OBVIOUS
  <2>2. Pow[p'] = Word /\ p' - Width = 0 /\ Pow[p' - Width] = 1 /\ p' < 2 * Width
    BY <2>1, WordFacts DEF Word
  <2>3. Word' = Word
    BY DEF Word
  <2>4. Word + 1 - 1 = Word
    BY <1>1
  <2>5. /\ d' \in 2 .. Word' - 1
        /\ \E j \in Nat : nc' = j * d'
        /\ nc' <= Word' - 1 /\ Word' - 1 < nc' + d'
        /\ q1' * (nc' + 1) + r1' = Pow[p']
        /\ r2' < d' /\ q2' * d' + r2' = Pow[p'] + Pow[p' - Width] - 1
    BY <1>1, <1>2, <1>3, <1>4, <2>1, <2>2, <2>3, <2>4, Zenon
  <2>. QED
    BY <1>3, <2>1, <2>2, <2>5, Zenon DEF MagicuInv
<1>8. DivisionExact'
  BY DEF IInv, DivisionExact, Quotient, Positions, Finished, Word
<1>9. WordsSuffice'
  BY <1>5 DEF IInv, WordsSuffice, Finished, Word
<1>. QED
  BY <1>6, <1>7, <1>8, <1>9 DEF IInv

(* The invariant holds before the first divisor is looked at.              *)
LEMMA InitHolds ==
    DivInit => IInv
<1> SUFFICES ASSUME DivInit
             PROVE  IInv
  OBVIOUS
<1>1. Len(nest.incs) \in Nat /\ nest.outs \in 1 .. Word - 1
  BY NestsAssumption DEF DivInit
<1>2. Finished = {}
  BY <1>1 DEF DivInit, Finished
<1>3. DivTypeOK
  BY <1>1, <1>2, WordFacts DEF DivInit, DivTypeOK
<1>4. WordsSuffice
  <2>1. 2 * Word <= Word * Word
    BY WordFacts, TimesMonotone
  <2>. QED
    BY <1>2, <2>1, WordFacts DEF DivInit, WordsSuffice
<1>. QED
  BY <1>2, <1>3, <1>4 DEF DivInit, IInv, MagicuInv, DivisionExact

-----------------------------------------------------------------------------
(* One bit of magicu.                                                      *)

(* Both divisions stay divisions, of twice the numbers.                    *)
LEMMA DoubleKeeps ==
    ASSUME IInv, Iterate, NEW s, s = p - Width
    PROVE  /\ s \in 0 .. Width - 1
           /\ p' = Width + (s + 1) /\ p' - Width = s + 1 /\ nc' = nc
           /\ q1' \in Nat /\ r1' \in Nat /\ r1' <= nc
           /\ q1' * (nc + 1) + r1' = Pow[Width + (s + 1)]
           /\ q2' \in Nat /\ r2' \in Nat /\ r2' < d
           /\ q2' * d + r2' = Pow[Width + (s + 1)] + Pow[s + 1] - 1
           /\ add' \in {0, 1}
<1>1. /\ d \in 2 .. Word - 1 /\ nc \in Nat /\ q1 \in Nat /\ r1 \in Nat
      /\ q2 \in Nat /\ r2 \in Nat /\ Word \in Nat
      /\ r1 <= nc /\ q1 * (nc + 1) + r1 = Pow[p]
      /\ r2 < d /\ q2 * d + r2 = Pow[p] + Pow[p - Width] - 1
      /\ p \in Width .. 2 * Width - 1 /\ Width \in Nat
  BY WordFacts DEF IInv, DivTypeOK, MagicuInv, Iterate
<1>2. s \in 0 .. Width - 1 /\ p' = Width + (s + 1) /\ p' - Width = s + 1 /\ nc' = nc
  BY <1>1 DEF Iterate, Double
<1>3. /\ Pow[s] \in Nat \ {0} /\ Pow[p] \in Nat \ {0} /\ p = Width + s
      /\ Pow[s + 1] = 2 * Pow[s] /\ Pow[Width + (s + 1)] = 2 * Pow[p]
  <2>1. s \in 0 .. Width /\ s < Width /\ p = Width + s /\ Width + (s + 1) = Width + s + 1
    BY <1>1, <1>2
  <2>. QED
    BY <2>1, PowFacts
<1>4. q1' \in Nat /\ r1' \in Nat /\ r1' <= nc /\ q1' * (nc + 1) + r1' = 2 * Pow[p]
  <2>1. CASE Carry1
    <3>1. q1' = 2 * q1 + 1 /\ r1' = 2 * r1 - nc - 1
      BY <2>1 DEF Iterate, Double
    <3>2. (2 * q1 + 1) * (nc + 1) = 2 * (q1 * (nc + 1)) + nc + 1 /\ q1 * (nc + 1) \in Nat
      BY <1>1, TimesNat, Z3
    <3>. QED
      BY <1>1, <1>3, <2>1, <3>1, <3>2 DEF Carry1
  <2>2. CASE ~Carry1
    <3>1. q1' = 2 * q1 /\ r1' = 2 * r1
      BY <2>2 DEF Iterate, Double
    <3>2. (2 * q1) * (nc + 1) = 2 * (q1 * (nc + 1)) /\ q1 * (nc + 1) \in Nat
      BY <1>1, TimesNat, Z3
    <3>. QED
      BY <1>1, <1>3, <2>2, <3>1, <3>2 DEF Carry1
  <2>. QED
    BY <2>1, <2>2
<1>5. /\ q2' \in Nat /\ r2' \in Nat /\ r2' < d
      /\ q2' * d + r2' = 2 * Pow[p] + 2 * Pow[s] - 1
  <2>1. CASE Carry2
    <3>1. q2' = 2 * q2 + 1 /\ r2' = 2 * r2 + 1 - d
      BY <2>1 DEF Iterate, Double
    <3>2. (2 * q2 + 1) * d = 2 * (q2 * d) + d /\ q2 * d \in Nat
      BY <1>1, TimesNat, Z3
    <3>. QED
      BY <1>1, <1>3, <2>1, <3>1, <3>2 DEF Carry2
  <2>2. CASE ~Carry2
    <3>1. q2' = 2 * q2 /\ r2' = 2 * r2 + 1
      BY <2>2 DEF Iterate, Double
    <3>2. (2 * q2) * d = 2 * (q2 * d) /\ q2 * d \in Nat
      BY <1>1, TimesNat, Z3
    <3>. QED
      BY <1>1, <1>3, <2>2, <3>1, <3>2 DEF Carry2
  <2>. QED
    BY <2>1, <2>2
<1>6. add' \in {0, 1}
  BY DEF IInv, DivTypeOK, Iterate, Double
<1>. QED
  BY <1>2, <1>3, <1>4, <1>5, <1>6

(* What the state says about one step of magicu, in numbers.               *)
LEMMA StepFacts ==
    ASSUME IInv, Iterate
    PROVE  \E s \in Nat, P \in Nat \ {0}, K \in Nat \ {0} :
              /\ P = Pow[Width + s] /\ K = Pow[s] /\ s <= Width
              /\ p' = Width + s /\ p' - Width = s
              /\ P = Word * K /\ K <= Word
              /\ \E Q1 \in Nat, R1 \in Nat, Q2 \in Nat, R2 \in Nat :
                    /\ Q1 = q1' /\ R1 = r1' /\ Q2 = q2' /\ R2 = r2'
                    /\ Q1 * (nc + 1) + R1 = P
                    /\ R2 < d /\ Q2 * d + R2 = P + K - 1
<1> DEFINE s == (p - Width) + 1
           P == Pow[Width + s]
           K == Pow[s]
<1>1. /\ s \in 0 .. Width /\ s \in Nat /\ s <= Width
      /\ p' = Width + s /\ p' - Width = s
  <2>1. p - Width \in 0 .. Width - 1 /\ p' = Width + s /\ p' - Width = s
    BY DoubleKeeps
  <2>. QED
    BY <2>1, WordFacts
<1>2. /\ q1' \in Nat /\ r1' \in Nat /\ q1' * (nc + 1) + r1' = P
      /\ q2' \in Nat /\ r2' \in Nat /\ r2' < d /\ q2' * d + r2' = P + K - 1
  BY DoubleKeeps
<1>3. /\ K \in Nat \ {0} /\ P \in Nat \ {0} /\ P = Word * K /\ K <= Word
  BY <1>1, PowFacts
<1> HIDE DEF s, P, K
<1>4. \E Q1 \in Nat, R1 \in Nat, Q2 \in Nat, R2 \in Nat :
         /\ Q1 = q1' /\ R1 = r1' /\ Q2 = q2' /\ R2 = r2'
         /\ Q1 * (nc + 1) + R1 = P
         /\ R2 < d /\ Q2 * d + R2 = P + K - 1
  BY <1>2, Zenon
<1>5. P = Pow[Width + s] /\ K = Pow[s]
  BY DEF P, K
<1>. QED
  BY <1>1, <1>3, <1>4, <1>5, Zenon

(* What it says about the divisors.                                        *)
LEMMA DivisorFacts ==
    ASSUME IInv, Iterate
    PROVE  /\ Word \in Nat /\ Word >= 2
           /\ d \in Nat \ {0} /\ 2 <= d /\ d <= Word - 1
           /\ nc \in Nat /\ nc <= Word - 1 /\ Word - 1 < nc + d
<1>1. d \in 2 .. Word - 1 /\ nc \in Nat /\ nc <= Word - 1 /\ Word - 1 < nc + d
  BY DEF IInv, DivTypeOK, MagicuInv, Iterate
<1>. QED
  BY <1>1, WordFacts

(* The quotients fit the word of 64 bits, with room for the last + 1.      *)
LEMMA QuotientsFit ==
    ASSUME NEW W \in Nat, NEW K \in Nat \ {0}, NEW P \in Nat \ {0}, P = W * K, K <= W,
           NEW e \in Nat, 2 <= e, e <= W - 1, NEW c \in Nat, W - 1 < c + e,
           NEW Q1 \in Nat, NEW R1 \in Nat, Q1 * (c + 1) + R1 = P,
           NEW Q2 \in Nat, NEW R2 \in Nat, Q2 * e + R2 = P + K - 1
    PROVE  Q1 < W * W /\ Q2 + 1 < W * W
<1>1. P <= W * W /\ 3 * W <= W * W /\ W * W \in Nat
  <2>1. K * W <= W * W /\ 3 * W <= W * W
    BY TimesMonotone
  <2>2. K * W = W * K
    BY Z3
  <2>. QED
    BY <2>1, <2>2, TimesNat
<1>2. 2 * Q1 <= Q1 * (c + 1) /\ 2 * Q2 <= Q2 * e
  <2>1. 2 * Q1 <= (c + 1) * Q1 /\ 2 * Q2 <= e * Q2
    BY TimesMonotone
  <2>2. (c + 1) * Q1 = Q1 * (c + 1) /\ e * Q2 = Q2 * e
    BY Z3
  <2>. QED
    BY <2>1, <2>2
<1>3. Q1 * (c + 1) \in Nat /\ Q2 * e \in Nat
  BY TimesNat
<1>4. 2 * Q1 <= P /\ 2 * Q2 <= P + K - 1
  BY <1>2, <1>3
<1>. QED
  BY <1>1, <1>4

(* Doubling the quotients once more keeps them within two words.           *)
LEMMA DoubleFits ==
    ASSUME IInv, Iterate
    PROVE  q1' < Word * Word /\ q2' + 1 < Word * Word
<1>s. PICK s \in Nat, P \in Nat \ {0}, K \in Nat \ {0} :
         /\ P = Pow[Width + s] /\ K = Pow[s] /\ s <= Width
         /\ p' = Width + s /\ p' - Width = s
         /\ P = Word * K /\ K <= Word
         /\ \E Q1 \in Nat, R1 \in Nat, Q2 \in Nat, R2 \in Nat :
               /\ Q1 = q1' /\ R1 = r1' /\ Q2 = q2' /\ R2 = r2'
               /\ Q1 * (nc + 1) + R1 = P
               /\ R2 < d /\ Q2 * d + R2 = P + K - 1
  BY StepFacts, Zenon
<1>1. PICK Q1 \in Nat, R1 \in Nat, Q2 \in Nat, R2 \in Nat :
         /\ Q1 = q1' /\ R1 = r1' /\ Q2 = q2' /\ R2 = r2'
         /\ Q1 * (nc + 1) + R1 = P
         /\ R2 < d /\ Q2 * d + R2 = P + K - 1
  BY <1>s, Zenon
<1>2. Q1 < Word * Word /\ Q2 + 1 < Word * Word
  <2>1. P = Word * K /\ K <= Word
    BY <1>s, Zenon
  <2>. QED
    BY <1>1, <2>1, DivisorFacts, QuotientsFit
<1>. QED
  BY <1>1, <1>2, Zenon

(* When the loop ends, the next multiplier divides exactly.                *)
LEMMA StopDivides ==
    ASSUME NEW W \in Nat, NEW K \in Nat \ {0}, NEW P \in Nat \ {0}, P = W * K,
           NEW e \in Nat \ {0}, e <= W - 1, NEW c \in Nat, c <= W - 1, W - 1 < c + e,
           NEW j \in Nat, c = j * e,
           NEW Q1 \in Nat, NEW R1 \in Nat, Q1 * (c + 1) + R1 = P,
           NEW Q2 \in Nat, NEW R2 \in Nat, R2 < e, Q2 * e + R2 = P + K - 1,
           P = W * W \/ Q1 >= e - 1 - R2,
           NEW n \in Nat, 2 * n + 4 <= W
    PROVE  Divides(Q2 + 1, P, e, n)
<1> DEFINE delta == e - 1 - R2
<1>1. delta \in Nat /\ delta <= W - 1
  OBVIOUS
<1>2. (Q2 + 1) * e = P + K + delta
  <2>1. (Q2 + 1) * e = Q2 * e + e /\ Q2 * e \in Nat
    BY TimesNat, Z3
  <2>. QED
    BY <2>1
<1>3. P = W * W \/ Q1 >= delta
  OBVIOUS
<1> HIDE DEF delta
<1>4. delta * (c + 1) <= P
  <2>1. CASE P = W * W
    <3>1. delta * (c + 1) <= W * (c + 1) /\ (c + 1) * W <= W * W
      BY <1>1, TimesMonotone
    <3>2. (c + 1) * W = W * (c + 1)
      BY Z3
    <3>3. delta * (c + 1) \in Nat /\ W * (c + 1) \in Nat /\ W * W \in Nat
      BY <1>1, TimesNat
    <3>. QED
      BY <2>1, <3>1, <3>2, <3>3
  <2>2. CASE Q1 >= delta
    <3>1. delta * (c + 1) <= Q1 * (c + 1)
      BY <1>1, <2>2, TimesMonotone
    <3>2. delta * (c + 1) \in Nat /\ Q1 * (c + 1) \in Nat
      BY <1>1, TimesNat
    <3>. QED
      BY <3>1, <3>2
  <2>. QED
    BY <1>3, <2>1, <2>2
<1>5. PICK M \in Nat : M = Q2 + 1
  OBVIOUS
<1>6. M * e = P + K + delta
  BY <1>2, <1>5, Zenon
<1>7. PICK x \in Nat : x = delta
  BY <1>1, Zenon
<1>8. M * e = P + K + x /\ x * (c + 1) <= P
  BY <1>4, <1>6, <1>7, Zenon
<1>9. Divides(M, P, e, n)
  BY <1>8, ExactDivision, Zenon
<1>. QED
  BY <1>5, <1>9, Zenon

(* Where the iteration stops, multiplying and shifting divides exactly.    *)
LEMMA StopIsExact ==
    ASSUME IInv, Iterate, ~Again, NEW n \in Positions
    PROVE  (n * (q2' + 1)) \div Pow[Width + (p' - Width)] = n \div d
<1>s. PICK s \in Nat, P \in Nat \ {0}, K \in Nat \ {0} :
         /\ P = Pow[Width + s] /\ K = Pow[s] /\ s <= Width
         /\ p' = Width + s /\ p' - Width = s
         /\ P = Word * K /\ K <= Word
         /\ \E Q1 \in Nat, R1 \in Nat, Q2 \in Nat, R2 \in Nat :
               /\ Q1 = q1' /\ R1 = r1' /\ Q2 = q2' /\ R2 = r2'
               /\ Q1 * (nc + 1) + R1 = P
               /\ R2 < d /\ Q2 * d + R2 = P + K - 1
  BY StepFacts, Zenon
<1>1. PICK Q1 \in Nat, R1 \in Nat, Q2 \in Nat, R2 \in Nat :
         /\ Q1 = q1' /\ R1 = r1' /\ Q2 = q2' /\ R2 = r2'
         /\ Q1 * (nc + 1) + R1 = P
         /\ R2 < d /\ Q2 * d + R2 = P + K - 1
  BY <1>s, Zenon
<1>2. ~(Width + s < 2 * Width) \/ ~(Q1 < d - 1 - R2)
  <2>1. Again <=> /\ p' < 2 * Width
                  /\ q1' < d - 1 - r2' \/ (q1' = d - 1 - r2' /\ r1' = 0)
    BY DEF Again
  <2>2. ~(p' < 2 * Width) \/ ~(q1' < d - 1 - r2')
    BY <2>1, Zenon
  <2>. QED
    BY <1>s, <1>1, <2>2, Zenon
<1>3. P = Word * Word \/ Q1 >= d - 1 - R2
  <2>1. CASE ~(Width + s < 2 * Width)
    <3>1. s = Width
      BY <1>s, <2>1, WordFacts
    <3>2. K = Word
      BY <1>s, <3>1 DEF Word
    <3>. QED
      BY <1>s, <3>2
  <2>2. CASE ~(Q1 < d - 1 - R2)
    BY <2>2, DivisorFacts
  <2>. QED
    BY <1>2, <2>1, <2>2
<1>4. n \in Nat /\ 2 * n + 4 <= Word
  BY DivisorFacts DEF Positions
<1>5. PICK j \in Nat : nc = j * d
  BY DEF IInv, MagicuInv, Iterate
<1>6. PICK W \in Nat, e \in Nat \ {0}, c \in Nat : W = Word /\ e = d /\ c = nc
  BY DivisorFacts, Zenon
<1>7. /\ P = W * K /\ e <= W - 1 /\ c <= W - 1 /\ W - 1 < c + e /\ c = j * e
      /\ Q1 * (c + 1) + R1 = P /\ R2 < e /\ Q2 * e + R2 = P + K - 1
      /\ P = W * W \/ Q1 >= e - 1 - R2
      /\ 2 * n + 4 <= W
  BY <1>s, <1>1, <1>3, <1>4, <1>5, <1>6, DivisorFacts, Zenon
<1>8. Divides(Q2 + 1, P, e, n)
  BY <1>4, <1>7, StopDivides, Zenon
<1>. QED
  BY <1>s, <1>1, <1>6, <1>8, Zenon DEF Divides

(* A round of the iteration keeps the invariant.                           *)
LEMMA IterateKeeps ==
    IInv /\ Iterate => IInv'
<1> SUFFICES ASSUME IInv, Iterate
             PROVE  IInv'
  OBVIOUS
<1> DEFINE s == p - Width
<1>1. /\ s \in 0 .. Width - 1 /\ p' = Width + (s + 1) /\ p' - Width = s + 1 /\ nc' = nc
      /\ q1' \in Nat /\ r1' \in Nat /\ r1' <= nc
      /\ q1' * (nc + 1) + r1' = Pow[Width + (s + 1)]
      /\ q2' \in Nat /\ r2' \in Nat /\ r2' < d
      /\ q2' * d + r2' = Pow[Width + (s + 1)] + Pow[s + 1] - 1
      /\ add' \in {0, 1}
  BY DoubleKeeps
<1>s. s \in 0 .. Width - 1 /\ p' = Width + (s + 1) /\ q2' \in Nat
  BY DoubleKeeps
<1>2. q1' < Word * Word /\ q2' < Word * Word /\ q2' + 1 < Word * Word
  <2>1. Word * Word \in Nat
    BY WordFacts, TimesNat
  <2>. QED
    BY <1>1, <2>1, DoubleFits
<1>3. /\ d \in 2 .. Word - 1 /\ left > 0 /\ nest' = nest /\ nc \in Nat
      /\ \A i \in Finished : magic[i].M < Word * Word
  BY DEF IInv, DivTypeOK, MagicuInv, WordsSuffice, Iterate
<1>4. CASE Again /\ UNCHANGED <<left, d, strides, magic, phase>>
  <2>1. p' < 2 * Width
    BY <1>4 DEF Again
  <2>2. DivTypeOK'
    <3>1. {nc', q1', r1', q2', r2'} \subseteq Nat /\ add' \in {0, 1}
      BY <1>1, <1>3
    <3>2. p' \in Width .. 2 * Width
      BY <1>s, <2>1, WordFacts
    <3>3. Finished' = Finished /\ Word' = Word
      BY <1>3, <1>4 DEF Finished, Word
    <3>. QED
      BY <1>3, <1>4, <3>1, <3>2, <3>3 DEF IInv, DivTypeOK
  <2>3. MagicuInv'
    BY <1>1, <1>3, <1>4, <2>1 DEF IInv, MagicuInv, Iterate, Word
  <2>4. DivisionExact'
    BY <1>3, <1>4 DEF IInv, DivisionExact, Quotient, Positions, Finished, Word
  <2>5. WordsSuffice'
    BY <1>2, <1>3, <1>4 DEF IInv, WordsSuffice, Finished, Word
  <2>. QED
    BY <2>2, <2>3, <2>4, <2>5 DEF IInv
<1>5. CASE ~Again /\ Store(q2' + 1, p' - Width, add')
  <2>1. q2' + 1 \in Nat /\ p' - Width \in 0 .. Width /\ d \in 1 .. Word - 1
    <3>1. d \in 1 .. Word - 1
      BY DivisorFacts
    <3>2. s + 1 \in 0 .. Width
      BY <1>s, WordFacts
    <3>3. p' - Width \in 0 .. Width
      BY <1>1, <3>2, Zenon
    <3>4. PICK Q \in Nat : Q = q2'
      BY <1>s
    <3>5. Q + 1 \in Nat
      OBVIOUS
    <3>6. q2' + 1 \in Nat
      BY <3>4, <3>5, Zenon
    <3>. QED
      BY <3>1, <3>3, <3>6
  <2>2. \A n \in Positions : (n * (q2' + 1)) \div Pow[Width + (p' - Width)] = n \div d
    BY <1>5, StopIsExact
  <2>3. /\ nest' \in Nests
        /\ left' \in 0 .. Len(nest'.incs)
        /\ d' \in 0 .. Word - 1
        /\ strides' \in [Finished' -> 1 .. Word - 1]
        /\ magic' \in [Finished' -> [M : Nat, s : 0 .. Width, add : {0, 1}]]
        /\ phase' = "next"
        /\ DivisionExact'
        /\ \A i \in Finished' : magic'[i].M < Word * Word
    BY <1>1, <1>2, <1>3, <1>5, <2>1, <2>2, StoreKeeps DEF IInv
  <2>4. DivTypeOK'
    <3>1. {nc', q1', r1', q2', r2'} \subseteq Nat /\ add' \in {0, 1}
      BY <1>1, <1>3
    <3>2. p' \in Width .. 2 * Width
      BY <1>s, WordFacts
    <3>3. Word' = Word
      BY DEF Word
    <3>. QED
      BY <2>3, <3>1, <3>2, <3>3 DEF DivTypeOK
  <2>5. WordsSuffice'
    BY <1>2, <2>3 DEF WordsSuffice, Word
  <2>6. MagicuInv'
    BY <2>3 DEF MagicuInv
  <2>. QED
    BY <2>3, <2>4, <2>5, <2>6 DEF IInv
<1>. QED
  BY <1>4, <1>5 DEF Iterate

-----------------------------------------------------------------------------
(* The strides are the products of the bounds of the inner loops, modulo a *)
(* word, and d is the next of them.                                        *)

StrideLinks ==
    /\ left = Len(nest.incs) => d = nest.outs
    /\ left < Len(nest.incs) =>
          /\ strides[Len(nest.incs)] = nest.outs
          /\ d = (strides[left + 1] * nest.incs[left + 1]) % Word
    /\ \A i \in Finished : i + 1 \in Finished =>
          strides[i] = (strides[i + 1] * nest.incs[i + 1]) % Word

(* At the start no stride is set, and d is that of the innermost loop.     *)
LEMMA LinksAtStart ==
    DivInit => StrideLinks
<1> SUFFICES ASSUME DivInit
             PROVE  StrideLinks
  OBVIOUS
<1>1. Len(nest.incs) \in Nat /\ left = Len(nest.incs) /\ d = nest.outs
  BY NestsAssumption DEF DivInit
<1>2. Finished = {}
  BY <1>1 DEF Finished
<1>. QED
  BY <1>1, <1>2 DEF StrideLinks

(* Only the result of magicu moves them: the divisor joins the strides and *)
(* is multiplied by the bound of its loop.                                 *)
LEMMA StoreLinks ==
    ASSUME DivTypeOK, StrideLinks, left > 0, nest' = nest,
           NEW M, NEW s, NEW a, Store(M, s, a)
    PROVE  StrideLinks'
<1> DEFINE L == Len(nest.incs)
<1>1. L \in Nat /\ left \in 1 .. L /\ left' = left - 1 /\ Word' = Word
  BY NestsAssumption DEF DivTypeOK, Store, Word
<1>2. Finished' = left .. L
  BY <1>1 DEF Finished
<1>3. \A i \in left .. L : strides'[i] = IF i = left THEN d ELSE strides[i]
  BY DEF Store
<1>4. d' = (strides'[left' + 1] * nest.incs[left' + 1]) % Word
  BY <1>1, <1>3 DEF Store
<1>5. strides'[L] = nest.outs
  <2>1. L \in left .. L
    BY <1>1
  <2>. QED
    BY <1>1, <1>3, <2>1 DEF StrideLinks
<1>6. ASSUME NEW i \in Finished', i + 1 \in Finished'
      PROVE  strides'[i] = (strides'[i + 1] * nest.incs[i + 1]) % Word
  <2>1. /\ i \in left .. L /\ i + 1 \in left .. L /\ i + 1 # left
        /\ strides'[i + 1] = strides[i + 1]
    BY <1>1, <1>2, <1>3, <1>6
  <2>2. CASE i = left
    BY <1>1, <1>3, <2>1, <2>2 DEF StrideLinks
  <2>3. CASE i # left
    <3>1. i \in Finished /\ i + 1 \in Finished /\ strides'[i] = strides[i]
      BY <1>1, <1>3, <2>1, <2>3 DEF Finished
    <3>. QED
      BY <2>1, <3>1 DEF StrideLinks
  <2>. QED
    BY <2>2, <2>3
<1>. QED
  BY <1>1, <1>4, <1>5, <1>6 DEF StrideLinks

(* A step to the next loop multiplies the stride by that loop's count.     *)
LEMMA LinksKept ==
    IInv /\ StrideLinks /\ [DivNext]_divVars => StrideLinks'
<1> SUFFICES ASSUME IInv, StrideLinks, [DivNext]_divVars
             PROVE  StrideLinks'
  OBVIOUS
<1>1. CASE UNCHANGED <<nest, left, d, strides>>
  BY <1>1 DEF StrideLinks, Finished, Word
<1>2. CASE DivideByOne
  BY <1>2, StoreLinks DEF IInv, DivideByOne, Begin
<1>3. CASE Iterate /\ ~UNCHANGED <<left, d, strides, magic, phase>>
  <2>1. left > 0
    BY <1>3 DEF IInv, Iterate, MagicuInv
  <2>. QED
    BY <1>3, <2>1, StoreLinks DEF IInv, Iterate
<1>. QED
  BY <1>1, <1>2, <1>3
     DEF DivNext, DivideByZero, Prepare, Iterate, Begin, divVars

-----------------------------------------------------------------------------
(* The nest as numbers.                                                    *)

(* The elements of the loops down to i, and the element of the first i     *)
(* loops that position n belongs to, as the model recurs to them.          *)
Elements == CHOOSE product :
    product = [i \in 0 .. Len(nest.incs) |->
                  IF i = 0 THEN nest.outs ELSE product[i - 1] * nest.incs[i]]

Outer(n) == CHOOSE iteration :
    iteration = [i \in 0 .. Len(nest.incs) |->
                    IF i = 0 THEN 0 ELSE iteration[i - 1] * nest.incs[i] + Counter(i, n)]

(* The counts of a nest are words.                                         *)
LEMMA NestFacts ==
    ASSUME DivTypeOK
    PROVE  /\ Len(nest.incs) \in Nat
           /\ nest.outs \in Nat /\ nest.outs >= 1 /\ nest.outs < Word
           /\ \A i \in 1 .. Len(nest.incs) : nest.incs[i] \in Nat
<1> DEFINE S == 0 .. Word - 1
<1>1. nest.incs \in Seq(S) /\ nest.outs \in 1 .. Word - 1 /\ Word \in Nat
  BY NestsAssumption, WordFacts DEF DivTypeOK
<1>2. nest.outs \in Nat /\ nest.outs >= 1 /\ nest.outs < Word
  BY <1>1
<1>3. S \subseteq Nat
  BY <1>1
<1> HIDE DEF S
<1>4. Len(nest.incs) \in Nat /\ \A i \in 1 .. Len(nest.incs) : nest.incs[i] \in S
  BY <1>1
<1>. QED
  BY <1>2, <1>3, <1>4

(* Elements is what it is defined to be.                                   *)
LEMMA ElementsUnfold ==
    ASSUME DivTypeOK
    PROVE  /\ Elements \in [0 .. Len(nest.incs) -> Nat]
           /\ Elements[0] = nest.outs
           /\ \A i \in 1 .. Len(nest.incs) : Elements[i] = Elements[i - 1] * nest.incs[i]
           /\ Total = Elements[Len(nest.incs)]
<1> DEFINE L == Len(nest.incs)
           g == [x \in (1 .. L) \X Nat |-> x[2] * nest.incs[x[1]]]
<1>1. /\ L \in Nat /\ nest.outs \in Nat
      /\ \A i \in 1 .. L : nest.incs[i] \in Nat
  BY NestFacts
<1>2. g \in [(1 .. L) \X Nat -> Nat]
  BY <1>1, TimesNat
<1>3. PICK f : Unfolds(Nat, nest.outs, g, L, f)
  <2> HIDE DEF L, g
  <2>. QED
    BY <1>1, <1>2, BoundedRecursion
<1>4. f \in [0 .. L -> Nat]
  BY <1>3 DEF Unfolds
<1>5. ASSUME NEW i \in 1 .. L
      PROVE  g[<<i, f[i - 1]>>] = f[i - 1] * nest.incs[i]
  <2>1. f[i - 1] \in Nat
    BY <1>1, <1>4
  <2>. QED
    BY <2>1
<1>6. f = [i \in 0 .. L |-> IF i = 0 THEN nest.outs ELSE f[i - 1] * nest.incs[i]]
  <2>1. \A i \in 0 .. L : i # 0 => i \in 1 .. L
    BY <1>1
  <2> HIDE DEF g, L
  <2>. QED
    BY <1>3, <1>5, <2>1 DEF Unfolds
<1>7. Elements = [i \in 0 .. L |->
                     IF i = 0 THEN nest.outs ELSE Elements[i - 1] * nest.incs[i]]
  BY <1>6 DEF Elements
<1>8. \A h : h = [i \in 0 .. L |-> IF i = 0 THEN nest.outs ELSE h[i - 1] * nest.incs[i]]
             => h = f
  <2> SUFFICES ASSUME NEW h,
                      h = [i \in 0 .. L |-> IF i = 0 THEN nest.outs ELSE h[i - 1] * nest.incs[i]]
               PROVE  h = f
    OBVIOUS
  <2> DEFINE T == {i \in 0 .. L : h[i] = f[i]}
  <2>1. 0 \in T
    BY <1>1, <1>6
  <2>2. ASSUME NEW i \in 0 .. L - 1, i \in T PROVE i + 1 \in T
    <3>1. i + 1 \in 0 .. L /\ i + 1 # 0 /\ (i + 1) - 1 = i
      BY <1>1
    <3>2. h[i + 1] = h[i] * nest.incs[i + 1]
      BY <3>1
    <3>3. f[i + 1] = f[i] * nest.incs[i + 1]
      BY <1>6, <3>1
    <3>. QED
      BY <2>2, <3>1, <3>2, <3>3
  <2>3. \A i \in 0 .. L : i \in T
    <3> HIDE DEF T, L
    <3>. QED
      BY <1>1, <2>1, <2>2, BoundedInduction
  <2>. QED
    BY <1>6, <2>3
<1>9. Elements = f
  BY <1>7, <1>8
<1>. QED
  <2>1. ASSUME NEW i \in 1 .. L PROVE f[i] = f[i - 1] * nest.incs[i]
    BY <1>1, <1>6
  <2>2. f[0] = nest.outs
    BY <1>1, <1>6
  <2>3. Total = Elements[L]
    BY DEF Total, Elements
  <2> HIDE DEF L
  <2>. QED
    BY <1>4, <1>9, <2>1, <2>2, <2>3 DEF L

(* The counters are numbers once every loop has its stride.                *)
LEMMA OuterUnfolds ==
    ASSUME DivTypeOK, NEW n \in Nat,
           \A i \in 1 .. Len(nest.incs) : Counter(i, n) \in Nat
    PROVE  /\ Outer(n) \in [0 .. Len(nest.incs) -> Nat]
           /\ Outer(n)[0] = 0
           /\ \A i \in 1 .. Len(nest.incs) :
                 Outer(n)[i] = Outer(n)[i - 1] * nest.incs[i] + Counter(i, n)
           /\ Recombined(n) = Outer(n)[Len(nest.incs)] * nest.outs + (n % nest.outs)
<1> DEFINE L == Len(nest.incs)
           g == [x \in (1 .. L) \X Nat |-> x[2] * nest.incs[x[1]] + Counter(x[1], n)]
<1>1. L \in Nat /\ \A i \in 1 .. L : nest.incs[i] \in Nat
  BY NestFacts
<1>2. g \in [(1 .. L) \X Nat -> Nat]
  <2>1. \A x \in (1 .. L) \X Nat : x[2] * nest.incs[x[1]] \in Nat
    BY <1>1, TimesNat
  <2>2. \A a, b \in Nat : a + b \in Nat
    OBVIOUS
  <2>3. \A x \in (1 .. L) \X Nat : Counter(x[1], n) \in Nat
    OBVIOUS
  <2>4. \A x \in (1 .. L) \X Nat : x[2] * nest.incs[x[1]] + Counter(x[1], n) \in Nat
    BY <2>1, <2>2, <2>3, Zenon
  <2>. QED
    BY <2>4, Zenon
<1>3. PICK f : Unfolds(Nat, 0, g, L, f)
  <2> HIDE DEF L, g
  <2>. QED
    BY <1>1, <1>2, BoundedRecursion
<1>4. f \in [0 .. L -> Nat]
  BY <1>3 DEF Unfolds
<1>5. ASSUME NEW i \in 1 .. L
      PROVE  g[<<i, f[i - 1]>>] = f[i - 1] * nest.incs[i] + Counter(i, n)
  <2>1. f[i - 1] \in Nat
    BY <1>1, <1>4
  <2>. QED
    BY <2>1
<1>6. f = [i \in 0 .. L |-> IF i = 0 THEN 0 ELSE f[i - 1] * nest.incs[i] + Counter(i, n)]
  <2>1. \A i \in 0 .. L : i # 0 => i \in 1 .. L
    BY <1>1
  <2> HIDE DEF g, L
  <2>. QED
    BY <1>3, <1>5, <2>1 DEF Unfolds
<1> DEFINE h == Outer(n)
<1>7. h = [i \in 0 .. L |-> IF i = 0 THEN 0 ELSE h[i - 1] * nest.incs[i] + Counter(i, n)]
  BY <1>6 DEF Outer
<1>8. \A i \in 0 .. L : h[i] = f[i]
  <2> HIDE DEF h
  <2> DEFINE T == {i \in 0 .. L : h[i] = f[i]}
  <2>1. 0 \in T
    BY <1>1, <1>6, <1>7
  <2>2. ASSUME NEW i \in 0 .. L - 1, i \in T PROVE i + 1 \in T
    <3>1. i + 1 \in 0 .. L /\ i + 1 # 0 /\ (i + 1) - 1 = i
      BY <1>1
    <3>2. h[i + 1] = h[i] * nest.incs[i + 1] + Counter(i + 1, n)
      BY <1>7, <3>1
    <3>3. f[i + 1] = f[i] * nest.incs[i + 1] + Counter(i + 1, n)
      BY <1>6, <3>1
    <3>. QED
      BY <2>2, <3>1, <3>2, <3>3
  <2>3. \A i \in 0 .. L : i \in T
    <3> HIDE DEF T, L
    <3>. QED
      BY <1>1, <2>1, <2>2, BoundedInduction
  <2>. QED
    BY <2>3
<1>9. Recombined(n) = h[L] * nest.outs + (n % nest.outs)
  BY DEF Recombined, Outer
<1>10. h[0] = 0
  <2> HIDE DEF h
  <2>. QED
    BY <1>1, <1>7
<1>11. ASSUME NEW i \in 1 .. L PROVE h[i] = h[i - 1] * nest.incs[i] + Counter(i, n)
  <2> HIDE DEF h
  <2>1. i \in 0 .. L /\ i # 0
    BY <1>1
  <2>. QED
    BY <1>7, <2>1
<1>12. h \in [0 .. L -> Nat]
  <2>1. h = [i \in 0 .. L |-> h[i]]
    <3> HIDE DEF h
    <3>. QED
      BY <1>7
  <2> HIDE DEF h, L
  <2>. QED
    BY <1>4, <1>8, <2>1
<1>. QED
  <2> HIDE DEF h
  <2>1. \A i \in 1 .. L : h[i] = h[i - 1] * nest.incs[i] + Counter(i, n)
    BY <1>11
  <2> HIDE DEF L
  <2>. QED
    BY <1>9, <1>10, <2>1, <1>12 DEF h, L

(* Dividing by one bound after the other is dividing by their product.     *)
LEMMA DivideTwice ==
    ASSUME NEW n \in Nat, NEW s \in Nat \ {0}, NEW b \in Nat \ {0}
    PROVE  n \div (s * b) = (n \div s) \div b
<1> DEFINE x == n \div s
           q == x \div b
<1>1. x \in Nat /\ n % s \in Nat /\ n % s < s /\ n = s * x + (n % s)
  BY DivFacts
<1> HIDE DEF x
<1> DEFINE r == x % b
<1>2. q \in Nat /\ r \in Nat /\ r < b /\ x = b * q + r
  BY <1>1, DivFacts
<1> HIDE DEF q, r
<1>3. s * b \in Nat \ {0}
  BY Z3
<1>4. s * x = q * (s * b) + s * r
  <2>1. s * (b * q + r) = q * (s * b) + s * r
    BY <1>2, Z3
  <2>. QED
    BY <1>2, <2>1
<1>5. s * r <= s * b - s /\ s * r \in Nat
  <2>1. \A u \in Nat : u < b => s * u <= s * b - s /\ s * u \in Nat
    <3> SUFFICES ASSUME NEW u \in Nat, u < b
                 PROVE  s * u <= s * b - s /\ s * u \in Nat
      OBVIOUS
    <3>1. (u + 1) * s <= b * s
      BY TimesMonotone
    <3>2. (u + 1) * s = s * u + s /\ b * s = s * b /\ s * u \in Nat
      BY Z3
    <3>. QED
      BY <1>3, <3>1, <3>2
  <2>. QED
    BY <1>2, <2>1
<1>6. q * (s * b) \in Nat
  BY <1>2, <1>3, TimesNat
<1>7. q * (s * b) <= n /\ n < q * (s * b) + s * b
  BY <1>1, <1>3, <1>4, <1>5, <1>6
<1>8. n \div (s * b) = q
  BY <1>2, <1>3, <1>7, DivUnique
<1>. QED
  BY <1>8 DEF q, x

(* When the elements of the nest are fewer than a word holds, no stride    *)
(* wraps: o times a stride is at most o times the number of elements.      *)
LEMMA StridesExact ==
    ASSUME NEW L \in Nat, NEW E \in [0 .. L -> Nat], NEW b \in [1 .. L -> Nat],
           NEW s \in [1 .. L -> Nat], NEW W \in Nat \ {0}, NEW o \in Nat, o >= 1,
           E[0] = o, \A i \in 1 .. L : E[i] = E[i - 1] * b[i],
           1 <= E[L], E[L] < W, L > 0 => s[L] = o,
           \A i \in 1 .. L - 1 : s[i] = (s[i + 1] * b[i + 1]) % W
    PROVE  /\ \A i \in 1 .. L : b[i] >= 1
           /\ \A i \in 1 .. L - 1 : s[i] = s[i + 1] * b[i + 1]
           /\ L > 0 => s[1] * b[1] = E[L]
<1>1. \A i \in 1 .. L : /\ E[i - 1] \in Nat /\ b[i] \in Nat /\ E[i] \in Nat
                        /\ E[i] >= 1 => E[i - 1] >= 1 /\ b[i] >= 1 /\ E[i] >= E[i - 1]
  <2>1. \A u, v \in Nat : u * v >= 1 => u >= 1 /\ v >= 1 /\ u * v >= u
    <3> SUFFICES ASSUME NEW u \in Nat, NEW v \in Nat, u * v >= 1
                 PROVE  u >= 1 /\ v >= 1 /\ u * v >= u
      OBVIOUS
    <3>1. u >= 1 /\ v >= 1
      BY Z3
    <3>2. 1 * u <= v * u /\ v * u = u * v
      BY <3>1, TimesMonotone
    <3>. QED
      BY <3>1, <3>2
  <2> SUFFICES ASSUME NEW i \in 1 .. L
               PROVE  /\ E[i - 1] \in Nat /\ b[i] \in Nat /\ E[i] \in Nat
                      /\ E[i] >= 1 => E[i - 1] >= 1 /\ b[i] >= 1 /\ E[i] >= E[i - 1]
    OBVIOUS
  <2>2. /\ E[i - 1] \in Nat /\ b[i] \in Nat /\ E[i] \in Nat
        /\ E[i] = E[i - 1] * b[i]
    OBVIOUS
  <2>3. E[i - 1] * b[i] >= 1 =>
           E[i - 1] >= 1 /\ b[i] >= 1 /\ E[i - 1] * b[i] >= E[i - 1]
    BY <2>1, <2>2, Zenon
  <2>. QED
    BY <2>2, <2>3
<1>2. \A i \in 0 .. L : E[i] >= 1
  <2> DEFINE T == {k \in 0 .. L : E[L - k] >= 1}
  <2>1. 0 \in T
    OBVIOUS
  <2>2. ASSUME NEW k \in 0 .. L - 1, k \in T PROVE k + 1 \in T
    <3>1. L - k \in 1 .. L /\ (L - k) - 1 = L - (k + 1) /\ k + 1 \in 0 .. L
      OBVIOUS
    <3>. QED
      BY <1>1, <2>2, <3>1
  <2>3. \A k \in 0 .. L : k \in T
    <3> HIDE DEF T
    <3>. QED
      BY <2>1, <2>2, BoundedInduction
  <2>4. ASSUME NEW i \in 0 .. L PROVE E[i] >= 1
    <3>1. L - i \in 0 .. L /\ L - (L - i) = i
      OBVIOUS
    <3>. QED
      BY <2>3, <3>1
  <2>. QED
    BY <2>4
<1>3. \A i \in 1 .. L : b[i] >= 1
  BY <1>1, <1>2
<1>4. \A i \in 0 .. L : E[i] >= o
  <2> DEFINE T == {i \in 0 .. L : E[i] >= o}
  <2>1. 0 \in T
    OBVIOUS
  <2>2. ASSUME NEW i \in 0 .. L - 1, i \in T PROVE i + 1 \in T
    <3>1. i + 1 \in 1 .. L /\ (i + 1) - 1 = i /\ i + 1 \in 0 .. L
      OBVIOUS
    <3>2. E[i + 1] >= E[i] /\ E[i] \in Nat /\ E[i + 1] \in Nat
      BY <1>1, <1>2, <3>1
    <3>. QED
      BY <2>2, <3>1, <3>2
  <2>3. \A i \in 0 .. L : i \in T
    <3> HIDE DEF T
    <3>. QED
      BY <2>1, <2>2, BoundedInduction
  <2>. QED
    BY <2>3
<1> DEFINE X == E[L]
<1>5. ASSUME NEW i \in 1 .. L - 1, E[i + 1] * s[i + 1] = X * o
      PROVE  s[i] = s[i + 1] * b[i + 1] /\ E[i] * s[i] = X * o
  <2> DEFINE e == E[i]
             c == b[i + 1]
             t == s[i + 1]
  <2>1. /\ e \in Nat /\ c \in Nat /\ t \in Nat /\ X \in Nat /\ e >= o
        /\ E[i + 1] = e * c
    <3>1. i \in 0 .. L /\ i + 1 \in 1 .. L /\ (i + 1) - 1 = i /\ L \in 0 .. L
      OBVIOUS
    <3>. QED
      BY <1>4, <3>1
  <2>2. s[i] = (t * c) % W
    OBVIOUS
  <2>3. (e * c) * t = X * o /\ X < W
    BY <1>5, <2>1
  <2> HIDE DEF e, c, t, X
  <2>4. e * (t * c) = X * o /\ t * c \in Nat
    BY <2>1, <2>3, Z3
  <2>5. o * (t * c) <= e * (t * c)
    BY <2>1, <2>4, TimesMonotone
  <2>6. o * (t * c) < o * (X + 1)
    <3>1. o * (X + 1) = X * o + o /\ X * o \in Nat
      BY <2>1, Z3
    <3>. QED
      BY <2>4, <2>5, <3>1
  <2>7. t * c < X + 1
    <3>1. \A z \in Nat : o * z < o * (X + 1) => z < X + 1
      BY <2>1, TimesCancels
    <3>. QED
      BY <2>4, <2>6, <3>1
  <2>8. \A z \in Nat : z < W => z % W = z
    <3> SUFFICES ASSUME NEW z \in Nat, z < W
                 PROVE  z % W = z
      OBVIOUS
    <3>1. z \div W = 0
      <4>1. 0 * W <= z /\ z < 0 * W + W
        OBVIOUS
      <4>. QED
        BY <4>1, DivUnique
    <3>2. z = W * 0 + (z % W) /\ z % W \in Nat
      BY <3>1, DivFacts
    <3>. QED
      BY <3>2
  <2>9. (t * c) % W = t * c
    <3>1. t * c < W
      BY <2>1, <2>3, <2>4, <2>7
    <3>. QED
      BY <2>4, <2>8, <3>1, Zenon
  <2>10. s[i] = t * c /\ e * s[i] = X * o
    BY <2>2, <2>4, <2>9, Zenon
  <2>. QED
    BY <2>10, Zenon DEF e, t, c
<1>6. \A i \in 1 .. L : E[i] * s[i] = X * o
  <2> DEFINE T == {k \in 0 .. L : k < L => E[L - k] * s[L - k] = X * o}
  <2>1. 0 \in T
    OBVIOUS
  <2>2. ASSUME NEW k \in 0 .. L - 1, k \in T PROVE k + 1 \in T
    <3>1. CASE k + 1 = L
      BY <3>1
    <3>2. CASE k + 1 < L
      <4> DEFINE i == L - (k + 1)
      <4>1. i \in 1 .. L - 1 /\ i + 1 = L - k
        BY <3>2
      <4>2. E[i + 1] * s[i + 1] = X * o
        BY <2>2, <4>1
      <4>3. E[i] * s[i] = X * o
        <5> HIDE DEF i, X
        <5>. QED
          BY <1>5, <4>1, <4>2
      <4>. QED
        BY <4>3
    <3>. QED
      BY <3>1, <3>2
  <2>3. \A k \in 0 .. L : k \in T
    <3> HIDE DEF T
    <3>. QED
      BY <2>1, <2>2, BoundedInduction
  <2>4. ASSUME NEW i \in 1 .. L PROVE E[i] * s[i] = X * o
    <3>1. L - i \in 0 .. L /\ L - i < L /\ L - (L - i) = i
      OBVIOUS
    <3> HIDE DEF X
    <3>. QED
      BY <2>3, <3>1
  <2>. QED
    BY <2>4
<1>7. \A i \in 1 .. L - 1 : s[i] = s[i + 1] * b[i + 1]
  <2> SUFFICES ASSUME NEW i \in 1 .. L - 1
               PROVE  s[i] = s[i + 1] * b[i + 1]
    OBVIOUS
  <2>1. i + 1 \in 1 .. L
    OBVIOUS
  <2> HIDE DEF X
  <2>. QED
    BY <1>5, <1>6, <2>1
<1>8. ASSUME L > 0 PROVE s[1] * b[1] = X
  <2>1. /\ E[1] = o * b[1] /\ E[1] * s[1] = X * o
        /\ b[1] \in Nat /\ s[1] \in Nat /\ X \in Nat
    <3>1. 1 \in 1 .. L /\ 1 - 1 = 0 /\ L \in 0 .. L
      BY <1>8
    <3>2. E[1] * s[1] = X * o
      <4> HIDE DEF X
      <4>. QED
        BY <1>6, <3>1
    <3>. QED
      BY <3>1, <3>2
  <2> HIDE DEF X
  <2>2. \A u, v \in Nat : (o * u) * v = X * o => v * u = X
    <3> SUFFICES ASSUME NEW u \in Nat, NEW v \in Nat, (o * u) * v = X * o
                 PROVE  v * u = X
      OBVIOUS
    <3>1. v * u \in Nat /\ o * (v * u) = o * X
      BY <2>1, Z3
    <3>. QED
      BY <2>1, <3>1, Z3
  <2>. QED
    BY <2>1, <2>2
<1>. QED
  BY <1>3, <1>7, <1>8

(* R is built from n digit by digit: b are the bounds and s the strides of *)
(* L loops, outermost first, and n is below what the loops count.          *)
Digits(L, b, s, n, R) ==
    /\ L \in Nat /\ n \in Nat /\ R \in [0 .. L -> Nat] /\ R[0] = 0
    /\ b \in [1 .. L -> Nat \ {0}] /\ s \in [1 .. L -> Nat \ {0}]
    /\ \A i \in 1 .. L - 1 : s[i] = s[i + 1] * b[i + 1]
    /\ L > 0 => n < s[1] * b[1]
    /\ \A i \in 1 .. L : R[i] = R[i - 1] * b[i] + ((n \div s[i]) % b[i])

(* The digits of n, read from the outermost loop on, make up n divided by  *)
(* the stride of the loop they have reached.                               *)
LEMMA DigitsExact ==
    ASSUME NEW L, NEW b, NEW s, NEW n, NEW R, Digits(L, b, s, n, R)
    PROVE  \A i \in 1 .. L : R[i] = n \div s[i]
<1>0. /\ L \in Nat /\ n \in Nat /\ R \in [0 .. L -> Nat] /\ R[0] = 0
      /\ b \in [1 .. L -> Nat \ {0}] /\ s \in [1 .. L -> Nat \ {0}]
      /\ \A i \in 1 .. L - 1 : s[i] = s[i + 1] * b[i + 1]
      /\ L > 0 => n < s[1] * b[1]
      /\ \A i \in 1 .. L : R[i] = R[i - 1] * b[i] + ((n \div s[i]) % b[i])
  BY DEF Digits
<1> DEFINE T == {i \in 0 .. L : i > 0 => R[i] = n \div s[i]}
<1>1. 0 \in T
  BY <1>0
<1>2. ASSUME NEW i \in 0 .. L - 1, i \in T PROVE i + 1 \in T
  <2> DEFINE c == b[i + 1]
             t == s[i + 1]
             x == n \div t
  <2>1. /\ c \in Nat \ {0} /\ t \in Nat \ {0} /\ R[i] \in Nat
        /\ R[i + 1] = R[i] * c + (x % c)
    <3>1. i + 1 \in 1 .. L /\ (i + 1) - 1 = i /\ i \in 0 .. L
      BY <1>0
    <3>. QED
      BY <1>0, <3>1
  <2>2. x \div c = R[i]
    <3>1. CASE i = 0
      <4>1. n < t * c /\ n = t * x + (n % t) /\ x \in Nat /\ n % t \in Nat
        <5>1. n < t * c
          BY <1>0, <3>1
        <5> HIDE DEF t
        <5>. QED
          BY <1>0, <2>1, <5>1, DivFacts
      <4> HIDE DEF t, c, x
      <4>2. t * x < t * c
        <5>1. t * x \in Nat /\ t * c \in Nat
          BY <2>1, <4>1, TimesNat
        <5>. QED
          BY <4>1, <5>1
      <4>3. x < c
        BY <2>1, <4>1, <4>2, TimesCancels
      <4>4. x \div c = 0
        <5>1. 0 * c <= x /\ x < 0 * c + c
          BY <2>1, <4>1, <4>3
        <5>. QED
          BY <2>1, <4>1, <5>1, DivUnique
      <4>5. R[i] = 0
        BY <1>0, <3>1
      <4>. QED
        BY <4>4, <4>5, Zenon
    <3>2. CASE i > 0
      <4>1. i \in 1 .. L - 1
        BY <1>0, <3>2
      <4>2. R[i] = n \div s[i] /\ s[i] = t * c
        BY <1>0, <1>2, <3>2, <4>1
      <4> HIDE DEF t, c
      <4>3. n \div (t * c) = (n \div t) \div c
        BY <1>0, <2>1, DivideTwice
      <4>. QED
        BY <4>2, <4>3, Zenon DEF x
    <3>. QED
      BY <3>1, <3>2
  <2>3. R[i + 1] = x
    <3> HIDE DEF t, c
    <3>1. x \in Nat
      BY <1>0, <2>1, DivFacts
    <3> HIDE DEF x
    <3>2. x = c * (x \div c) + (x % c)
      BY <2>1, <3>1, DivFacts
    <3>3. \A u \in Nat : c * u = u * c
      BY <2>1, Z3
    <3>. QED
      BY <2>1, <2>2, <3>2, <3>3
  <2>4. i + 1 \in 0 .. L
    BY <1>0
  <2>. QED
    BY <2>3, <2>4
<1>3. \A i \in 0 .. L : i \in T
  <2> HIDE DEF T
  <2>. QED
    BY <1>0, <1>1, <1>2, BoundedInduction
<1>. QED
  <2> SUFFICES ASSUME NEW i \in 1 .. L
               PROVE  R[i] = n \div s[i]
    OBVIOUS
  <2>1. i \in T /\ i > 0
    BY <1>0, <1>3
  <2>. QED
    BY <2>1, Zenon

(* Once every loop has its stride, exact division and exact strides make   *)
(* the counters of the unit those of the program.                          *)
LEMMA LinksUnroll ==
    IInv /\ StrideLinks => UnrollExact
<1> SUFFICES ASSUME IInv, StrideLinks, left = 0, Total - 1 \in Positions,
                    NEW n \in 0 .. Total - 1
             PROVE  Recombined(n) = n
  BY DEF UnrollExact
<1> DEFINE L == Len(nest.incs)
           b == [i \in 1 .. L |-> nest.incs[i]]
           E == Elements
           o == nest.outs
<1>1. DivTypeOK /\ DivisionExact
  BY DEF IInv
<1>2. /\ L \in Nat /\ o \in Nat /\ o >= 1 /\ Word \in Nat \ {0}
      /\ \A i \in 1 .. L : nest.incs[i] \in Nat
  BY <1>1, NestFacts, WordFacts
<1>3. /\ E \in [0 .. L -> Nat] /\ E[0] = o /\ Total = E[L]
      /\ \A i \in 1 .. L : E[i] = E[i - 1] * nest.incs[i]
  BY <1>1, ElementsUnfold
<1>4. strides \in [1 .. L -> Nat \ {0}]
  <2>1. Finished = 1 .. L
    BY <1>2 DEF Finished
  <2>2. 1 .. Word - 1 \subseteq Nat \ {0}
    BY <1>2
  <2>. QED
    BY <1>1, <2>1, <2>2 DEF DivTypeOK
<1>5. Total \in Nat /\ Total >= 1 /\ Total < Word
  <2>1. Total \in Nat
    BY <1>2, <1>3
  <2>2. Word \div 2 \in Nat /\ Word \div 2 <= Word
    BY <1>2
  <2>. QED
    BY <1>2, <2>1, <2>2 DEF Positions
<1>6. n \in Nat /\ n < Total /\ n \in Positions
  BY <1>2, <1>5 DEF Positions
<1>7. /\ L > 0 => strides[L] = o
      /\ \A i \in 1 .. L - 1 : strides[i] = (strides[i + 1] * b[i + 1]) % Word
  BY <1>2 DEF StrideLinks, Finished
<1>8. b \in [1 .. L -> Nat] /\ \A i \in 1 .. L : E[i] = E[i - 1] * b[i]
  BY <1>2, <1>3
<1>s. strides \in [1 .. L -> Nat]
  BY <1>4
<1>9. /\ \A i \in 1 .. L : b[i] >= 1
      /\ \A i \in 1 .. L - 1 : strides[i] = strides[i + 1] * b[i + 1]
      /\ L > 0 => strides[1] * b[1] = Total
  <2>1. 1 <= E[L] /\ E[L] < Word
    BY <1>3, <1>5
  <2> HIDE DEF L, b, E, o
  <2>2. /\ L \in Nat /\ E \in [0 .. L -> Nat] /\ b \in [1 .. L -> Nat]
        /\ Word \in Nat \ {0} /\ o \in Nat /\ o >= 1 /\ E[0] = o
    BY <1>2, <1>3, <1>8
  <2>3. /\ \A i \in 1 .. L : b[i] >= 1
        /\ \A i \in 1 .. L - 1 : strides[i] = strides[i + 1] * b[i + 1]
        /\ L > 0 => strides[1] * b[1] = E[L]
    BY <1>s, <1>7, <1>8, <2>1, <2>2, StridesExact, Zenon
  <2>. QED
    BY <1>3, <2>3, Zenon
<1>10. \A i \in 1 .. L : Counter(i, n) = (n \div strides[i]) % b[i]
  <2>1. \A i \in 1 .. L : i \in Finished
    BY <1>2 DEF Finished
  <2>2. \A i \in 1 .. L : Quotient(magic[i], n) = n \div strides[i]
    BY <1>1, <1>6, <2>1 DEF DivisionExact
  <2>. QED
    BY <2>2 DEF Counter
<1>11. b \in [1 .. L -> Nat \ {0}]
  <2>1. \A i \in 1 .. L : b[i] \in Nat \ {0}
    <3> SUFFICES ASSUME NEW i \in 1 .. L
                 PROVE  b[i] \in Nat \ {0}
      OBVIOUS
    <3>1. b[i] \in Nat /\ b[i] >= 1
      <4> HIDE DEF b, L
      <4>. QED
        BY <1>8, <1>9
    <3> HIDE DEF b
    <3>. QED
      BY <3>1
  <2>. QED
    BY <1>8, <2>1
<1>12. \A i \in 1 .. L : Counter(i, n) \in Nat
  <2> SUFFICES ASSUME NEW i \in 1 .. L
               PROVE  Counter(i, n) \in Nat
    OBVIOUS
  <2>1. strides[i] \in Nat \ {0} /\ b[i] \in Nat \ {0}
    BY <1>4, <1>11
  <2> HIDE DEF b
  <2>2. n \div strides[i] \in Nat
    BY <1>6, <2>1, DivFacts
  <2>3. (n \div strides[i]) % b[i] \in Nat
    BY <2>1, <2>2, DivFacts
  <2>. QED
    BY <1>10, <2>3, Zenon
<1> DEFINE R == Outer(n)
<1>13. /\ R \in [0 .. L -> Nat] /\ R[0] = 0
       /\ \A i \in 1 .. L : R[i] = R[i - 1] * nest.incs[i] + Counter(i, n)
       /\ Recombined(n) = R[L] * o + (n % o)
  BY <1>1, <1>6, <1>12, OuterUnfolds
<1>14. \A i \in 1 .. L : R[i] = R[i - 1] * b[i] + ((n \div strides[i]) % b[i])
  <2>1. \A i \in 1 .. L : b[i] = nest.incs[i]
    OBVIOUS
  <2> HIDE DEF b, R, L
  <2>. QED
    BY <1>10, <1>13, <2>1
<1>15. \A i \in 1 .. L : R[i] = n \div strides[i]
  <2>1. L > 0 => n < strides[1] * b[1]
    BY <1>6, <1>9
  <2> HIDE DEF L, b, R
  <2>. QED
    <3>1. Digits(L, b, strides, n, R)
      BY <1>2, <1>4, <1>6, <1>9, <1>11, <1>13, <1>14, <2>1 DEF Digits
    <3>. QED
      BY <3>1, DigitsExact
<1>16. R[L] = n \div o
  <2>1. CASE L = 0
    <3>1. 0 * o <= n /\ n < 0 * o + o
      BY <1>2, <1>3, <1>5, <1>6, <2>1
    <3>2. n \div o = 0
      BY <1>2, <1>6, <3>1, DivUnique
    <3>. QED
      BY <1>13, <2>1, <3>2
  <2>2. CASE L > 0
    <3>1. L \in 1 .. L /\ strides[L] = o
      BY <1>2, <1>7, <2>2
    <3> HIDE DEF R, L, o
    <3>. QED
      BY <1>15, <3>1
  <2>. QED
    BY <1>2, <2>1, <2>2
<1> HIDE DEF o, R
<1>17. n \div o \in Nat /\ n % o \in Nat /\ n = o * (n \div o) + (n % o)
  BY <1>2, <1>6, DivFacts
<1>18. Recombined(n) = (n \div o) * o + (n % o)
  BY <1>13, <1>16
<1>19. \A x \in Nat : x * o = o * x
  BY <1>2, Z3
<1>. QED
  BY <1>17, <1>18, <1>19

-----------------------------------------------------------------------------
(* Theorems.                                                               *)

(* Every step keeps the invariant.                                         *)
LEMMA StepKeeps ==
    IInv /\ [DivNext]_divVars => IInv'
<1>1. CASE UNCHANGED divVars
  BY <1>1 DEF IInv, DivTypeOK, MagicuInv, DivisionExact, WordsSuffice, Quotient,
              Positions, Finished, Word, divVars, locals
<1>. QED
  BY <1>1, DivideByZeroKeeps, DivideByOneKeeps, PrepareKeeps, IterateKeeps DEF DivNext

(* The invariant holds in every reachable state.                           *)
LEMMA Inductive ==
    DivSpec => []IInv
BY InitHolds, StepKeeps, PTL DEF DivSpec

(* CalculateForLoopMagicValues and magicu keep every value within its type, *)
(* for every width of a word and every loop nest.                          *)
THEOREM DivTypeCorrect ==
    DivSpec => []DivTypeOK
BY Inductive, PTL DEF IInv

(* magicu is right: for every width, every stride and every position below *)
(* half a word, multiplying by M and shifting by s divides by the stride.  *)
THEOREM DivisionIsExact ==
    DivSpec => []DivisionExact
BY Inductive, PTL DEF IInv

(* magicu never overflows its 64-bit words, which is what lets the proof,  *)
(* and the code, treat them as numbers.                                    *)
THEOREM MagicuFits ==
    DivSpec => []WordsSuffice
BY Inductive, PTL DEF IInv

(* The unit walks every loop nest as the program does: for every width and *)
(* every nest whose region fits half a word, the counters recovered by     *)
(* multiplying and shifting lead back to the position they came from.      *)
THEOREM UnrollIsExact ==
    DivSpec => []UnrollExact
<1>1. DivInit => StrideLinks
  BY LinksAtStart
<1>2. IInv /\ StrideLinks /\ [DivNext]_divVars => StrideLinks'
  BY LinksKept
<1>3. IInv /\ StrideLinks => UnrollExact
  BY LinksUnroll
<1>. QED
  BY <1>1, <1>2, <1>3, Inductive, PTL DEF DivSpec

=============================================================================
