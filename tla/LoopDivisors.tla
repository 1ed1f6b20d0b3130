----------------------------- MODULE LoopDivisors -----------------------------
(***************************************************************************)
(* ResourceAllocation::CalculateForLoopMagicValues (resource_alloc_pass)   *)
(* and magicu (util.cpp): from the position of an element in the region,   *)
(* the address generation unit recovers the loop counters that produced it *)
(* by dividing by the stride of each loop.  It has no divider: the         *)
(* compiler gives it a multiplier M and a shift s for each loop register.  *)
(*                                                                         *)
(* An action is one pass of the loop of CalculateForLoopMagicValues up to  *)
(* magicu, or one pass of the loop of magicu.  uint32_t is Width bits      *)
(* wide, the wrap of the stride included; uint64_t is twice as wide, and   *)
(* WordsSuffice says that nothing in it wraps.  The unit's own arithmetic  *)
(* is external: Quotient is the product by M shifted right.                *)
(***************************************************************************)
EXTENDS Integers, Sequences

CONSTANTS Width,        \* bits of uint32_t
          Pow,          \* powers of two up to the width of uint64_t
          Nests         \* the loop nests: statements and loop bounds

ASSUME PowTypeAssumption ==
    /\ Width \in Nat \ {0}
    /\ Pow \in [0 .. 2 * Width -> Nat \ {0}]

ASSUME PowAssumption ==
    /\ Pow[1] = 2
    /\ \A j, k \in 0 .. Width : Pow[j + k] = Pow[j] * Pow[k]

Word == Pow[Width]

ASSUME NestsAssumption ==
    \A n \in Nests : /\ n.outs \in 1 .. Word - 1
                     /\ n.incs \in Seq(0 .. Word - 1)

VARIABLES nest,         \* outs: the first divisor; incs: increment_condition,
                        \* outermost loop first
          left,         \* loop registers without magic numbers, from the front
          d,            \* the divisor: the stride of the next loop
          strides,      \* the divisors of the loops done (history)
          magic,        \* hwDivMagic of the loops done
          phase,        \* "next", inside "magicu", or "crash"
          p, nc, q1, r1, q2, r2, add        \* locals of magicu

locals == <<p, nc, q1, r1, q2, r2, add>>
divVars == <<nest, left, d, strides, magic, phase, locals>>

Finished == left + 1 .. Len(nest.incs)

-----------------------------------------------------------------------------
(* magicu.                                                                 *)

(* Faults: a stride of 64 bits, and a stride that forgets the inner loops. *)
StoreWide(M, s, a) ==
    /\ magic' = [i \in left .. Len(nest.incs) |->
                    IF i = left THEN [M |-> M, s |-> s, add |-> a] ELSE magic[i]]
    /\ strides' = [i \in left .. Len(nest.incs) |-> IF i = left THEN d ELSE strides[i]]
    /\ d' = d * nest.incs[left]
    /\ left' = left - 1
    /\ phase' = "next"

StoreBound(M, s, a) ==
    /\ magic' = [i \in left .. Len(nest.incs) |->
                    IF i = left THEN [M |-> M, s |-> s, add |-> a] ELSE magic[i]]
    /\ strides' = [i \in left .. Len(nest.incs) |-> IF i = left THEN d ELSE strides[i]]
    /\ d' = nest.incs[left]
    /\ left' = left - 1
    /\ phase' = "next"

(* The result of magicu(d); then d *= increment_condition.                 *)
Store(M, s, a) ==
    /\ magic' = [i \in left .. Len(nest.incs) |->
                    IF i = left THEN [M |-> M, s |-> s, add |-> a] ELSE magic[i]]
    /\ strides' = [i \in left .. Len(nest.incs) |-> IF i = left THEN d ELSE strides[i]]
    /\ d' = (d * nest.incs[left]) % Word
    /\ left' = left - 1
    /\ phase' = "next"

Begin == phase = "next" /\ left > 0 /\ UNCHANGED nest

DivideByZero == /\ Begin
                /\ d = 0
                /\ phase' = "crash"
                /\ UNCHANGED <<left, d, strides, magic, locals>>

DivideByOne == /\ Begin
               /\ d = 1
               /\ Store(Word, 0, 0)
               /\ UNCHANGED locals

(* The largest multiple of d that fits a word.                             *)
LargestMultiple == (Word - 1) - ((Word - 1) % d)

Prepare == /\ Begin
           /\ d > 1
           /\ p' = Width
           /\ nc' = LargestMultiple
           /\ q1' = Word \div (nc' + 1)
           /\ r1' = Word - q1' * (nc' + 1)
           /\ q2' = Word \div d
           /\ r2' = Word - q2' * d
           /\ add' = 0
           /\ phase' = "magicu"
           /\ UNCHANGED <<left, d, strides, magic>>

(* Both quotients are doubled, with their remainders.                      *)
Carry1 == r1 >= nc - r1 + 1
Carry2 == r2 + 1 >= d - r2

Double ==
    /\ p' = p + 1
    /\ q1' = IF Carry1 THEN 2 * q1 + 1 ELSE 2 * q1
    /\ r1' = IF Carry1 THEN 2 * r1 - nc - 1 ELSE 2 * r1
    /\ q2' = IF Carry2 THEN 2 * q2 + 1 ELSE 2 * q2
    /\ r2' = IF Carry2 THEN 2 * r2 + 1 - d ELSE 2 * r2 + 1
    /\ add' = IF Carry2 /\ q2 >= Word - 1 THEN 1 ELSE add

(* Faults: the loop stops at once, or always runs through every bit. *)
AgainNever == FALSE
AgainEveryBit == p' <= 2 * Width

(* The condition of the do-while, on the new values.                       *)
Again ==
    LET delta == d - 1 - r2' IN
    /\ p' < 2 * Width
    /\ q1' < delta \/ (q1' = delta /\ r1' = 0)

Iterate == /\ phase = "magicu"
           /\ Double
           /\ UNCHANGED <<nest, nc>>
           /\ \/ /\ Again
                 /\ UNCHANGED <<left, d, strides, magic, phase>>
              \/ /\ ~Again
                 /\ Store(q2' + 1, p' - Width, add')

-----------------------------------------------------------------------------
DivInit == /\ nest \in Nests
           /\ left = Len(nest.incs)
           /\ d = nest.outs
           /\ strides = [i \in {} |-> 0]
           /\ magic = [i \in {} |-> 0]
           /\ phase = "next"
           /\ p = Width
           /\ nc = 0
           /\ q1 = 0 /\ r1 = 0
           /\ q2 = 0 /\ r2 = 0
           /\ add = 0

DivNext == DivideByZero \/ DivideByOne \/ Prepare \/ Iterate

DivSpec == DivInit /\ [][DivNext]_divVars

-----------------------------------------------------------------------------
(* Properties.                                                             *)

DivTypeOK ==
    /\ nest \in Nests
    /\ left \in 0 .. Len(nest.incs)
    /\ d \in 0 .. Word - 1
    /\ strides \in [Finished -> 1 .. Word - 1]
    /\ magic \in [Finished -> [M : Nat, s : 0 .. Width, add : {0, 1}]]
    /\ phase \in {"next", "magicu", "crash"}
    /\ p \in Width .. 2 * Width
    /\ {nc, q1, r1, q2, r2} \subseteq Nat
    /\ add \in {0, 1}

(* What the unit computes for position n with the registers of a loop.     *)
Quotient(m, n) == (n * m.M) \div Pow[Width + m.s]

(* Positions of half a word, less the last two.                            *)
Positions == 0 .. Word \div 2 - 2

(* Multiplying and shifting divides exactly by every stride, for every     *)
(* position of the lower half of a word.  The iteration of magicu differs  *)
(* from the published one (it starts from 2^Width and from the largest     *)
(* multiple of d), and above half a word the quotient can be wrong.        *)
DivisionExact ==
    \A i \in Finished, n \in Positions :
        Quotient(magic[i], n) = n \div strides[i]

(* No value of magicu leaves the 64 bits it is computed in.                *)
WordsSuffice ==
    /\ q1 < Word * Word /\ q2 < Word * Word
    /\ \A i \in Finished : magic[i].M < Word * Word

(* The loop counters the unit recovers: the digits of the position in the  *)
(* bounds of the loops.                                                    *)
Counter(i, n) == Quotient(magic[i], n) % nest.incs[i]

(* The elements of the nest, and the position that counters stand for,     *)
(* where each loop adds to what the loops around it say.                   *)
Total ==
    LET product[i \in 0 .. Len(nest.incs)] ==
            IF i = 0 THEN nest.outs ELSE product[i - 1] * nest.incs[i]
    IN  product[Len(nest.incs)]

Recombined(n) ==
    LET iteration[i \in 0 .. Len(nest.incs)] ==
            IF i = 0 THEN 0 ELSE iteration[i - 1] * nest.incs[i] + Counter(i, n)
    IN  iteration[Len(nest.incs)] * nest.outs + (n % nest.outs)

(* The unit walks the nest as the program does: for every element of a     *)
(* region that fits half a word, the counters and the number of the OUT    *)
(* statement lead back to the position, so no iteration is skipped or      *)
(* repeated and none is out of order.                                      *)
UnrollExact ==
    (left = 0 /\ Total - 1 \in Positions) =>
        \A n \in 0 .. Total - 1 : Recombined(n) = n
=============================================================================
