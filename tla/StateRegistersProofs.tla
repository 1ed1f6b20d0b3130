------------------------ MODULE StateRegistersProofs ------------------------
(***************************************************************************)
(* The offsets of AGUHardwareStat keep registers apart on hardware of      *)
(* every size.  Once the compiler has accepted a program the registers it  *)
(* will write are known, all of them (Layout), and each kind lies between  *)
(* two edges no other kind crosses; so no write falls on an earlier one.   *)
(***************************************************************************)
EXTENDS StateRegisters, FiniteSetTheorems, SequenceTheorems, TLAPS

(* What the hardware must be for the layout to hold: nothing in the code   *)
(* compares the end of the multipliers with the fixed registers, and two   *)
(* array registers would be written to one place.                          *)
LayoutFits == /\ UsedBase >= MagicRegsOffset + NLoop * BytesMagic
              /\ NArray <= 1

-----------------------------------------------------------------------------
(* The invariant.                                                          *)

Fors(k) == {j \in DOMAIN program : j < k /\ program[j].node = "for"}

ForNodes == {j \in DOMAIN program : program[j].node = "for"}

ArrayNodes == {j \in DOMAIN program : program[j].node = "array"}

Accepted == walk \notin {"analysis", "rejected"}

IsSeq(s) == \E S : s \in Seq(S)

(* Maps that hand out the numbers 0, 1, 2, ... to names.                   *)
Numbered(f) == /\ IsFiniteSet(DOMAIN f)
               /\ \A n \in DOMAIN f : f[n] \in 0 .. Cardinality(DOMAIN f) - 1
               /\ \A n, m \in DOMAIN f : f[n] = f[m] => n = m

ProgramInv ==
    /\ program \in Seq(Nodes)
    /\ conds \in Seq(STRING)
    /\ \A j, k \in ArrayNodes : program[j].name = program[k].name => j = k
    /\ \A j, k \in ForNodes : program[j].name = program[k].name => j = k
    /\ walk \in {"analysis", "allocation", "loops", "arrays", "cells", "done",
                 "rejected", "crash"}
    /\ at \in Nat \ {0}

ConstInv == Numbered(constReg) /\ (Accepted => Cardinality(DOMAIN constReg) <= NConst)

(* Loops take the numbers below ForLoopsNeeded downwards.                  *)
LoopInv ==
    /\ loopsNeeded \in Nat
    /\ loopRegs \in Seq([name : STRING, num : Int])
    /\ \A k \in DOMAIN loopRegs : loopRegs[k].num = loopsNeeded - k
    /\ walk = "analysis" => loopsNeeded = Cardinality(Fors(at)) /\ loopRegs = <<>>
    /\ Accepted => /\ loopsNeeded = Cardinality(Fors(Len(program) + 1))
                   /\ loopsNeeded <= NLoop
                   /\ Len(loopRegs) <= loopsNeeded
    /\ walk = "allocation" => Len(loopRegs) = Cardinality(Fors(at))
    /\ walk = "rejected" => loopRegs = <<>>

(* The registers of arrays are those of the declarations already visited.  *)
ArrayInv ==
    /\ Numbered(arrayReg)
    /\ IsSeq(arrays)
    /\ \A k \in DOMAIN arrays :
           /\ DOMAIN arrays[k] = {"name", "num", "size", "select"}
           /\ \E j \in ArrayNodes : /\ walk = "allocation" => j < at
                                    /\ arrays[k].size = program[j].size
    /\ walk = "analysis" => /\ \A j \in ArrayNodes : j < at => program[j].name \in DOMAIN arrayReg
                            /\ arrays = <<>>
    /\ Accepted => /\ \A j \in ArrayNodes : /\ program[j].name \in DOMAIN arrayReg
                                            /\ program[j].size <= ArraySize
                   /\ Cardinality(DOMAIN arrayReg) <= NArray
    /\ NArray <= 1 => Len(arrays) <= 1

(* Every register a program is given.                                      *)
Layout == (UNION {LoopWrites(loopRegs[k]) : k \in DOMAIN loopRegs})
          \cup (UNION {ConstWrites(n) : n \in DOMAIN constReg})
          \cup (UNION {ArrayWrites(arrays[k]) : k \in DOMAIN arrays})
          \cup UsedWrites
          \cup CellWrites

WrittenInv == /\ walk \in {"analysis", "allocation", "rejected"} => written = {}
              /\ written \subseteq Layout

CompilerInv == ProgramInv /\ ConstInv /\ LoopInv /\ ArrayInv

RegInv == CompilerInv /\ WrittenInv

-----------------------------------------------------------------------------
(* Numbering.                                                              *)

(* A name that is not in the map takes the next number.                    *)
LEMMA NumberKeeps ==
    ASSUME NEW f, NEW n, Numbered(f)
    PROVE  /\ Numbered(Number(f, n))
           /\ DOMAIN Number(f, n) = DOMAIN f \cup {n}
<1> DEFINE c == Cardinality(DOMAIN f)
           g == Number(f, n)
<1>1. CASE n \in DOMAIN f
  <2>1. g = f
    BY <1>1 DEF Number
  <2>2. DOMAIN f \cup {n} = DOMAIN f
    BY <1>1
  <2>. QED
    BY <2>1, <2>2
<1>2. CASE n \notin DOMAIN f
  <2>1. g = [x \in {n} \cup DOMAIN f |-> IF x \in {n} THEN c ELSE f[x]]
    BY <1>2 DEF Number, Assign, Over
  <2>2. DOMAIN g = DOMAIN f \cup {n}
    BY <2>1
  <2>3. IsFiniteSet(DOMAIN g) /\ Cardinality(DOMAIN g) = c + 1
    BY <1>2, <2>2, FS_AddElement DEF Numbered
  <2>4. c \in Nat
    BY FS_CardinalityType DEF Numbered
  <2>5. \A x \in DOMAIN f : f[x] \in 0 .. c - 1 /\ g[x] = f[x]
    BY <1>2, <2>1 DEF Numbered
  <2>6. g[n] = c
    BY <2>1
  <2>7. \A x \in DOMAIN g : g[x] \in 0 .. c
    BY <2>2, <2>4, <2>5, <2>6
  <2>8. \A x, y \in DOMAIN g : g[x] = g[y] => x = y
    <3>. HIDE DEF g, c
    <3>. QED
      BY <2>2, <2>4, <2>5, <2>6 DEF Numbered
  <2>9. Numbered(g)
    <3>. HIDE DEF g, c
    <3>1. Cardinality(DOMAIN g) - 1 = c
      BY <2>3, <2>4
    <3>. QED
      BY <2>3, <2>7, <2>8, <3>1 DEF Numbered
  <2>. QED
    BY <2>2, <2>9
<1>. QED
  BY <1>1, <1>2

(* The loops visited are finitely many, and one more after each loop.      *)
LEMMA ForsCount ==
    ASSUME program \in Seq(Nodes), NEW k \in Nat
    PROVE  /\ IsFiniteSet(Fors(k))
           /\ Cardinality(Fors(k)) \in Nat
           /\ k \in DOMAIN program =>
                IF program[k].node = "for"
                THEN /\ Cardinality(Fors(k + 1)) = Cardinality(Fors(k)) + 1
                     /\ Cardinality(Fors(k)) < Cardinality(Fors(Len(program) + 1))
                ELSE Fors(k + 1) = Fors(k)
<1>1. Len(program) \in Nat /\ DOMAIN program = 1 .. Len(program)
  OBVIOUS
<1>2. IsFiniteSet(DOMAIN program)
  BY <1>1, FS_Interval
<1>3. \A j \in Nat : IsFiniteSet(Fors(j)) /\ Cardinality(Fors(j)) \in Nat
  <2>. TAKE j \in Nat
  <2>1. Fors(j) \in SUBSET DOMAIN program
    BY DEF Fors
  <2>. QED
    BY <1>2, <2>1, FS_Subset, FS_CardinalityType
<1>4. ASSUME k \in DOMAIN program, program[k].node = "for"
      PROVE  /\ Cardinality(Fors(k + 1)) = Cardinality(Fors(k)) + 1
             /\ Cardinality(Fors(k)) < Cardinality(Fors(Len(program) + 1))
  <2>1. Fors(k + 1) = Fors(k) \cup {k}
    BY <1>1, <1>4 DEF Fors
  <2>2. k \notin Fors(k)
    BY DEF Fors
  <2>3. Cardinality(Fors(k + 1)) = Cardinality(Fors(k)) + 1
    BY <1>3, <2>1, <2>2, FS_AddElement
  <2>4. Fors(k + 1) \in SUBSET Fors(Len(program) + 1)
    BY <1>1, <1>4 DEF Fors
  <2>5. Cardinality(Fors(k + 1)) <= Cardinality(Fors(Len(program) + 1))
    BY <1>1, <1>3, <2>4, FS_Subset
  <2>. QED
    BY <1>1, <1>3, <2>3, <2>5
<1>5. ASSUME k \in DOMAIN program, program[k].node # "for"
      PROVE  Fors(k + 1) = Fors(k)
  BY <1>1, <1>5 DEF Fors
<1>. QED
  BY <1>3, <1>4, <1>5
-----------------------------------------------------------------------------
(* The compiler's part of the invariant.                                   *)

(* The compiler begins with nothing numbered and nothing written.           *)
LEMMA CompilerInit == RegInit => CompilerInv /\ WrittenInv
<1>. SUFFICES ASSUME RegInit PROVE CompilerInv /\ WrittenInv
  OBVIOUS
<1>1. ProgramInv
  BY ProgramsAssumption DEF RegInit, ProgramInv, ArrayNodes, ForNodes
<1>2. Numbered(<<>>)
  BY FS_EmptySet DEF Numbered
<1>3. Cardinality(Fors(at)) = 0
  <2>1. Fors(at) = {}
    BY <1>1 DEF RegInit, Fors, ProgramInv
  <2>. QED
    BY <2>1, FS_EmptySet
<1>4. ConstInv
  BY <1>2 DEF RegInit, ConstInv, Accepted
<1>5. LoopInv
  BY <1>3 DEF RegInit, LoopInv, Accepted
<1>6. ArrayInv
  <2>1. IsSeq(<<>>) /\ Len(<<>>) = 0 /\ DOMAIN <<>> = {}
    BY DEF IsSeq
  <2>. QED
    BY <1>1, <1>2, <2>1 DEF RegInit, ArrayInv, Accepted, ProgramInv, ArrayNodes
<1>7. WrittenInv
  BY DEF RegInit, WrittenInv
<1>. QED
  BY <1>1, <1>4, <1>5, <1>6, <1>7 DEF CompilerInv

(* What the visit of a node does to the position in the program.           *)
LEMMA VisitMoves ==
    ASSUME CompilerInv, NEW w, NEW kind, Visit(w, kind)
    PROVE  /\ walk = w /\ at \in DOMAIN program /\ at \in Nat /\ program[at].node = kind
           /\ Len(program) \in Nat /\ at \in 1 .. Len(program)
           /\ at' = at + 1 /\ program' = program
           /\ Fors(at)' = Fors(at + 1)
           /\ Fors(Len(program) + 1)' = Fors(Len(program) + 1)
           /\ ArrayNodes' = ArrayNodes /\ ForNodes' = ForNodes
           /\ walk' \in {walk, "crash"} => ProgramInv'
<1>1. program \in Seq(Nodes) /\ at \in Nat \ {0}
  BY DEF CompilerInv, ProgramInv
<1>2. /\ walk = w /\ at <= Len(program) /\ program[at].node = kind
      /\ at' = at + 1 /\ program' = program /\ conds' = conds
  BY DEF Visit
<1>3. Len(program) \in Nat /\ DOMAIN program = 1 .. Len(program)
  BY <1>1
<1>4. at \in DOMAIN program /\ at + 1 \in Nat \ {0}
  BY <1>1, <1>2, <1>3
<1>5. /\ Fors(at)' = Fors(at + 1)
      /\ Fors(Len(program) + 1)' = Fors(Len(program) + 1)
      /\ ArrayNodes' = ArrayNodes /\ ForNodes' = ForNodes
  BY <1>2 DEF Fors, ArrayNodes, ForNodes
<1>6. walk' \in {walk, "crash"} => ProgramInv'
  BY <1>2, <1>4, <1>5 DEF CompilerInv, ProgramInv
<1>. QED
  BY <1>1, <1>2, <1>3, <1>4, <1>5, <1>6

(* A node that is no loop leaves the loops alone.                          *)
LEMMA LoopsKept ==
    ASSUME CompilerInv, NEW w, NEW kind, Visit(w, kind), kind # "for",
           UNCHANGED <<loopsNeeded, loopRegs>>,
           \/ walk' = walk
           \/ w = "allocation" /\ walk' = "crash"
    PROVE  LoopInv'
<1>1. /\ walk = w /\ at \in DOMAIN program /\ at \in Nat /\ program[at].node = kind
      /\ program' = program
      /\ Fors(at)' = Fors(at + 1)
      /\ Fors(Len(program) + 1)' = Fors(Len(program) + 1)
  BY VisitMoves
<1>2. Fors(at + 1) = Fors(at)
  BY <1>1, ForsCount DEF CompilerInv, ProgramInv
<1>. QED
  BY <1>1, <1>2, Zenon DEF CompilerInv, LoopInv, Accepted

(* A function on the domain of a sequence is a sequence as long.           *)
LEMMA SameLength ==
    ASSUME NEW s, IsSeq(s), NEW g, DOMAIN g = DOMAIN s, g = [k \in DOMAIN g |-> g[k]]
    PROVE  IsSeq(g) /\ Len(g) = Len(s)
<1> DEFINE T == {g[k] : k \in DOMAIN g}
<1>1. Len(s) \in Nat /\ DOMAIN s = 1 .. Len(s)
  BY DEF IsSeq
<1>2. g \in [1 .. Len(s) -> T]
  BY <1>1
<1> HIDE DEF T
<1>3. g \in Seq(T)
  <2>1. \E n \in Nat : g \in [1 .. n -> T]
    BY <1>1, <1>2
  <2>. QED
    BY <2>1, SeqDef
<1>4. Len(g) \in Nat /\ DOMAIN g = 1 .. Len(g)
  BY <1>3, LenProperties
<1>5. 1 .. Len(g) = 1 .. Len(s)
  BY <1>1, <1>4
<1>6. Len(g) = Len(s)
  BY <1>1, <1>4, <1>5
<1>. QED
  BY <1>3, <1>6 DEF IsSeq

(* A node that declares no array leaves arrays their number and sizes.     *)
LEMMA ArraysKept ==
    ASSUME CompilerInv, NEW w, NEW kind, Visit(w, kind), kind # "array",
           UNCHANGED arrayReg,
           \/ arrays' = arrays
           \/ /\ w = "allocation"
              /\ IsSeq(arrays)' /\ Len(arrays') = Len(arrays)
              /\ DOMAIN arrays' = DOMAIN arrays
              /\ \A k \in DOMAIN arrays : /\ DOMAIN (arrays'[k]) = DOMAIN (arrays[k])
                                          /\ arrays'[k].size = arrays[k].size,
           \/ walk' = walk
           \/ w = "allocation" /\ walk' = "crash"
    PROVE  ArrayInv'
<1>1. /\ walk = w /\ at \in DOMAIN program /\ at \in Nat /\ program[at].node = kind
      /\ program' = program /\ at' = at + 1 /\ ArrayNodes' = ArrayNodes
  BY VisitMoves
<1>2. \A j \in ArrayNodes : j \in Nat /\ (j < at + 1 <=> j < at)
  <2>1. \A j \in ArrayNodes : j \in Nat /\ j # at
    BY <1>1 DEF ArrayNodes, CompilerInv, ProgramInv
  <2>. QED
    BY <1>1, <2>1
<1>3. Numbered(arrayReg)' /\ IsSeq(arrays)' /\ (NArray <= 1 => Len(arrays') <= 1)
  BY DEF CompilerInv, ArrayInv, Numbered
<1>4. \A k \in DOMAIN arrays' :
         /\ DOMAIN (arrays'[k]) = {"name", "num", "size", "select"}
         /\ \E j \in ArrayNodes' : /\ walk' = "allocation" => j < at'
                                   /\ arrays'[k].size = program'[j].size
  <2>. TAKE k \in DOMAIN arrays'
  <2>1. /\ k \in DOMAIN arrays
        /\ DOMAIN (arrays'[k]) = DOMAIN (arrays[k])
        /\ arrays'[k].size = arrays[k].size
    OBVIOUS
  <2>2. /\ DOMAIN (arrays[k]) = {"name", "num", "size", "select"}
        /\ \E j \in ArrayNodes : /\ walk = "allocation" => j < at
                                 /\ arrays[k].size = program[j].size
    BY <2>1 DEF CompilerInv, ArrayInv
  <2>. QED
    BY <1>1, <1>2, <2>1, <2>2
<1>5. walk' = "analysis" =>
         /\ \A j \in ArrayNodes' : j < at' => program'[j].name \in DOMAIN arrayReg'
         /\ arrays' = <<>>
  BY <1>1, <1>2 DEF CompilerInv, ArrayInv
<1>6. Accepted' =>
         /\ \A j \in ArrayNodes' : /\ program'[j].name \in DOMAIN arrayReg'
                                   /\ program'[j].size <= ArraySize
         /\ Cardinality(DOMAIN arrayReg') <= NArray
  BY <1>1 DEF CompilerInv, ArrayInv, Accepted
<1>. QED
  BY <1>3, <1>4, <1>5, <1>6 DEF ArrayInv

(* Steps that number no constant.                                           *)
LEMMA ConstsKept ==
    ASSUME CompilerInv, UNCHANGED constReg, walk' = walk \/ Accepted
    PROVE  ConstInv'
BY DEF CompilerInv, ConstInv, Accepted, Numbered

(* The steps of the compiler's two walks.                                  *)
LEMMA CompileStep ==
    ASSUME CompilerInv, Compile
    PROVE  CompilerInv'
<1>1. CASE ConstDecl
  <2>1. Visit("analysis", "const") /\ walk' = walk
    BY <1>1 DEF ConstDecl
  <2>2. ProgramInv' /\ walk = "analysis"
    BY <2>1, VisitMoves
  <2>3. ConstInv'
    <3>1. Numbered(Number(constReg, program[at].name))
      BY NumberKeeps DEF CompilerInv, ConstInv
    <3>2. Numbered(constReg)'
      BY <1>1, <3>1 DEF ConstDecl, Numbered
    <3>. QED
      BY <2>1, <2>2, <3>2 DEF ConstInv, Accepted
  <2>4. LoopInv'
    BY <1>1, <2>1, LoopsKept DEF ConstDecl
  <2>5. ArrayInv'
    BY <1>1, <2>1, ArraysKept DEF ConstDecl
  <2>. QED
    BY <2>2, <2>3, <2>4, <2>5 DEF CompilerInv
<1>2. CASE ConstArrayDecl
  <2>1. Visit("analysis", "array") /\ walk' = walk
    BY <1>2 DEF ConstArrayDecl
  <2>2. /\ ProgramInv' /\ walk = "analysis" /\ program' = program /\ ArrayNodes' = ArrayNodes
        /\ at' = at + 1 /\ at \in Nat
    BY <2>1, VisitMoves
  <2>3. ConstInv'
    BY <1>2, <2>1, ConstsKept DEF ConstArrayDecl
  <2>4. LoopInv'
    BY <1>2, <2>1, LoopsKept DEF ConstArrayDecl
  <2>5. ArrayInv'
    <3>1. /\ Numbered(Number(arrayReg, program[at].name))
          /\ DOMAIN Number(arrayReg, program[at].name) = DOMAIN arrayReg \cup {program[at].name}
      BY NumberKeeps DEF CompilerInv, ArrayInv
    <3>2. Numbered(arrayReg)' /\ DOMAIN arrayReg' = DOMAIN arrayReg \cup {program[at].name}
      BY <1>2, <3>1 DEF ConstArrayDecl, Numbered
    <3>3. arrays' = arrays /\ arrays = <<>> /\ walk' = "analysis"
      BY <1>2, <2>1, <2>2 DEF ConstArrayDecl, CompilerInv, ArrayInv
    <3>4. \A j \in ArrayNodes : j < at + 1 => j < at \/ j = at
      BY <2>2 DEF ArrayNodes, CompilerInv, ProgramInv
    <3>5. \A j \in ArrayNodes' : j < at' => program'[j].name \in DOMAIN arrayReg'
      BY <2>2, <3>2, <3>4 DEF CompilerInv, ArrayInv
    <3>6. IsSeq(arrays)' /\ DOMAIN arrays' = {} /\ (NArray <= 1 => Len(arrays') <= 1)
      BY <3>3 DEF CompilerInv, ArrayInv, IsSeq
    <3>. QED
      BY <3>2, <3>3, <3>5, <3>6 DEF ArrayInv, Accepted
  <2>. QED
    BY <2>2, <2>3, <2>4, <2>5 DEF CompilerInv
<1>3. CASE UseForLoopRegister
  <2>1. Visit("analysis", "for") /\ walk' = walk
    BY <1>3 DEF UseForLoopRegister
  <2>2. /\ ProgramInv' /\ walk = "analysis" /\ at \in DOMAIN program /\ at \in Nat
        /\ program[at].node = "for" /\ Fors(at)' = Fors(at + 1)
    BY <2>1, VisitMoves
  <2>3. ConstInv'
    BY <1>3, <2>1, ConstsKept DEF UseForLoopRegister
  <2>4. LoopInv'
    <3>1. Cardinality(Fors(at + 1)) = Cardinality(Fors(at)) + 1
      BY <2>2, ForsCount DEF CompilerInv, ProgramInv
    <3>2. loopsNeeded' = Cardinality(Fors(at)') /\ loopsNeeded' \in Nat
      BY <1>3, <2>2, <3>1 DEF UseForLoopRegister, CompilerInv, LoopInv
    <3>3. loopRegs' = loopRegs /\ loopRegs = <<>>
      BY <1>3, <2>2 DEF UseForLoopRegister, CompilerInv, LoopInv
    <3>. QED
      BY <2>1, <2>2, <3>2, <3>3 DEF LoopInv, Accepted
  <2>5. ArrayInv'
    BY <1>3, <2>1, ArraysKept DEF UseForLoopRegister
  <2>. QED
    BY <2>2, <2>3, <2>4, <2>5 DEF CompilerInv
<1>4. CASE PassBy
  <2>1. PICK w \in {"analysis", "allocation"}, kind \in {"index", "const"} : Visit(w, kind)
    BY <1>4 DEF PassBy
  <2>2. UNCHANGED <<walk, constReg, arrayReg, loopsNeeded, loopRegs, arrays>>
    BY <1>4 DEF PassBy, compiled
  <2>3. ProgramInv'
    BY <2>1, <2>2, VisitMoves
  <2>4. LoopInv' /\ ArrayInv'
    BY <2>1, <2>2, LoopsKept, ArraysKept
  <2>5. ConstInv'
    BY <2>2, ConstsKept
  <2>. QED
    BY <2>3, <2>4, <2>5 DEF CompilerInv
<1>5. CASE CheckMeetHardwareConstaints
  <2>1. /\ walk = "analysis" /\ at > Len(program) /\ at' = 1
        /\ UNCHANGED <<program, conds, constReg, arrayReg, loopsNeeded, loopRegs, arrays>>
        /\ walk' \in {"allocation", "rejected"}
        /\ walk' = "allocation" =>
              /\ loopsNeeded <= NLoop
              /\ Cardinality(DOMAIN constReg) <= NConst
              /\ Cardinality(DOMAIN arrayReg) <= NArray
              /\ \A k \in DOMAIN program :
                    program[k].node = "array" => program[k].size <= ArraySize
    BY <1>5 DEF CheckMeetHardwareConstaints, compiled
  <2>2. /\ Len(program) \in Nat /\ at \in Nat
        /\ \A j \in DOMAIN program : j < at /\ j < Len(program) + 1 /\ ~(j < 1)
    BY <2>1 DEF CompilerInv, ProgramInv
  <2>3. Accepted' <=> walk' = "allocation"
    BY <2>1 DEF Accepted
  <2>4. ProgramInv' /\ ArrayNodes' = ArrayNodes
    BY <2>1 DEF CompilerInv, ProgramInv, ArrayNodes, ForNodes
  <2>5. ConstInv'
    BY <2>1, <2>3 DEF CompilerInv, ConstInv, Numbered
  <2>6. LoopInv'
    <3>1. Fors(at) = Fors(Len(program) + 1) /\ Fors(Len(program) + 1)' = Fors(Len(program) + 1)
      BY <2>1, <2>2 DEF Fors
    <3>2. Cardinality(Fors(at)') = 0
      <4>1. Fors(at)' = {}
        BY <2>1, <2>2 DEF Fors
      <4>. QED
        BY <4>1, FS_EmptySet
    <3>3. loopRegs = <<>> /\ Len(loopRegs) = 0
      BY <2>1 DEF CompilerInv, LoopInv
    <3>. QED
      BY <2>1, <2>3, <3>1, <3>2, <3>3 DEF CompilerInv, LoopInv
  <2>7. ArrayInv'
    <3>1. arrays = <<>> /\ \A j \in ArrayNodes : program[j].name \in DOMAIN arrayReg
      BY <2>1, <2>2 DEF CompilerInv, ArrayInv, ArrayNodes
    <3>2. IsSeq(arrays)' /\ DOMAIN arrays' = {} /\ (NArray <= 1 => Len(arrays') <= 1)
      BY <2>1, <3>1 DEF CompilerInv, ArrayInv, IsSeq
    <3>3. Numbered(arrayReg)'
      BY <2>1 DEF CompilerInv, ArrayInv, Numbered
    <3>. QED
      BY <2>1, <2>3, <2>4, <3>1, <3>2, <3>3 DEF ArrayInv, ArrayNodes
  <2>. QED
    BY <2>4, <2>5, <2>6, <2>7 DEF CompilerInv
<1>6. CASE ForStmt
  <2>1. /\ Visit("allocation", "for") /\ walk' = walk
        /\ UNCHANGED <<constReg, arrayReg, loopsNeeded, arrays>>
        /\ loopRegs' = Append(loopRegs, [name |-> program[at].name, num |-> LoopNumber])
    BY <1>6 DEF ForStmt
  <2>2. /\ ProgramInv' /\ walk = "allocation" /\ at \in DOMAIN program /\ at \in Nat
        /\ program[at].node = "for" /\ Fors(at)' = Fors(at + 1)
        /\ Fors(Len(program) + 1)' = Fors(Len(program) + 1)
    BY <2>1, VisitMoves
  <2>3. ConstInv'
    BY <2>1, ConstsKept
  <2>4. ArrayInv'
    BY <2>1, ArraysKept
  <2>5. LoopInv'
    <3>1. /\ Cardinality(Fors(at + 1)) = Cardinality(Fors(at)) + 1
          /\ Cardinality(Fors(at)) < Cardinality(Fors(Len(program) + 1))
      BY <2>2, ForsCount DEF CompilerInv, ProgramInv
    <3>2. /\ loopsNeeded \in Nat
          /\ loopsNeeded = Cardinality(Fors(Len(program) + 1)) /\ loopsNeeded <= NLoop
          /\ Len(loopRegs) = Cardinality(Fors(at))
          /\ loopRegs \in Seq([name : STRING, num : Int])
          /\ \A k \in DOMAIN loopRegs : loopRegs[k].num = loopsNeeded - k
      BY <2>2 DEF CompilerInv, LoopInv, Accepted
    <3>3. program[at].name \in STRING
      BY <2>2 DEF CompilerInv, ProgramInv, Nodes
    <3>4. LoopNumber \in Int /\ LoopNumber = loopsNeeded - (Len(loopRegs) + 1)
      BY <3>2 DEF LoopNumber
    <3>5. /\ loopRegs' \in Seq([name : STRING, num : Int])
          /\ Len(loopRegs') = Len(loopRegs) + 1
          /\ loopRegs'[Len(loopRegs) + 1].num = LoopNumber
          /\ \A k \in DOMAIN loopRegs' : /\ k \in 1 .. Len(loopRegs) + 1
                                         /\ k # Len(loopRegs) + 1 => /\ k \in DOMAIN loopRegs
                                                                     /\ loopRegs'[k] = loopRegs[k]
      BY <2>1, <3>2, <3>3, <3>4
    <3>6. \A k \in DOMAIN loopRegs' : loopRegs'[k].num = loopsNeeded - k
      BY <3>2, <3>4, <3>5
    <3>7. Len(loopRegs') = Cardinality(Fors(at)') /\ Len(loopRegs') <= loopsNeeded
      BY <2>2, <3>1, <3>2, <3>5
    <3>. QED
      BY <2>1, <2>2, <3>2, <3>5, <3>6, <3>7 DEF LoopInv
  <2>. QED
    BY <2>2, <2>3, <2>4, <2>5 DEF CompilerInv
<1>7. CASE AllocConstArray
  <2> DEFINE a == [name |-> program[at].name, num |-> arrayReg[program[at].name],
                   size |-> program[at].size, select |-> 0]
  <2>1. /\ Visit("allocation", "array") /\ walk' = walk
        /\ UNCHANGED <<constReg, arrayReg, loopsNeeded, loopRegs>>
        /\ arrays' = Append(arrays, a)
    BY <1>7 DEF AllocConstArray
  <2>2. /\ ProgramInv' /\ walk = "allocation" /\ at \in DOMAIN program /\ at \in Nat
        /\ at \in ArrayNodes /\ program' = program /\ at' = at + 1 /\ ArrayNodes' = ArrayNodes
    BY <2>1, VisitMoves DEF ArrayNodes
  <2>3. ConstInv'
    BY <2>1, ConstsKept
  <2>4. LoopInv'
    BY <2>1, LoopsKept
  <2>5. ArrayInv'
    <3>1. PICK S : arrays \in Seq(S)
      BY DEF CompilerInv, ArrayInv, IsSeq
    <3>2. arrays \in Seq(S \cup {a})
      BY <3>1
    <3>3. /\ arrays' \in Seq(S \cup {a})
          /\ Len(arrays) \in Nat /\ Len(arrays') = Len(arrays) + 1
          /\ \A k \in DOMAIN arrays' : \/ k \in DOMAIN arrays /\ arrays'[k] = arrays[k]
                                       \/ arrays'[k] = a
      <4>. HIDE DEF a
      <4>. QED
        BY <2>1, <3>2
    <3>4. \A j \in ArrayNodes : j \in Nat /\ (j < at => j < at + 1)
      BY <2>2 DEF ArrayNodes, CompilerInv, ProgramInv
    <3>5. \A k \in DOMAIN arrays' :
             /\ DOMAIN (arrays'[k]) = {"name", "num", "size", "select"}
             /\ \E j \in ArrayNodes : j < at + 1 /\ arrays'[k].size = program[j].size
      <4>. TAKE k \in DOMAIN arrays'
      <4>1. CASE k \in DOMAIN arrays /\ arrays'[k] = arrays[k]
        BY <2>2, <3>4, <4>1 DEF CompilerInv, ArrayInv
      <4>2. CASE arrays'[k] = a
        BY <2>2, <4>2
      <4>. QED
        BY <3>3, <4>1, <4>2
    <3>6. NArray <= 1 => Len(arrays') <= 1
      <4>. SUFFICES ASSUME NArray <= 1, Len(arrays) # 0 PROVE FALSE
        BY <3>3
      <4>1. 1 \in DOMAIN arrays
        BY <3>1, <3>3
      <4>2. PICK j \in ArrayNodes : j < at
        BY <2>2, <4>1 DEF CompilerInv, ArrayInv
      <4>3. /\ program[j].name \in DOMAIN arrayReg /\ program[at].name \in DOMAIN arrayReg
            /\ Numbered(arrayReg) /\ Cardinality(DOMAIN arrayReg) <= 1
        BY <2>2, FS_CardinalityType, SizesAssumption DEF CompilerInv, ArrayInv, Accepted, Numbered
      <4>4. Cardinality(DOMAIN arrayReg) \in Nat
        BY <4>3, FS_CardinalityType DEF Numbered
      <4>5. arrayReg[program[j].name] = 0 /\ arrayReg[program[at].name] = 0
        BY <4>3, <4>4 DEF Numbered
      <4>6. program[j].name = program[at].name
        BY <4>3, <4>5 DEF Numbered
      <4>7. j = at
        BY <2>2, <4>6 DEF CompilerInv, ProgramInv
      <4>. QED
        BY <2>2, <4>2, <4>7
    <3>7. /\ Accepted /\ Accepted' /\ walk' # "analysis" /\ Numbered(arrayReg)'
          /\ IsSeq(arrays)'
      BY <2>1, <2>2, <3>3 DEF Accepted, CompilerInv, ArrayInv, Numbered, IsSeq
    <3>8. \A j \in ArrayNodes' : /\ program'[j].name \in DOMAIN arrayReg'
                                 /\ program'[j].size <= ArraySize
      BY <2>1, <2>2, <3>7 DEF CompilerInv, ArrayInv
    <3>9. Cardinality(DOMAIN arrayReg') <= NArray
      BY <2>1, <3>7 DEF CompilerInv, ArrayInv
    <3>. HIDE DEF a
    <3>10. \A k \in DOMAIN arrays' :
             /\ DOMAIN (arrays'[k]) = {"name", "num", "size", "select"}
             /\ \E j \in ArrayNodes' : /\ walk' = "allocation" => j < at'
                                       /\ arrays'[k].size = program'[j].size
      BY <2>2, <3>5
    <3>. QED
      BY <3>6, <3>7, <3>8, <3>9, <3>10 DEF ArrayInv
  <2>. QED
    BY <2>2, <2>3, <2>4, <2>5 DEF CompilerInv
<1>8. CASE BindArrayIndex
  <2>1. /\ Visit("allocation", "index")
        /\ UNCHANGED <<constReg, arrayReg, loopsNeeded, loopRegs>>
        /\ walk' \in {walk, "crash"}
    BY <1>8 DEF BindArrayIndex
  <2>2. ProgramInv' /\ walk = "allocation"
    BY <2>1, VisitMoves
  <2>3. ConstInv'
    BY <2>1, <2>2, ConstsKept DEF Accepted
  <2>4. LoopInv'
    BY <2>1, LoopsKept
  <2>5. ArrayInv'
    <3>1. CASE arrays' = arrays
      BY <2>1, <3>1, ArraysKept
    <3>2. CASE arrays' # arrays
      <4> DEFINE x == arrayReg[program[at].name] + ConstArrayRegOffset
                 v == loopMap[program[at].var]
      <4>1. arrays' = [k \in DOMAIN arrays |->
                         IF arrays[k].num = x THEN [arrays[k] EXCEPT !.select = v]
                                              ELSE arrays[k]]
        BY <1>8, <3>2 DEF BindArrayIndex
      <4>. HIDE DEF x, v
      <4>2. IsSeq(arrays)' /\ Len(arrays') = Len(arrays) /\ DOMAIN arrays' = DOMAIN arrays
        <5>1. DOMAIN arrays' = DOMAIN arrays /\ arrays' = [k \in DOMAIN arrays' |-> arrays'[k]]
          BY <4>1
        <5>2. IsSeq(arrays)
          BY DEF CompilerInv, ArrayInv
        <5>. QED
          BY <5>1, <5>2, SameLength DEF IsSeq
      <4>3. \A k \in DOMAIN arrays : /\ DOMAIN (arrays'[k]) = DOMAIN (arrays[k])
                                     /\ arrays'[k].size = arrays[k].size
        BY <4>1 DEF CompilerInv, ArrayInv
      <4>. QED
        BY <2>1, <4>2, <4>3, ArraysKept
    <3>. QED
      BY <3>1, <3>2
  <2>. QED
    BY <2>2, <2>3, <2>4, <2>5, <2>1 DEF CompilerInv
<1>. QED
  BY <1>1, <1>2, <1>3, <1>4, <1>5, <1>6, <1>7, <1>8 DEF Compile

-----------------------------------------------------------------------------
(* Writing the registers changes nothing the compiler decided.             *)
LEMMA HardwareKeeps ==
    ASSUME CompilerInv, Accepted, UNCHANGED <<program, conds, compiled>>,
           walk' \in {"loops", "arrays", "cells", "done", "crash"},
           at' \in Nat \ {0}
    PROVE  CompilerInv' /\ Layout' = Layout
<1>1. UNCHANGED <<program, conds, constReg, arrayReg, loopsNeeded, loopRegs, loopMap, arrays>>
  BY DEF compiled
<1>2. ArrayNodes' = ArrayNodes /\ Fors(Len(program) + 1)' = Fors(Len(program) + 1)
      /\ Accepted' /\ walk' \notin {"analysis", "allocation", "rejected"}
      /\ ForNodes' = ForNodes
  BY <1>1 DEF ArrayNodes, ForNodes, Fors, Accepted
<1>3. ProgramInv'
  BY <1>1, <1>2 DEF CompilerInv, ProgramInv
<1>4. ConstInv'
  BY <1>1 DEF CompilerInv, ConstInv, Numbered
<1>5. LoopInv'
  BY <1>1, <1>2 DEF CompilerInv, LoopInv
<1>6. ArrayInv'
  BY <1>1, <1>2 DEF CompilerInv, ArrayInv, Numbered, IsSeq
<1>7. Layout' = Layout
  BY <1>1 DEF Layout, LoopWrites, ConstWrites, ArrayWrites, UsedWrites, CellWrites,
              CondsKnown, CondNumber
<1>. QED
  BY <1>3, <1>4, <1>5, <1>6, <1>7 DEF CompilerInv

(* Every write is a part of the layout.                                    *)
LEMMA WritesInLayout ==
    ASSUME RegInv, ProgramHardware
    PROVE  /\ Accepted /\ UNCHANGED <<program, conds, compiled>>
           /\ walk' \in {"loops", "arrays", "cells", "done", "crash"}
           /\ at' \in Nat \ {0}
           /\ \/ UNCHANGED <<page, written>>
              \/ \E regs \in SUBSET Layout : Write(regs)
<1> USE DEF RegInv, CompilerInv, ProgramInv
<1>1. at \in Nat \ {0} /\ at + 1 \in Nat \ {0}
  OBVIOUS
<1>2. CASE Program
  BY <1>2 DEF Program, Accepted
<1>3. CASE StartArrays
  BY <1>3 DEF StartArrays, Accepted
<1>4. CASE DoForLoopWrite
  <2>1. at \in DOMAIN loopRegs
    BY <1>1, <1>4 DEF DoForLoopWrite, LoopInv
  <2>2. LoopWrites(loopRegs[at]) \in SUBSET Layout
    BY <2>1 DEF Layout
  <2>. QED
    BY <1>1, <1>4, <2>2 DEF DoForLoopWrite, Write, Accepted
<1>5. CASE DoConstRegWrite
  <2>1. PICK n \in DOMAIN constReg : Write(ConstWrites(n))
    BY <1>5 DEF DoConstRegWrite
  <2>2. ConstWrites(n) \in SUBSET Layout
    BY DEF Layout
  <2>. QED
    BY <1>1, <1>5, <2>1, <2>2 DEF DoConstRegWrite, Write, Accepted
<1>6. CASE DoConstArrayWrite
  <2>1. at \in DOMAIN arrays
    BY <1>1, <1>6 DEF DoConstArrayWrite, ArrayInv, IsSeq
  <2>2. ArrayWrites(arrays[at]) \in SUBSET Layout
    BY <2>1 DEF Layout
  <2>. QED
    BY <1>1, <1>6, <2>2 DEF DoConstArrayWrite, Write, Accepted
<1>7. CASE WriteUsed
  <2>1. UsedWrites \in SUBSET Layout
    BY DEF Layout
  <2>. QED
    BY <1>1, <1>7, <2>1 DEF WriteUsed, Write, Accepted
<1>8. CASE DoControlWrites
  <2>1. CellWrites \in SUBSET Layout
    BY DEF Layout
  <2>. QED
    BY <1>1, <1>8, <2>1 DEF DoControlWrites, Write, Accepted
<1>. QED
  BY <1>2, <1>3, <1>4, <1>5, <1>6, <1>7, <1>8 DEF ProgramHardware

(* The two walks write no register.                                         *)
LEMMA CompileWritesNothing ==
    ASSUME RegInv, Compile
    PROVE  WrittenInv'
<1>1. written' = written /\ walk \in {"analysis", "allocation"}
  BY DEF Compile, ConstDecl, ConstArrayDecl, UseForLoopRegister, PassBy,
         CheckMeetHardwareConstaints, ForStmt, AllocConstArray, BindArrayIndex, Visit
<1>2. written = {}
  BY <1>1 DEF RegInv, WrittenInv
<1>. QED
  BY <1>1, <1>2 DEF WrittenInv

(* Every step keeps the invariant.                                          *)
LEMMA RegInvInductive ==
    ASSUME RegInv, [RegNext]_regVars
    PROVE  RegInv'
<1>1. CASE Compile
  BY <1>1, CompileStep, CompileWritesNothing DEF RegInv
<1>2. CASE ProgramHardware
  <2>1. CompilerInv' /\ Layout' = Layout
    BY <1>2, WritesInLayout, HardwareKeeps DEF RegInv
  <2>2. written' \subseteq Layout
    BY <1>2, WritesInLayout DEF RegInv, WrittenInv, Write
  <2>3. walk' \notin {"analysis", "allocation", "rejected"}
    BY <1>2, WritesInLayout
  <2>. QED
    BY <2>1, <2>2, <2>3 DEF RegInv, WrittenInv
<1>3. CASE UNCHANGED regVars
  <2>1. UNCHANGED <<program, conds, walk, at, constReg, arrayReg, loopsNeeded, loopRegs,
                    loopMap, arrays, written>>
    BY <1>3 DEF regVars, compiled
  <2>2. ArrayNodes' = ArrayNodes /\ Fors(at)' = Fors(at) /\ (Accepted' <=> Accepted)
        /\ Fors(Len(program) + 1)' = Fors(Len(program) + 1) /\ Layout' = Layout
        /\ ForNodes' = ForNodes
    BY <2>1 DEF ArrayNodes, ForNodes, Fors, Accepted, Layout, LoopWrites, ConstWrites, ArrayWrites,
                UsedWrites, CellWrites, CondsKnown, CondNumber
  <2>3. ProgramInv' /\ ConstInv'
    BY <2>1, <2>2 DEF RegInv, CompilerInv, ProgramInv, ConstInv, Numbered
  <2>4. LoopInv'
    BY <2>1, <2>2 DEF RegInv, CompilerInv, LoopInv
  <2>5. ArrayInv'
    BY <2>1, <2>2 DEF RegInv, CompilerInv, ArrayInv, Numbered, IsSeq
  <2>6. WrittenInv'
    BY <2>1, <2>2 DEF RegInv, WrittenInv
  <2>. QED
    BY <2>3, <2>4, <2>5, <2>6 DEF RegInv, CompilerInv
<1>. QED
  BY <1>1, <1>2, <1>3 DEF RegNext

(* So it holds throughout.                                                  *)
LEMMA RegInvariance == RegSpec => []RegInv
<1>1. RegInit => RegInv
  BY CompilerInit DEF RegInv
<1>2. RegInv /\ [RegNext]_regVars => RegInv'
  BY RegInvInductive
<1>. QED
  BY <1>1, <1>2, PTL DEF RegSpec

-----------------------------------------------------------------------------
(* Arithmetic of the layout.                                               *)
LEMMA OffsetsType ==
    /\ LoopRegsOffset \in Nat /\ LoopIncRegsOffset = LoopRegsOffset + NLoop * 4
    /\ LoopIncRegsOffset \in Nat /\ ConstantRegsOffset = LoopIncRegsOffset + NLoop * 4
    /\ ConstantRegsOffset \in Nat /\ ConstArrayOffset = ConstantRegsOffset + NConst * 4
    /\ ConstArrayOffset \in Nat
    /\ MagicRegsOffset \in Nat /\ MagicRegsOffset % 8 = 0
    /\ NArray = 1 => MagicRegsOffset >= ConstArrayOffset + ArraySize * 4 + 8
    /\ NArray = 0 => MagicRegsOffset >= ConstArrayOffset + 8
<1>1. NLoop \in Nat /\ NConst \in Nat /\ NArray \in Nat /\ ArraySize \in Nat /\ Cells \in Nat
  BY SizesAssumption
<1>2. /\ LoopRegsOffset \in Nat
      /\ LoopIncRegsOffset \in Nat /\ LoopIncRegsOffset = LoopRegsOffset + NLoop * 4
  BY <1>1 DEF LoopRegsOffset, LoopIncRegsOffset, Word
<1>3. ConstantRegsOffset \in Nat /\ ConstantRegsOffset = LoopIncRegsOffset + NLoop * 4
  BY <1>1, <1>2 DEF ConstantRegsOffset, Word
<1>4. ConstArrayOffset \in Nat /\ ConstArrayOffset = ConstantRegsOffset + NConst * 4
  BY <1>1, <1>3 DEF ConstArrayOffset, Word
<1>5. \A a \in Nat : AlignTo8(a) \in Nat /\ AlignTo8(a) % 8 = 0 /\ AlignTo8(a) >= a
  BY DEF AlignTo8
<1>6. NArray * ArraySize \in Nat
  BY <1>1
<1>7. ConstArrayOffset + NArray * ArraySize * Word + 8 \in Nat
  BY <1>4, <1>6 DEF Word
<1>8. MagicRegsOffset \in Nat /\ MagicRegsOffset % 8 = 0
      /\ MagicRegsOffset >= ConstArrayOffset + NArray * ArraySize * Word + 8
  BY <1>5, <1>7 DEF MagicRegsOffset
<1>9. /\ NArray = 1 => NArray * ArraySize * Word = ArraySize * 4
      /\ NArray = 0 => NArray * ArraySize * Word = 0
  BY <1>1 DEF Word
<1>. QED
  BY <1>1, <1>2, <1>3, <1>4, <1>8, <1>9

(* MagicAligned for hardware of every size: the multiplier of a loop is    *)
(* stored to an address that is a multiple of 8, which WRITE_UINT64 needs. *)
THEOREM MultipliersAligned == RegSpec => []MagicAligned
<1>1. ASSUME RegInv PROVE MagicAligned
  <2>. SUFFICES ASSUME NEW r \in written, r.width = 8
                PROVE  r.addr % 8 = 0
    BY DEF MagicAligned
  <2>1. r \in Layout
    BY <1>1 DEF RegInv, WrittenInv
  <2>2. PICK k \in DOMAIN loopRegs : r \in LoopWrites(loopRegs[k])
    BY <2>1 DEF Layout, ConstWrites, ArrayWrites, UsedWrites, CellWrites, Reg, Word
  <2>3. r.addr = MagicRegsOffset + (NLoop - 1 - loopRegs[k].num) * 16
    BY <2>2 DEF LoopWrites, MagicWrites, Reg, Word, BytesMagic
  <2>4. loopRegs[k].num \in Int
    BY <1>1 DEF RegInv, CompilerInv, LoopInv
  <2>5. NLoop - 1 - loopRegs[k].num \in Int
    BY <2>4, SizesAssumption
  <2>. QED
    BY <2>3, <2>5, OffsetsType
<1>. QED
  BY <1>1, RegInvariance, PTL

(* RegTypeOK for programs of every length: what the walks number fits the  *)
(* registers CheckMeetHardwareConstaints compared it with, the loops       *)
(* counted down from ForLoopsNeeded among them.                            *)
THEOREM RegTypesCorrect == RegSpec => []RegTypeOK
<1>1. ASSUME RegInv PROVE RegTypeOK
  <2> USE <1>1 DEF RegInv, CompilerInv
  <2>1. walk \in {"analysis", "allocation", "loops", "arrays", "cells", "done",
                  "rejected", "crash"}
    BY DEF ProgramInv
  <2>2. \A n \in DOMAIN constReg : constReg[n] \in Nat
    BY FS_CardinalityType DEF ConstInv, Numbered
  <2>3. ASSUME Accepted PROVE \A n \in DOMAIN constReg : constReg[n] < NConst
    BY <2>3, FS_CardinalityType, SizesAssumption DEF ConstInv, Numbered
  <2>4. ASSUME Accepted PROVE \A n \in DOMAIN arrayReg : arrayReg[n] < NArray
    BY <2>4, FS_CardinalityType, SizesAssumption DEF ArrayInv, Numbered
  <2>5. ASSUME Accepted PROVE \A k \in DOMAIN loopRegs : loopRegs[k].num \in 0 .. NLoop - 1
    BY <2>5, SizesAssumption DEF LoopInv
  <2>. QED
    BY <2>1, <2>2, <2>3, <2>4, <2>5 DEF RegTypeOK, Accepted
<1>. QED
  BY <1>1, RegInvariance, PTL

-----------------------------------------------------------------------------
(* Registers side by side.                                                 *)

Between(r, low, high) == /\ r.addr \in Int /\ r.width \in Nat
                         /\ low <= r.addr /\ r.addr + r.width <= high

Apart(r, q) == r = q \/ r.addr + r.width <= q.addr \/ q.addr + q.width <= r.addr

(* Registers between two edges, no two of which share a byte.              *)
Packed(S, low, high) == /\ \A r \in S : Between(r, low, high)
                        /\ \A r, q \in S : Apart(r, q)

(* Packed registers on top of packed registers are packed.                  *)
LEMMA PackedStack ==
    ASSUME NEW S, NEW T, NEW a \in Int, NEW b \in Int, NEW c \in Int, NEW d \in Int,
           Packed(S, a, b), Packed(T, c, d), a <= c, b <= c, b <= d
    PROVE  Packed(S \cup T, a, d)
<1>1. \A r \in S \cup T : Between(r, a, d)
  BY DEF Packed, Between
<1>2. ASSUME NEW r \in S \cup T, NEW q \in S \cup T PROVE Apart(r, q)
  <2>1. CASE r \in S /\ q \in T
    BY <2>1 DEF Packed, Between, Apart
  <2>2. CASE r \in T /\ q \in S
    BY <2>2 DEF Packed, Between, Apart
  <2>3. CASE (r \in S /\ q \in S) \/ (r \in T /\ q \in T)
    BY <2>3 DEF Packed
  <2>. QED
    BY <2>1, <2>2, <2>3
<1>. QED
  BY <1>1, <1>2 DEF Packed

(* The bytes of the cells come first.                                       *)
LEMMA CellsPacked == Packed(CellWrites, 0, LoopRegsOffset)
<1>1. Cells \in Nat
  BY SizesAssumption
<1>2. \A r \in CellWrites : r = Reg(r.addr, 1, <<"cell", r.addr>>)
  BY DEF CellWrites, Reg
<1>3. \A r \in CellWrites : r.addr \in 0 .. Cells - 1 /\ r.width = 1
  BY DEF CellWrites, Reg
<1>4. \A r \in CellWrites : Between(r, 0, LoopRegsOffset)
  BY <1>1, <1>3 DEF Between, LoopRegsOffset
<1>5. ASSUME NEW r \in CellWrites, NEW q \in CellWrites PROVE Apart(r, q)
  <2>1. r.addr = q.addr => r = q
    BY <1>2
  <2>2. r.addr \in Int /\ q.addr \in Int /\ r.width = 1 /\ q.width = 1
    BY <1>1, <1>3
  <2>. QED
    BY <2>1, <2>2 DEF Apart
<1>. QED
  BY <1>4, <1>5 DEF Packed

(* A row of registers of one width: each has a number, and no two share    *)
(* an address.                                                             *)
LEMMA RowPacked ==
    ASSUME NEW S, NEW base \in Nat, NEW n \in Nat,
           \A r \in S : /\ r.width = 4
                        /\ \E m \in 0 .. n - 1 : r.addr = base + m * 4,
           \A r, q \in S : r.addr = q.addr => r = q
    PROVE  Packed(S, base, base + n * 4)
<1>1. \A r \in S : Between(r, base, base + n * 4)
  BY DEF Between
<1>2. ASSUME NEW r \in S, NEW q \in S PROVE Apart(r, q)
  <2>1. PICK m \in 0 .. n - 1 : r.addr = base + m * 4
    OBVIOUS
  <2>2. PICK p \in 0 .. n - 1 : q.addr = base + p * 4
    OBVIOUS
  <2>3. m = p \/ m + 1 <= p \/ p + 1 <= m
    OBVIOUS
  <2>4. CASE m = p
    BY <2>1, <2>2, <2>4 DEF Apart
  <2>5. CASE m # p
    BY <2>1, <2>2, <2>3, <2>5 DEF Apart
  <2>. QED
    BY <2>4, <2>5
<1>. QED
  BY <1>1, <1>2 DEF Packed

(* The registers, kind by kind.                                            *)
InitReg(l) == Reg(LoopRegsOffset + l.num * Word, Word, <<"init", l.name>>)

BoundReg(l) == Reg(LoopIncRegsOffset + l.num * Word, Word, <<"bound", l.name>>)

InitRegs == {InitReg(loopRegs[k]) : k \in DOMAIN loopRegs}

BoundRegs == {BoundReg(loopRegs[k]) : k \in DOMAIN loopRegs}

AllMagicRegs == UNION {MagicWrites(loopRegs[k]) : k \in DOMAIN loopRegs}

ConstRegs == UNION {ConstWrites(n) : n \in DOMAIN constReg}

ArrayRegs == UNION {ArrayWrites(arrays[k]) : k \in DOMAIN arrays}

(* Every loop has a number of its own.                                     *)
LEMMA LoopNumbers ==
    ASSUME CompilerInv, Accepted
    PROVE  /\ \A k \in DOMAIN loopRegs : loopRegs[k].num \in 0 .. NLoop - 1
           /\ \A j, k \in DOMAIN loopRegs : loopRegs[j].num = loopRegs[k].num => j = k
<1>1. /\ loopRegs \in Seq([name : STRING, num : Int])
      /\ loopsNeeded \in Nat /\ loopsNeeded <= NLoop /\ Len(loopRegs) <= loopsNeeded
      /\ \A k \in DOMAIN loopRegs : loopRegs[k].num = loopsNeeded - k
  BY DEF CompilerInv, LoopInv
<1>2. \A k \in DOMAIN loopRegs : k \in Nat /\ 1 <= k /\ k <= loopsNeeded
  BY <1>1
<1>3. NLoop \in Nat
  BY SizesAssumption
<1>4. ASSUME NEW k \in DOMAIN loopRegs PROVE loopRegs[k].num \in 0 .. NLoop - 1
  <2>1. loopRegs[k].num = loopsNeeded - k /\ k \in Nat /\ 1 <= k /\ k <= loopsNeeded
    BY <1>1, <1>2
  <2>. QED
    BY <1>1, <1>3, <2>1
<1>5. ASSUME NEW j \in DOMAIN loopRegs, NEW k \in DOMAIN loopRegs,
             loopRegs[j].num = loopRegs[k].num
      PROVE  j = k
  <2>1. loopsNeeded - j = loopsNeeded - k
    BY <1>1, <1>5
  <2>2. j \in Nat /\ k \in Nat /\ loopsNeeded \in Nat
    BY <1>1, <1>2
  <2>. QED
    BY <2>1, <2>2
<1>. QED
  BY <1>4, <1>5

(* Registers of a row at one address have one number.                       *)
LEMMA SameRow == \A a, x, y \in Int : a + x * 4 = a + y * 4 => x = y
OBVIOUS

(* The first values of the loops, then their bounds.                        *)
LEMMA LoopRowsPacked ==
    ASSUME CompilerInv, Accepted
    PROVE  /\ Packed(InitRegs, LoopRegsOffset, LoopIncRegsOffset)
           /\ Packed(BoundRegs, LoopIncRegsOffset, ConstantRegsOffset)
<1>1. \A k \in DOMAIN loopRegs : loopRegs[k].num \in 0 .. NLoop - 1
  BY LoopNumbers
<1>2. NLoop \in Nat
  BY SizesAssumption
<1>3. Packed(InitRegs, LoopRegsOffset, LoopRegsOffset + NLoop * 4)
  <2>1. \A r \in InitRegs : /\ r.width = 4
                            /\ \E m \in 0 .. NLoop - 1 : r.addr = LoopRegsOffset + m * 4
    BY <1>1 DEF InitRegs, InitReg, Reg, Word
  <2>2. ASSUME NEW r \in InitRegs, NEW q \in InitRegs, r.addr = q.addr PROVE r = q
    <3>1. PICK j \in DOMAIN loopRegs : r = InitReg(loopRegs[j])
      BY DEF InitRegs
    <3>2. PICK k \in DOMAIN loopRegs : q = InitReg(loopRegs[k])
      BY DEF InitRegs
    <3>3. LoopRegsOffset + loopRegs[j].num * 4 = LoopRegsOffset + loopRegs[k].num * 4
      BY <2>2, <3>1, <3>2 DEF InitReg, Reg, Word
    <3>4. loopRegs[j].num = loopRegs[k].num
      <4>1. loopRegs[j].num \in Int /\ loopRegs[k].num \in Int /\ LoopRegsOffset \in Int
        BY <1>1, OffsetsType
      <4>. QED
        BY <3>3, <4>1, SameRow, Zenon
    <3>5. j = k
      BY <3>4, LoopNumbers
    <3>. QED
      BY <3>1, <3>2, <3>5
  <2>. QED
    BY <1>2, <2>1, <2>2, RowPacked, OffsetsType
<1>4. Packed(BoundRegs, LoopIncRegsOffset, LoopIncRegsOffset + NLoop * 4)
  <2>1. \A r \in BoundRegs : /\ r.width = 4
                             /\ \E m \in 0 .. NLoop - 1 : r.addr = LoopIncRegsOffset + m * 4
    BY <1>1 DEF BoundRegs, BoundReg, Reg, Word
  <2>2. ASSUME NEW r \in BoundRegs, NEW q \in BoundRegs, r.addr = q.addr PROVE r = q
    <3>1. PICK j \in DOMAIN loopRegs : r = BoundReg(loopRegs[j])
      BY DEF BoundRegs
    <3>2. PICK k \in DOMAIN loopRegs : q = BoundReg(loopRegs[k])
      BY DEF BoundRegs
    <3>3. LoopIncRegsOffset + loopRegs[j].num * 4 = LoopIncRegsOffset + loopRegs[k].num * 4
      BY <2>2, <3>1, <3>2 DEF BoundReg, Reg, Word
    <3>4. loopRegs[j].num = loopRegs[k].num
      <4>1. loopRegs[j].num \in Int /\ loopRegs[k].num \in Int /\ LoopIncRegsOffset \in Int
        BY <1>1, OffsetsType
      <4>. QED
        BY <3>3, <4>1, SameRow, Zenon
    <3>5. j = k
      BY <3>4, LoopNumbers
    <3>. QED
      BY <3>1, <3>2, <3>5
  <2>. QED
    BY <1>2, <2>1, <2>2, RowPacked, OffsetsType
<1>. QED
  BY <1>3, <1>4, OffsetsType

(* The constants follow.                                                    *)
LEMMA ConstsPacked ==
    ASSUME CompilerInv, Accepted
    PROVE  Packed(ConstRegs, ConstantRegsOffset, ConstArrayOffset)
<1>1. /\ \A n \in DOMAIN constReg : constReg[n] \in 0 .. NConst - 1
      /\ \A n, m \in DOMAIN constReg : constReg[n] = constReg[m] => n = m
  BY FS_CardinalityType, SizesAssumption DEF CompilerInv, ConstInv, Numbered
<1>2. \A r \in ConstRegs : /\ r.width = 4
                           /\ \E m \in 0 .. NConst - 1 : r.addr = ConstantRegsOffset + m * 4
  BY <1>1 DEF ConstRegs, ConstWrites, Reg, Word
<1>3. ASSUME NEW r \in ConstRegs, NEW q \in ConstRegs, r.addr = q.addr PROVE r = q
  <2>1. PICK n \in DOMAIN constReg :
           r = Reg(ConstantRegsOffset + constReg[n] * Word, Word, <<"const", n>>)
    BY DEF ConstRegs, ConstWrites
  <2>2. PICK m \in DOMAIN constReg :
           q = Reg(ConstantRegsOffset + constReg[m] * Word, Word, <<"const", m>>)
    BY DEF ConstRegs, ConstWrites
  <2>3. ConstantRegsOffset + constReg[n] * 4 = ConstantRegsOffset + constReg[m] * 4
    BY <1>3, <2>1, <2>2 DEF Reg, Word
  <2>4. constReg[n] = constReg[m]
    BY <1>1, <2>3, OffsetsType
  <2>. QED
    BY <1>1, <2>1, <2>2, <2>4
<1>4. NConst \in Nat
  BY SizesAssumption
<1>5. Packed(ConstRegs, ConstantRegsOffset, ConstantRegsOffset + NConst * 4)
  BY <1>2, <1>3, <1>4, RowPacked, OffsetsType
<1>. QED
  BY <1>5, OffsetsType

(* With one array register, the elements end before the byte that selects  *)
(* the index, and that before the multipliers.                             *)
LEMMA ArraysPacked ==
    ASSUME CompilerInv, Accepted, LayoutFits
    PROVE  Packed(ArrayRegs, ConstArrayOffset, MagicRegsOffset)
<1>1. IsSeq(arrays) /\ Len(arrays) <= 1
  BY DEF CompilerInv, ArrayInv, LayoutFits
<1>2. \A j, k \in DOMAIN arrays : j = k
  BY <1>1 DEF IsSeq
<1>3. \A k \in DOMAIN arrays : arrays[k].size \in 0 .. ArraySize /\ NArray = 1
  <2>. TAKE k \in DOMAIN arrays
  <2>1. PICK j \in ArrayNodes : arrays[k].size = program[j].size
    BY DEF CompilerInv, ArrayInv
  <2>2. program[j].size \in Nat
    BY DEF ArrayNodes, CompilerInv, ProgramInv, Nodes
  <2>3. program[j].size <= ArraySize /\ program[j].name \in DOMAIN arrayReg
    BY DEF CompilerInv, ArrayInv
  <2>4. IsFiniteSet(DOMAIN arrayReg) /\ arrayReg[program[j].name] \in 0 .. NArray - 1
    BY <2>3, FS_CardinalityType, SizesAssumption DEF CompilerInv, ArrayInv, Numbered
  <2>. QED
    BY <2>1, <2>2, <2>3, <2>4, SizesAssumption DEF LayoutFits
<1>4. \A r \in ArrayRegs :
         /\ DOMAIN arrays # {}
         /\ \/ r.width = 1 /\ r.addr = ConstArrayOffset + ArraySize * 4
            \/ r.width = 4 /\ \E m \in 0 .. ArraySize - 1 : r.addr = ConstArrayOffset + m * 4
  BY <1>3, SizesAssumption DEF ArrayRegs, ArrayWrites, Reg, Word
<1>5. ASSUME NEW r \in ArrayRegs PROVE Between(r, ConstArrayOffset, MagicRegsOffset)
  BY <1>3, <1>4, OffsetsType, SizesAssumption DEF Between
<1>6. ASSUME NEW r \in ArrayRegs, NEW q \in ArrayRegs, r.addr = q.addr PROVE r = q
  <2>1. PICK k \in DOMAIN arrays : r \in ArrayWrites(arrays[k]) /\ q \in ArrayWrites(arrays[k])
    BY <1>2 DEF ArrayRegs
  <2>2. arrays[k].size \in 0 .. ArraySize /\ ArraySize \in Nat
    BY <1>3, SizesAssumption
  <2> DEFINE select == Reg(ConstArrayOffset + ArraySize * Word, 1, <<"select", arrays[k].select>>)
             element(i) == Reg(ConstArrayOffset + i * Word, Word, <<"element", arrays[k].name, i>>)
  <2>3. ASSUME NEW x \in ArrayWrites(arrays[k])
        PROVE  \/ x = select /\ x.addr = ConstArrayOffset + ArraySize * 4
               \/ \E i \in 0 .. ArraySize - 1 :
                     x = element(i) /\ x.addr = ConstArrayOffset + i * 4
    BY <2>2 DEF ArrayWrites, Reg, Word
  <2>4. ConstArrayOffset \in Int
    BY OffsetsType
  <2>. HIDE DEF select
  <2>5. CASE r = select /\ r.addr = ConstArrayOffset + ArraySize * 4
    <3>1. \A i \in 0 .. ArraySize - 1 : q.addr # ConstArrayOffset + i * 4
      BY <1>6, <2>2, <2>4, <2>5
    <3>. QED
      BY <2>1, <2>3, <2>5, <3>1
  <2>6. ASSUME NEW i \in 0 .. ArraySize - 1, r = element(i), r.addr = ConstArrayOffset + i * 4
        PROVE  r = q
    <3>1. \A l \in 0 .. ArraySize - 1 : q.addr = ConstArrayOffset + l * 4 => l = i
      BY <1>6, <2>2, <2>4, <2>6
    <3>2. q.addr # ConstArrayOffset + ArraySize * 4
      BY <1>6, <2>2, <2>4, <2>6
    <3>3. PICK l \in 0 .. ArraySize - 1 : q = element(l) /\ q.addr = ConstArrayOffset + l * 4
      BY <2>1, <2>3, <3>2
    <3>4. l = i
      BY <3>1, <3>3
    <3>. QED
      BY <2>6, <3>3, <3>4
  <2>. QED
    BY <2>1, <2>3, <2>5, <2>6
<1>7. ASSUME NEW r \in ArrayRegs, NEW q \in ArrayRegs PROVE Apart(r, q)
  BY <1>4, <1>6, OffsetsType, SizesAssumption DEF Apart
<1>. QED
  BY <1>5, <1>7 DEF Packed

(* Different loops have multipliers sixteen bytes apart.                    *)
LEMMA OtherSlot ==
    \A a, x, y \in Int :
        x # y => a + x * 16 + 16 <= a + y * 16 \/ a + y * 16 + 16 <= a + x * 16
OBVIOUS

(* The multipliers of a loop fill no more than their sixteen bytes.        *)
LEMMA MagicPacked ==
    ASSUME CompilerInv, Accepted
    PROVE  Packed(AllMagicRegs, MagicRegsOffset, MagicRegsOffset + NLoop * BytesMagic)
<1> DEFINE row(k) == NLoop - 1 - loopRegs[k].num
           start(k) == MagicRegsOffset + row(k) * 16
<1>1. \A k \in DOMAIN loopRegs : row(k) \in 0 .. NLoop - 1 /\ start(k) \in Int
  BY LoopNumbers, OffsetsType, SizesAssumption
<1>2. \A j, k \in DOMAIN loopRegs : j # k => row(j) # row(k)
  BY LoopNumbers, SizesAssumption
<1>3. ASSUME NEW k \in DOMAIN loopRegs, NEW r \in MagicWrites(loopRegs[k])
      PROVE  /\ \/ r.addr = start(k) /\ r.width = 8
                \/ r.addr = start(k) + 8 /\ r.width = 4
                \/ r.addr = start(k) + 12 /\ r.width = 1
             /\ \A q \in MagicWrites(loopRegs[k]) : r.addr = q.addr => r = q
  <2>1. start(k) # start(k) + 8 /\ start(k) # start(k) + 12 /\ start(k) + 8 # start(k) + 12
    BY <1>1
  <2>2. r.addr = start(k) \/ r.addr = start(k) + 8 \/ r.addr = start(k) + 12
    BY DEF MagicWrites, Reg, BytesMagic
  <2>. QED
    BY <2>1 DEF MagicWrites, Reg, BytesMagic
<1>. HIDE DEF row
<1>4. ASSUME NEW r \in AllMagicRegs
      PROVE  Between(r, MagicRegsOffset, MagicRegsOffset + NLoop * BytesMagic)
  <2>1. PICK k \in DOMAIN loopRegs : r \in MagicWrites(loopRegs[k])
    BY DEF AllMagicRegs
  <2>. QED
    BY <1>1, <1>3, <2>1, OffsetsType, SizesAssumption DEF Between, BytesMagic
<1>5. ASSUME NEW r \in AllMagicRegs, NEW q \in AllMagicRegs PROVE Apart(r, q)
  <2>1. PICK j \in DOMAIN loopRegs : r \in MagicWrites(loopRegs[j])
    BY DEF AllMagicRegs
  <2>2. PICK k \in DOMAIN loopRegs : q \in MagicWrites(loopRegs[k])
    BY DEF AllMagicRegs
  <2>3. CASE j = k
    <3>1. r.addr = q.addr => r = q
      BY <1>3, <2>1, <2>2, <2>3
    <3>. QED
      BY <1>1, <1>3, <2>1, <2>2, <2>3, <3>1 DEF Apart
  <2>4. CASE j # k
    <3>1. start(j) + 16 <= start(k) \/ start(k) + 16 <= start(j)
      <4>1. row(j) \in Int /\ row(k) \in Int /\ row(j) # row(k) /\ MagicRegsOffset \in Int
        BY <1>1, <1>2, <2>4, OffsetsType
      <4>. QED
        BY <4>1, OtherSlot, Zenon
    <3>. HIDE DEF start
    <3>. QED
      BY <1>1, <1>3, <2>1, <2>2, <3>1 DEF Apart
  <2>. QED
    BY <2>3, <2>4
<1>. QED
  BY <1>4, <1>5 DEF Packed

(* The fixed registers.                                                    *)
LEMMA UsedPacked ==
    ASSUME CompilerInv
    PROVE  Packed(UsedWrites, UsedBase, UsedBase + 4 + Len(conds))
<1>1. Len(conds) \in Nat /\ CondsKnown \subseteq 1 .. Len(conds) /\ UsedBase \in Nat
  BY SizesAssumption DEF CompilerInv, ProgramInv, CondsKnown
<1>2. \A r \in UsedWrites :
         \/ \E k \in 0 .. 3 : r = Reg(UsedBase + k, 1, <<"used", k>>)
         \/ \E k \in CondsKnown : r = Reg(UsedBase + 3 + k, 1, <<"cond", CondNumber(conds[k])>>)
  BY DEF UsedWrites
<1>3. ASSUME NEW r \in UsedWrites
      PROVE  /\ r.width = 1 /\ r.addr \in Int
             /\ UsedBase <= r.addr /\ r.addr + 1 <= UsedBase + 4 + Len(conds)
  <2>1. CASE \E k \in 0 .. 3 : r = Reg(UsedBase + k, 1, <<"used", k>>)
    BY <1>1, <2>1 DEF Reg
  <2>2. CASE \E k \in CondsKnown : r = Reg(UsedBase + 3 + k, 1, <<"cond", CondNumber(conds[k])>>)
    <3>1. PICK k \in CondsKnown : r = Reg(UsedBase + 3 + k, 1, <<"cond", CondNumber(conds[k])>>)
      BY <2>2
    <3>2. r.width = 1 /\ r.addr = UsedBase + 3 + k /\ k \in 1 .. Len(conds)
      BY <1>1, <3>1 DEF Reg
    <3>. QED
      BY <1>1, <3>2
  <2>. QED
    BY <1>2, <2>1, <2>2
<1>4. ASSUME NEW r \in UsedWrites, NEW q \in UsedWrites, r.addr = q.addr PROVE r = q
  BY <1>1, <1>2, <1>4 DEF Reg
<1>5. \A r \in UsedWrites : Between(r, UsedBase, UsedBase + 4 + Len(conds))
  BY <1>1, <1>3 DEF Between
<1>6. ASSUME NEW r \in UsedWrites, NEW q \in UsedWrites PROVE Apart(r, q)
  BY <1>3, <1>4 DEF Apart
<1>. QED
  BY <1>5, <1>6 DEF Packed

(* No two registers of a program share a byte.                             *)
LEMMA LayoutPacked ==
    ASSUME CompilerInv, Accepted, LayoutFits
    PROVE  Packed(Layout, 0, UsedBase + 4 + Len(conds))
<1> DEFINE S1 == CellWrites \cup InitRegs
           S2 == S1 \cup BoundRegs
           S3 == S2 \cup ConstRegs
           S4 == S3 \cup ArrayRegs
           S5 == S4 \cup AllMagicRegs
           magicEnd == MagicRegsOffset + NLoop * BytesMagic
           end == UsedBase + 4 + Len(conds)
<1>0. Len(conds) \in Nat /\ UsedBase \in Nat /\ NLoop \in Nat
  BY SizesAssumption DEF CompilerInv, ProgramInv
<1>1. /\ LoopRegsOffset \in Int /\ LoopIncRegsOffset \in Int /\ ConstantRegsOffset \in Int
      /\ ConstArrayOffset \in Int /\ MagicRegsOffset \in Int /\ magicEnd \in Int
      /\ UsedBase \in Int /\ end \in Int
  BY <1>0, OffsetsType DEF BytesMagic
<1>2. /\ 0 <= LoopRegsOffset /\ LoopRegsOffset <= LoopIncRegsOffset
      /\ LoopIncRegsOffset <= ConstantRegsOffset /\ ConstantRegsOffset <= ConstArrayOffset
      /\ ConstArrayOffset <= MagicRegsOffset
  BY OffsetsType, SizesAssumption DEF LayoutFits
<1>3. MagicRegsOffset <= magicEnd /\ magicEnd <= UsedBase /\ UsedBase <= end
  BY <1>0, OffsetsType DEF LayoutFits, BytesMagic
<1>. HIDE DEF magicEnd, end
<1>4. Packed(S1, 0, LoopIncRegsOffset)
  BY <1>1, <1>2, CellsPacked, LoopRowsPacked, PackedStack
<1>. HIDE DEF S1
<1>5. Packed(S2, 0, ConstantRegsOffset)
  BY <1>1, <1>2, <1>4, LoopRowsPacked, PackedStack
<1>. HIDE DEF S2
<1>6. Packed(S3, 0, ConstArrayOffset)
  BY <1>1, <1>2, <1>5, ConstsPacked, PackedStack
<1>. HIDE DEF S3
<1>7. Packed(S4, 0, MagicRegsOffset)
  BY <1>1, <1>2, <1>6, ArraysPacked, PackedStack
<1>. HIDE DEF S4
<1>8. Packed(S5, 0, magicEnd)
  BY <1>1, <1>2, <1>3, <1>7, MagicPacked, PackedStack DEF magicEnd
<1>. HIDE DEF S5
<1>9. Packed(S5 \cup UsedWrites, 0, end)
  BY <1>1, <1>2, <1>3, <1>8, UsedPacked, PackedStack DEF end
<1>10. Layout \subseteq S5 \cup UsedWrites
  BY DEF Layout, LoopWrites, S1, S2, S3, S4, S5, InitRegs, InitReg, BoundRegs, BoundReg,
         AllMagicRegs, ConstRegs, ArrayRegs
<1>. QED
  BY <1>9, <1>10 DEF Packed, end

-----------------------------------------------------------------------------
(* The bytes of the page.                                                  *)

Holds(bytes, regs) ==
    \A r \in regs, k \in Nat :
        k < r.width => /\ r.addr + k \in DOMAIN bytes
                       /\ bytes[r.addr + k] = <<r.what, k>>

(* Storing registers that share no byte with those a page holds, nor with  *)
(* one another, leaves it holding all of them.                             *)
LEMMA StoredHolds ==
    ASSUME NEW bytes, NEW old, NEW regs, NEW low, NEW high,
           Packed(old \cup regs, low, high), Holds(bytes, old)
    PROVE  Holds(Stored(bytes, regs), old \cup regs)
<1> DEFINE Covers(r, a) == a \in r.addr .. r.addr + r.width - 1
           range == UNION {r.addr .. r.addr + r.width - 1 : r \in regs}
           Owner(a) == CHOOSE r \in regs : Covers(r, a)
           new == [a \in range |-> <<Owner(a).what, a - Owner(a).addr>>]
<1>1. \A r \in old \cup regs : r.addr \in Int /\ r.width \in Nat
  BY DEF Packed, Between
<1>2. Stored(bytes, regs) = Over(new, bytes)
  BY DEF Stored
<1>3. \A r, q \in old \cup regs, a \in Int : Covers(r, a) /\ Covers(q, a) => r = q
  BY <1>1 DEF Packed, Apart
<1>4. \A r \in old \cup regs, k \in Nat :
         k < r.width => r.addr + k \in Int /\ Covers(r, r.addr + k) /\ r.addr + k - r.addr = k
  BY <1>1
<1>5. ASSUME NEW r \in regs, NEW a \in Int, Covers(r, a)
      PROVE  /\ a \in DOMAIN Over(new, bytes)
             /\ Over(new, bytes)[a] = <<r.what, a - r.addr>>
  <2>1. a \in range
    BY <1>5
  <2>2. Owner(a) = r
    <3>1. \A q \in regs : Covers(q, a) => q = r
      BY <1>3, <1>5
    <3>. HIDE DEF Covers
    <3>. QED
      BY <1>5, <3>1
  <2>3. a \in DOMAIN new /\ new[a] = <<Owner(a).what, a - Owner(a).addr>>
    <3>. HIDE DEF range, Owner
    <3>. QED
      BY <2>1
  <2>4. new[a] = <<r.what, a - r.addr>>
    BY <2>2, <2>3
  <2>. HIDE DEF new
  <2>. QED
    BY <2>3, <2>4 DEF Over
<1>. SUFFICES ASSUME NEW r \in old \cup regs, NEW k \in Nat, k < r.width
              PROVE  /\ r.addr + k \in DOMAIN Over(new, bytes)
                     /\ Over(new, bytes)[r.addr + k] = <<r.what, k>>
  BY <1>2 DEF Holds
<1>6. CASE r \notin regs
  <2>1. r.addr + k \in DOMAIN bytes /\ bytes[r.addr + k] = <<r.what, k>>
    BY <1>6 DEF Holds
  <2>2. r.addr + k \notin range
    <3>. SUFFICES ASSUME NEW q \in regs, Covers(q, r.addr + k) PROVE FALSE
      OBVIOUS
    <3>1. q = r
      BY <1>3, <1>4
    <3>. QED
      BY <1>6, <3>1
  <2>3. r.addr + k \notin DOMAIN new
    <3>. HIDE DEF range
    <3>. QED
      BY <2>2
  <2>. HIDE DEF new
  <2>. QED
    BY <2>1, <2>3 DEF Over
<1>7. CASE r \in regs
  <2> DEFINE a == r.addr + k
  <2>1. a \in Int /\ Covers(r, a) /\ a - r.addr = k
    <3>1. r.addr \in Int /\ r.width \in Nat
      BY <1>1
    <3>. QED
      BY <3>1
  <2>. HIDE DEF new, Covers, a
  <2>2. a \in DOMAIN Over(new, bytes) /\ Over(new, bytes)[a] = <<r.what, a - r.addr>>
    BY <1>5, <1>7, <2>1
  <2>3. Over(new, bytes)[a] = <<r.what, k>>
    BY <2>1, <2>2
  <2>. QED
    BY <2>2, <2>3 DEF a
<1>. QED
  BY <1>6, <1>7

(* What the page holds while it is written.                                *)
PageInv == Holds(page, written)

(* The page holds every register written.                                   *)
LEMMA PageInvariance ==
    ASSUME LayoutFits
    PROVE  RegSpec => []PageInv
<1>1. RegInit => PageInv
  BY DEF RegInit, PageInv, Holds
<1>2. ASSUME RegInv, PageInv, [RegNext]_regVars PROVE PageInv'
  <2>1. CASE UNCHANGED <<page, written>>
    BY <1>2, <2>1 DEF PageInv, Holds
  <2>2. CASE ProgramHardware /\ ~UNCHANGED <<page, written>>
    <3>1. Accepted /\ \E regs \in SUBSET Layout : Write(regs)
      BY <1>2, <2>2, WritesInLayout
    <3>2. PICK regs \in SUBSET Layout : Write(regs)
      BY <3>1
    <3>3. written \cup regs \subseteq Layout
      BY <1>2 DEF RegInv, WrittenInv
    <3>4. Packed(written \cup regs, 0, UsedBase + 4 + Len(conds))
      BY <1>2, <3>1, <3>3, LayoutPacked DEF RegInv, Packed
    <3>5. Holds(Stored(page, regs), written \cup regs)
      BY <1>2, <3>4, StoredHolds DEF PageInv
    <3>6. page' = Stored(page, regs) /\ written' = written \cup regs
      BY <3>2 DEF Write
    <3>. QED
      BY <3>5, <3>6 DEF PageInv, Holds
  <2>3. CASE Compile
    BY <2>1, <2>3 DEF Compile, ConstDecl, ConstArrayDecl, UseForLoopRegister, PassBy,
         CheckMeetHardwareConstaints, ForStmt, AllocConstArray, BindArrayIndex, Visit
  <2>4. CASE UNCHANGED regVars
    BY <2>1, <2>4 DEF regVars
  <2>. QED
    BY <1>2, <2>1, <2>2, <2>3, <2>4 DEF RegNext
<1>. QED
  BY <1>1, <1>2, RegInvariance, PTL DEF RegSpec

(* RegistersIntact for hardware of every size that leaves room before the  *)
(* fixed registers and has at most one array register: whatever program is *)
(* compiled, whatever order the hash map of constants is walked in, every  *)
(* register written keeps all its bytes.                                   *)
THEOREM RegistersStayIntact ==
    ASSUME LayoutFits
    PROVE  RegSpec => []RegistersIntact
<1>1. PageInv => RegistersIntact
  BY SizesAssumption DEF PageInv, Holds, RegistersIntact
<1>. QED
  BY <1>1, PageInvariance, PTL


-----------------------------------------------------------------------------
(* The registers inputs read.  What reads an input of the first layer      *)
(* finds the register the program means.  Loops are numbered three times;  *)
(* the proof stands on the one equation that ties their numbers (MapInv),  *)
(* on registers that keep what is written to them, and on all of them      *)
(* having been written at the end (DoneInv).                               *)

(* The registers of loops are those of the loops already visited, and the  *)
(* map has the same loops under the numbers of their registers.            *)
MapInv ==
    /\ \A k \in DOMAIN loopRegs :
           /\ \E j \in ForNodes : /\ walk = "allocation" => j < at
                                  /\ loopRegs[k].name = program[j].name
           /\ loopRegs[k].name \in DOMAIN loopMap
           /\ loopMap[loopRegs[k].name] = ForLoopRegOffset + loopRegs[k].num
    /\ \A j, k \in DOMAIN loopRegs : loopRegs[j].name = loopRegs[k].name => j = k
    /\ \A n \in DOMAIN loopMap : \E k \in DOMAIN loopRegs : loopRegs[k].name = n

LoopsWritten == \A k \in DOMAIN loopRegs : LoopWrites(loopRegs[k]) \subseteq written

ConstsWritten == \A n \in DOMAIN constReg : ConstWrites(n) \subseteq written

(* What has been written when a phase begins.                              *)
DoneInv ==
    /\ walk = "loops" =>
          \A k \in DOMAIN loopRegs : k < at => LoopWrites(loopRegs[k]) \subseteq written
    /\ walk \in {"arrays", "cells", "done"} => LoopsWritten /\ ConstsWritten
    /\ walk \in {"cells", "done"} => UsedWrites \subseteq written /\ CondsKnown = DOMAIN conds

-----------------------------------------------------------------------------
(* A loop enters the map under the number its register is given next.       *)
LEMMA ForStmtMaps ==
    ASSUME RegInv, MapInv, ForStmt
    PROVE  MapInv'
<1> USE DEF RegInv, CompilerInv
<1> DEFINE n == program[at].name
           l == [name |-> n, num |-> LoopNumber]
<1>1. /\ Visit("allocation", "for") /\ walk' = walk
      /\ UNCHANGED loopsNeeded
      /\ loopRegs' = Append(loopRegs, l)
      /\ loopMap' = Assign(loopMap, n, ForLoopRegOffset + (loopsNeeded - Len(loopRegs) - 1))
  BY DEF ForStmt
<1>2. /\ walk = "allocation" /\ at \in ForNodes /\ at \in Nat /\ at' = at + 1
      /\ program' = program /\ ForNodes' = ForNodes
  BY <1>1, VisitMoves DEF ForNodes
<1>3. /\ loopsNeeded \in Nat /\ loopRegs \in Seq([name : STRING, num : Int])
      /\ n \in STRING
  BY <1>2 DEF LoopInv, ProgramInv, Nodes, ForNodes
<1>4. LoopNumber \in Int /\ loopsNeeded - Len(loopRegs) - 1 = LoopNumber
  BY <1>3 DEF LoopNumber
<1>5. /\ Len(loopRegs) \in Nat
      /\ DOMAIN loopRegs = 1 .. Len(loopRegs)
      /\ DOMAIN loopRegs' = 1 .. Len(loopRegs) + 1
      /\ loopRegs'[Len(loopRegs) + 1] = l
      /\ \A k \in DOMAIN loopRegs : loopRegs'[k] = loopRegs[k]
  BY <1>1, <1>3, <1>4
<1> DEFINE last == Len(loopRegs) + 1
<1>6. DOMAIN loopRegs' = DOMAIN loopRegs \cup {last} /\ last \notin DOMAIN loopRegs
  BY <1>5
<1>7. \A k \in DOMAIN loopRegs : loopRegs[k].name # n
  <2>. SUFFICES ASSUME NEW k \in DOMAIN loopRegs, loopRegs[k].name = n PROVE FALSE
    OBVIOUS
  <2>1. PICK j \in ForNodes : j < at /\ loopRegs[k].name = program[j].name
    BY <1>2 DEF MapInv
  <2>2. j = at
    BY <1>2, <2>1 DEF ProgramInv
  <2>. QED
    BY <1>2, <2>1, <2>2
<1>8. /\ DOMAIN loopMap' = DOMAIN loopMap \cup {n}
      /\ loopMap'[n] = ForLoopRegOffset + LoopNumber
      /\ \A m \in DOMAIN loopMap : m # n => loopMap'[m] = loopMap[m]
  BY <1>1, <1>4 DEF Assign, Over
<1>9. l.name = n /\ l.num = LoopNumber
  OBVIOUS
<1>. HIDE DEF n, l, last
<1>10. \A j \in ForNodes : j < at => j < at'
  BY <1>2 DEF ProgramInv, ForNodes
<1>11. ASSUME NEW k \in DOMAIN loopRegs'
       PROVE  /\ \E j \in ForNodes' : /\ walk' = "allocation" => j < at'
                                      /\ loopRegs'[k].name = program'[j].name
              /\ loopRegs'[k].name \in DOMAIN loopMap'
              /\ loopMap'[loopRegs'[k].name] = ForLoopRegOffset + loopRegs'[k].num
  <2>1. CASE k = last
    <3>1. at < at'
      BY <1>2
    <3>. QED
      BY <1>2, <1>5, <1>8, <1>9, <2>1, <3>1 DEF last, n
  <2>2. CASE k \in DOMAIN loopRegs
    <3>1. /\ loopRegs'[k] = loopRegs[k] /\ loopRegs[k].name # n
          /\ loopRegs[k].name \in DOMAIN loopMap
          /\ loopMap[loopRegs[k].name] = ForLoopRegOffset + loopRegs[k].num
          /\ \E j \in ForNodes : j < at /\ loopRegs[k].name = program[j].name
      BY <1>2, <1>5, <1>7, <2>2 DEF MapInv
    <3>. QED
      BY <1>2, <1>8, <1>10, <3>1
  <2>. QED
    BY <1>6, <2>1, <2>2
<1>12. \A j, k \in DOMAIN loopRegs' : loopRegs'[j].name = loopRegs'[k].name => j = k
  BY <1>5, <1>6, <1>7, <1>9 DEF MapInv, last
<1>13. \A m \in DOMAIN loopMap' : \E k \in DOMAIN loopRegs' : loopRegs'[k].name = m
  BY <1>5, <1>6, <1>8, <1>9 DEF MapInv, last
<1>. QED
  BY <1>11, <1>12, <1>13 DEF MapInv

(* No other step touches the loops or their map.                            *)
LEMMA MapInvInductive ==
    ASSUME RegInv, MapInv, [RegNext]_regVars
    PROVE  MapInv'
<1>1. CASE ForStmt
  BY <1>1, ForStmtMaps
<1>2. CASE ~ForStmt
  <2>1. UNCHANGED <<loopRegs, loopMap, program>>
    <3>1. CASE Compile
      BY <1>2, <3>1 DEF Compile, ConstDecl, ConstArrayDecl, UseForLoopRegister, PassBy,
         CheckMeetHardwareConstaints, AllocConstArray, BindArrayIndex, Visit, compiled
    <3>2. CASE ProgramHardware
      BY <3>2, WritesInLayout DEF compiled
    <3>3. CASE UNCHANGED regVars
      BY <3>3 DEF regVars, compiled
    <3>. QED
      BY <3>1, <3>2, <3>3 DEF RegNext
  <2>2. ForNodes' = ForNodes
    BY <2>1 DEF ForNodes
  <2>3. ASSUME NEW k \in DOMAIN loopRegs, NEW j \in ForNodes,
               walk = "allocation" => j < at, walk' = "allocation"
        PROVE  j < at'
    <3>1. loopRegs # <<>>
      BY <2>3 DEF RegInv, CompilerInv, LoopInv
    <3>2. walk = "allocation" /\ at' \in {at, at + 1}
      BY <2>3, <3>1 DEF RegInv, CompilerInv, LoopInv, RegNext, Compile, ProgramHardware,
         ConstDecl, ConstArrayDecl, UseForLoopRegister, PassBy, CheckMeetHardwareConstaints,
         ForStmt, AllocConstArray, BindArrayIndex, Visit, regVars, compiled,
         Program, DoForLoopWrite, DoConstRegWrite, StartArrays, DoConstArrayWrite,
         WriteUsed, DoControlWrites
    <3>3. j \in Nat /\ at \in Nat
      BY DEF ForNodes, RegInv, CompilerInv, ProgramInv
    <3>. QED
      BY <2>3, <3>2, <3>3
  <2>4. ASSUME NEW k \in DOMAIN loopRegs
        PROVE  \E j \in ForNodes : /\ walk' = "allocation" => j < at'
                                   /\ loopRegs[k].name = program[j].name
    BY <2>3 DEF MapInv
  <2>. QED
    BY <2>1, <2>2, <2>4 DEF MapInv
<1>. QED
  BY <1>1, <1>2

(* So map and registers agree throughout.                                   *)
LEMMA MapInvariance == RegSpec => []MapInv
<1>1. RegInit => MapInv
  BY DEF RegInit, MapInv
<1>2. RegInv /\ MapInv /\ [RegNext]_regVars => MapInv'
  BY MapInvInductive
<1>. QED
  BY <1>1, <1>2, RegInvariance, PTL DEF RegSpec

-----------------------------------------------------------------------------
(* Inputs are distinct.                                                    *)

(* A function that never gives a value twice has as many values as         *)
(* arguments.                                                              *)
LEMMA ImageCardinality ==
    ASSUME NEW f, IsFiniteSet(DOMAIN f), \A x, y \in DOMAIN f : f[x] = f[y] => x = y
    PROVE  /\ IsFiniteSet({f[x] : x \in DOMAIN f})
           /\ Cardinality({f[x] : x \in DOMAIN f}) = Cardinality(DOMAIN f)
<1> DEFINE S == DOMAIN f
           T == {f[x] : x \in DOMAIN f}
           g == [x \in S |-> f[x]]
<1>1. g \in [S -> T]
  OBVIOUS
<1>2. /\ \A a, b \in S : g[a] = g[b] => a = b
      /\ \A t \in T : \E s \in S : g[s] = t
  OBVIOUS
<1>3. ExistsBijection(S, T)
  BY <1>1, <1>2 DEF ExistsBijection, Bijection, Injection, Surjection, IsInjective
<1>. HIDE DEF S, T
<1>4. IsFiniteSet(S) => IsFiniteSet(T) /\ Cardinality(T) = Cardinality(S)
  BY <1>3, FS_Bijection
<1>. QED
  BY <1>4 DEF S, T

(* Constants, arrays and loops have three ranges of inputs.                 *)
LEMMA InputsAreDistinct ==
    ASSUME RegInv, MapInv, Accepted
    PROVE  InputsDistinct
<1> USE DEF RegInv, CompilerInv
<1> DEFINE arrayIn == [n \in DOMAIN arrayReg |-> arrayReg[n] + ConstArrayRegOffset]
           loopName == [k \in DOMAIN loopRegs |-> loopRegs[k].name]
           A == {constReg[n] : n \in DOMAIN constReg}
           B == {arrayIn[n] : n \in DOMAIN arrayIn}
           C == {loopMap[n] : n \in DOMAIN loopMap}
<1>1. NConst \in Nat /\ NArray \in Nat /\ NLoop \in Nat
  BY SizesAssumption
<1>2. \A n \in DOMAIN constReg : constReg[n] \in 0 .. NConst - 1
  BY FS_CardinalityType, SizesAssumption DEF ConstInv, Numbered
<1>3. \A n \in DOMAIN arrayReg : arrayReg[n] \in 0 .. NArray - 1
  BY FS_CardinalityType, SizesAssumption DEF ArrayInv, Numbered
<1>4. ASSUME NEW n \in DOMAIN loopMap
      PROVE  \E k \in DOMAIN loopRegs : /\ loopRegs[k].name = n
                                        /\ loopMap[n] = NConst + NArray + loopRegs[k].num
                                        /\ loopRegs[k].num \in 0 .. NLoop - 1
  BY LoopNumbers DEF MapInv, ForLoopRegOffset
<1>5. A \subseteq 0 .. NConst - 1
  BY <1>2
<1>6. B \subseteq NConst .. NConst + NArray - 1
  BY <1>1, <1>3 DEF ConstArrayRegOffset
<1>7. C \subseteq NConst + NArray .. NConst + NArray + NLoop - 1
  <2>. SUFFICES ASSUME NEW n \in DOMAIN loopMap
                PROVE  loopMap[n] \in NConst + NArray .. NConst + NArray + NLoop - 1
    OBVIOUS
  <2>. QED
    BY <1>1, <1>4
<1>8. Inputs = A \cup B \cup C
  BY DEF Inputs
<1>9. IsFiniteSet(A) /\ Cardinality(A) = Cardinality(DOMAIN constReg)
  BY ImageCardinality DEF ConstInv, Numbered
<1>10. IsFiniteSet(B) /\ Cardinality(B) = Cardinality(DOMAIN arrayReg)
  <2>1. DOMAIN arrayIn = DOMAIN arrayReg
    OBVIOUS
  <2>2. IsFiniteSet(DOMAIN arrayIn) /\ \A n, m \in DOMAIN arrayIn : arrayIn[n] = arrayIn[m] => n = m
    <3>1. \A n, m \in DOMAIN arrayReg :
             arrayReg[n] \in Int /\ (arrayReg[n] = arrayReg[m] => n = m)
      BY <1>3 DEF ArrayInv, Numbered
    <3>. QED
      BY <1>1, <2>1, <3>1 DEF ArrayInv, Numbered, ConstArrayRegOffset
  <2>. HIDE DEF arrayIn
  <2>. QED
    BY <2>1, <2>2, ImageCardinality
<1>11. IsFiniteSet(C) /\ Cardinality(C) = Cardinality(DOMAIN loopMap)
  <2>1. DOMAIN loopName = 1 .. Len(loopRegs) /\ Len(loopRegs) \in Nat
    BY DEF LoopInv
  <2>2. IsFiniteSet(DOMAIN loopName)
    BY <2>1, FS_Interval
  <2>3. \A j, k \in DOMAIN loopName : loopName[j] = loopName[k] => j = k
    BY DEF MapInv
  <2>4. DOMAIN loopMap = {loopName[k] : k \in DOMAIN loopName}
    <3>1. ASSUME NEW n \in DOMAIN loopMap PROVE \E k \in DOMAIN loopName : n = loopName[k]
      BY DEF MapInv
    <3>2. ASSUME NEW k \in DOMAIN loopName PROVE loopName[k] \in DOMAIN loopMap
      BY DEF MapInv
    <3>. HIDE DEF loopName
    <3>. QED
      BY <3>1, <3>2
  <2>5. IsFiniteSet(DOMAIN loopMap)
    <3>. HIDE DEF loopName
    <3>. QED
      BY <2>2, <2>3, <2>4, ImageCardinality
  <2>6. \A n, m \in DOMAIN loopMap : loopMap[n] = loopMap[m] => n = m
    <3>. SUFFICES ASSUME NEW n \in DOMAIN loopMap, NEW m \in DOMAIN loopMap,
                         loopMap[n] = loopMap[m]
                  PROVE  n = m
      OBVIOUS
    <3>1. PICK j \in DOMAIN loopRegs : /\ loopRegs[j].name = n
                                       /\ loopMap[n] = NConst + NArray + loopRegs[j].num
                                       /\ loopRegs[j].num \in 0 .. NLoop - 1
      BY <1>4
    <3>2. PICK k \in DOMAIN loopRegs : /\ loopRegs[k].name = m
                                       /\ loopMap[m] = NConst + NArray + loopRegs[k].num
                                       /\ loopRegs[k].num \in 0 .. NLoop - 1
      BY <1>4
    <3>3. loopRegs[j].num = loopRegs[k].num
      <4>1. loopRegs[j].num \in Int /\ loopRegs[k].num \in Int /\ NConst + NArray \in Int
        BY <1>1, <3>1, <3>2
      <4>2. NConst + NArray + loopRegs[j].num = NConst + NArray + loopRegs[k].num
        BY <3>1, <3>2, Zenon
      <4>3. \A a, x, y \in Int : a + x = a + y => x = y
        OBVIOUS
      <4>. QED
        BY <4>1, <4>2, <4>3, Zenon
    <3>4. j = k
      BY <3>3, LoopNumbers
    <3>. QED
      BY <3>1, <3>2, <3>4
  <2>. QED
    BY <2>5, <2>6, ImageCardinality
<1>. HIDE DEF A, B, C
<1>12. A \cap B = {} /\ (A \cup B) \cap C = {}
  BY <1>1, <1>5, <1>6, <1>7
<1>13. IsFiniteSet(A \cup B) /\ Cardinality(A \cup B) = Cardinality(A) + Cardinality(B)
  <2>1. IsFiniteSet(A \cup B)
        /\ Cardinality(A \cup B) = Cardinality(A) + Cardinality(B) - Cardinality(A \cap B)
    BY <1>9, <1>10, FS_Union
  <2>2. Cardinality(A \cap B) = 0
    BY <1>12, FS_EmptySet
  <2>3. Cardinality(A) \in Nat /\ Cardinality(B) \in Nat
    BY <1>9, <1>10, FS_CardinalityType
  <2>. QED
    BY <2>1, <2>2, <2>3
<1>14. Cardinality(A \cup B \cup C) = Cardinality(A) + Cardinality(B) + Cardinality(C)
  <2>1. Cardinality(A \cup B \cup C)
           = Cardinality(A \cup B) + Cardinality(C) - Cardinality((A \cup B) \cap C)
    BY <1>11, <1>13, FS_Union
  <2>2. Cardinality((A \cup B) \cap C) = 0
    BY <1>12, FS_EmptySet
  <2>3. Cardinality(A) \in Nat /\ Cardinality(B) \in Nat /\ Cardinality(C) \in Nat
    BY <1>9, <1>10, <1>11, FS_CardinalityType
  <2>. QED
    BY <1>13, <2>1, <2>2, <2>3
<1>15. Inputs \subseteq 0 .. NConst + NArray + NLoop - 1
  BY <1>1, <1>5, <1>6, <1>7, <1>8
<1>. QED
  BY <1>8, <1>9, <1>10, <1>11, <1>14, <1>15 DEF InputsDistinct

-----------------------------------------------------------------------------
(* At the end everything has been written.                                 *)

(* Each phase ends when all of its registers are written.                   *)
LEMMA DoneInvInductive ==
    ASSUME RegInv, DoneInv, [RegNext]_regVars
    PROVE  DoneInv'
<1> USE DEF RegInv, CompilerInv
<1>1. CASE Compile
  <2>1. walk' \in {"analysis", "allocation", "rejected", "crash"}
    BY <1>1 DEF Compile, ConstDecl, ConstArrayDecl, UseForLoopRegister, PassBy,
         CheckMeetHardwareConstaints, ForStmt, AllocConstArray, BindArrayIndex, Visit
  <2>. QED
    BY <2>1 DEF DoneInv
<1>2. CASE ProgramHardware
  <2>1. /\ UNCHANGED <<program, conds, constReg, loopRegs, loopMap, arrays>>
        /\ written \subseteq written'
    BY <1>2, WritesInLayout DEF compiled, Write
  <2>2. /\ \A k \in DOMAIN loopRegs : LoopWrites(loopRegs[k])' = LoopWrites(loopRegs[k])
        /\ UsedWrites' = UsedWrites /\ CondsKnown' = CondsKnown
    BY <2>1 DEF LoopWrites, MagicWrites, UsedWrites, CondsKnown, CondNumber
  <2>3. \A n : ConstWrites(n)' = ConstWrites(n)
    BY <2>1 DEF ConstWrites
  <2>4. /\ LoopsWritten => LoopsWritten'
        /\ ConstsWritten => ConstsWritten'
        /\ UsedWrites \subseteq written => UsedWrites' \subseteq written'
    BY <2>1, <2>2, <2>3 DEF LoopsWritten, ConstsWritten
  <2>5. CASE Program
    <3>1. walk' = "loops" /\ at' = 1
      BY <2>5 DEF Program
    <3>2. \A k \in DOMAIN loopRegs : ~(k < 1)
      BY DEF LoopInv
    <3>. QED
      BY <2>1, <3>1, <3>2 DEF DoneInv
  <2>6. CASE DoForLoopWrite
    <3>1. /\ walk = "loops" /\ walk' = "loops" /\ at' = at + 1 /\ at \in Nat
          /\ written' = written \cup LoopWrites(loopRegs[at])
      BY <2>6 DEF DoForLoopWrite, Write, ProgramInv
    <3>2. ASSUME NEW k \in DOMAIN loopRegs, k < at + 1
          PROVE  LoopWrites(loopRegs[k]) \subseteq written'
      <4>1. k < at \/ k = at
        BY <3>1, <3>2 DEF LoopInv
      <4>. QED
        BY <3>1, <4>1 DEF DoneInv
    <3>. QED
      BY <2>1, <2>2, <3>1, <3>2 DEF DoneInv
  <2>7. CASE DoConstRegWrite
    BY <2>1, <2>2, <2>7 DEF DoConstRegWrite, DoneInv
  <2>8. CASE StartArrays
    <3>1. /\ walk = "loops" /\ at > Len(loopRegs) /\ at \in Nat /\ walk' = "arrays"
          /\ ConstsWritten
      BY <2>8 DEF StartArrays, ConstsWritten, ProgramInv
    <3>2. \A k \in DOMAIN loopRegs : k < at
      BY <3>1 DEF LoopInv
    <3>3. LoopsWritten
      BY <3>1, <3>2 DEF DoneInv, LoopsWritten
    <3>. QED
      BY <2>4, <3>1, <3>3 DEF DoneInv
  <2>9. CASE DoConstArrayWrite
    BY <2>4, <2>9 DEF DoConstArrayWrite, DoneInv
  <2>10. CASE WriteUsed
    <3>1. /\ walk = "arrays" /\ UsedWrites \subseteq written'
          /\ walk' = IF CondsKnown = DOMAIN conds THEN "cells" ELSE "crash"
      BY <2>10 DEF WriteUsed, Write
    <3>. QED
      BY <2>1, <2>2, <2>4, <3>1 DEF DoneInv
  <2>11. CASE DoControlWrites
    BY <2>1, <2>2, <2>4, <2>11 DEF DoControlWrites, DoneInv
  <2>. QED
    BY <1>2, <2>5, <2>6, <2>7, <2>8, <2>9, <2>10, <2>11 DEF ProgramHardware
<1>3. CASE UNCHANGED regVars
  <2>1. UNCHANGED <<conds, walk, at, constReg, loopRegs, loopMap, written>>
    BY <1>3 DEF regVars, compiled
  <2>2. /\ \A k \in DOMAIN loopRegs : LoopWrites(loopRegs[k])' = LoopWrites(loopRegs[k])
        /\ UsedWrites' = UsedWrites /\ CondsKnown' = CondsKnown
    BY <2>1 DEF LoopWrites, MagicWrites, UsedWrites, CondsKnown, CondNumber
  <2>3. \A n : ConstWrites(n)' = ConstWrites(n)
    BY <2>1 DEF ConstWrites
  <2>. QED
    BY <2>1, <2>2, <2>3 DEF DoneInv, LoopsWritten, ConstsWritten
<1>. QED
  BY <1>1, <1>2, <1>3 DEF RegNext

(* So at the end all registers are written.                                 *)
LEMMA DoneInvariance == RegSpec => []DoneInv
<1>1. RegInit => DoneInv
  BY DEF RegInit, DoneInv
<1>2. RegInv /\ DoneInv /\ [RegNext]_regVars => DoneInv'
  BY DoneInvInductive
<1>. QED
  BY <1>1, <1>2, RegInvariance, PTL DEF RegSpec

(* InputsReachRegisters for programs and hardware of every size: the       *)
(* inputs of constants, arrays and loops are distinct, and once the device *)
(* is programmed the register behind the input of a loop or a constant     *)
(* holds that loop or constant, and a condition names the register of the  *)
(* loop it compares.                                                       *)
THEOREM InputsFindRegisters ==
    ASSUME LayoutFits
    PROVE  RegSpec => []InputsReachRegisters
<1>1. ASSUME RegInv, MapInv, DoneInv, PageInv PROVE InputsReachRegisters
  <2>1. ASSUME walk \notin {"analysis", "rejected"} PROVE InputsDistinct
    BY <1>1, <2>1, InputsAreDistinct DEF Accepted
  <2>2. ASSUME NEW r \in written, r.width \in Nat \ {0}, r.addr \in Int
        PROVE  page[r.addr] = <<r.what, 0>>
    <3>1. page[r.addr + 0] = <<r.what, 0>>
      BY <1>1, <2>2 DEF PageInv, Holds
    <3>. QED
      BY <2>2, <3>1
  <2>3. ASSUME walk = "done"
        PROVE  LoopsWritten /\ ConstsWritten /\ UsedWrites \subseteq written
               /\ CondsKnown = DOMAIN conds /\ Accepted
    BY <1>1, <2>3 DEF DoneInv, Accepted
  <2>4. ASSUME walk = "done", NEW n \in DOMAIN loopMap
        PROVE  LET num == loopMap[n] - ForLoopRegOffset IN
               /\ page[LoopRegsOffset + num * Word] = <<<<"init", n>>, 0>>
               /\ page[LoopIncRegsOffset + num * Word] = <<<<"bound", n>>, 0>>
    <3>1. PICK k \in DOMAIN loopRegs : loopRegs[k].name = n
      BY <1>1 DEF MapInv
    <3>2. loopMap[n] = ForLoopRegOffset + loopRegs[k].num
      BY <1>1, <3>1 DEF MapInv
    <3>3. loopRegs[k].num \in Nat /\ ForLoopRegOffset \in Nat
      BY <1>1, <2>3, <2>4, LoopNumbers, SizesAssumption DEF RegInv, ForLoopRegOffset
    <3>4. loopMap[n] - ForLoopRegOffset = loopRegs[k].num
      <4>1. \A a, b, c \in Int : a = b + c => a - b = c
        OBVIOUS
      <4>2. loopMap[n] \in Int
        BY <3>2, <3>3
      <4>. QED
        BY <3>2, <3>3, <4>1, <4>2
    <3> DEFINE i == Reg(LoopRegsOffset + loopRegs[k].num * Word, Word, <<"init", n>>)
               b == Reg(LoopIncRegsOffset + loopRegs[k].num * Word, Word, <<"bound", n>>)
    <3>5. i \in written /\ b \in written
      BY <2>3, <2>4, <3>1 DEF LoopsWritten, LoopWrites
    <3>6. /\ i.addr = LoopRegsOffset + loopRegs[k].num * Word
          /\ i.width \in Nat \ {0} /\ i.what = <<"init", n>> /\ i.addr \in Int
          /\ b.addr = LoopIncRegsOffset + loopRegs[k].num * Word
          /\ b.width \in Nat \ {0} /\ b.what = <<"bound", n>> /\ b.addr \in Int
      BY <3>3, OffsetsType DEF Reg, Word
    <3>. HIDE DEF i, b
    <3>7. page[i.addr] = <<i.what, 0>> /\ page[b.addr] = <<b.what, 0>>
      BY <2>2, <3>5, <3>6, Zenon
    <3>. QED
      BY <3>4, <3>6, <3>7
  <2>5. ASSUME walk = "done", NEW n \in DOMAIN constReg
        PROVE  page[ConstantRegsOffset + constReg[n] * Word] = <<<<"const", n>>, 0>>
    <3> DEFINE c == Reg(ConstantRegsOffset + constReg[n] * Word, Word, <<"const", n>>)
    <3>1. c \in written
      BY <2>3, <2>5 DEF ConstsWritten, ConstWrites
    <3>2. constReg[n] \in Nat
      BY <1>1, FS_CardinalityType DEF RegInv, CompilerInv, ConstInv, Numbered
    <3>3. /\ c.addr = ConstantRegsOffset + constReg[n] * Word
          /\ c.width \in Nat \ {0} /\ c.what = <<"const", n>> /\ c.addr \in Int
      BY <3>2, OffsetsType DEF Reg, Word
    <3>. HIDE DEF c
    <3>4. page[c.addr] = <<c.what, 0>>
      BY <2>2, <3>1, <3>3, Zenon
    <3>. QED
      BY <3>3, <3>4
  <2>6. ASSUME walk = "done", NEW k \in DOMAIN conds, NEW j \in DOMAIN loopRegs,
               conds[k] = loopRegs[j].name
        PROVE  page[UsedBase + 3 + k] = <<<<"cond", loopRegs[j].num>>, 0>>
    <3>1. loopMap[conds[k]] = NConst + NArray + loopRegs[j].num
      BY <1>1, <2>6 DEF MapInv, ForLoopRegOffset
    <3>2. loopRegs[j].num \in Nat /\ k \in Nat
      BY <1>1, <2>3, <2>6, LoopNumbers DEF RegInv, CompilerInv, ProgramInv
    <3>3. CondNumber(conds[k]) = loopRegs[j].num
      <4>1. \A a, b, c \in Int : a + b + c - a - b = c
        OBVIOUS
      <4>2. NConst \in Int /\ NArray \in Int
        BY SizesAssumption
      <4>. QED
        BY <3>1, <3>2, <4>1, <4>2 DEF CondNumber
    <3> DEFINE r == Reg(UsedBase + 3 + k, 1, <<"cond", loopRegs[j].num>>)
    <3>4. r \in written
      BY <2>3, <2>6, <3>3 DEF UsedWrites
    <3>5. r.addr = UsedBase + 3 + k /\ r.width = 1 /\ r.addr \in Int
          /\ r.what = <<"cond", loopRegs[j].num>>
      BY <3>2, SizesAssumption DEF Reg
    <3>. HIDE DEF r
    <3>. QED
      BY <2>2, <3>4, <3>5
  <2>. QED
    BY <2>1, <2>4, <2>5, <2>6 DEF InputsReachRegisters
<1>2. RegSpec => []PageInv
  BY PageInvariance
<1>. QED
  BY <1>1, <1>2, RegInvariance, MapInvariance, DoneInvariance, PTL

=============================================================================
