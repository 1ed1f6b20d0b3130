---------------------------- MODULE StateRegisters ----------------------------
(***************************************************************************)
(* The registers beside the routing cells: ResourceAnalysis numbers the    *)
(* constants and arrays, ResourceAllocation the loops and the indices of   *)
(* arrays, and ResourceAllocation::DoInitStateRegisters writes them to the *)
(* configuration page, each kind at an offset that follows from the sizes  *)
(* of the hardware (AGUHardwareStat).                                      *)
(*                                                                         *)
(* A program is the sequence of nodes the two walks visit: declarations,   *)
(* loops from the outermost inwards, then the constants and array indices  *)
(* of the OUT statements.  An action is the visit of a node or the write   *)
(* of a register.  Every byte of the page remembers whose it is.           *)
(***************************************************************************)
EXTENDS Integers, Sequences, FiniteSets

CONSTANTS NConst, NLoop, NArray,    \* registers of the hardware
          ArraySize,                \* words in an array register
          Cells,                    \* bytes of the routing cells
          UsedBase,                 \* the first of the fixed registers
          Programs                  \* sequences of nodes

ASSUME SizesAssumption ==
    {NConst, NLoop, NArray, ArraySize, Cells, UsedBase} \subseteq Nat

Word == 4                           \* byte_width
BytesMagic == 16

VARIABLES program,      \* nodes: declarations, loops, leaves
          conds,        \* the names a condition compares (condIndices)
          walk,         \* what the compiler is doing
          at,           \* the node, or register, that comes next
          constReg,     \* ConstRegMapping
          arrayReg,     \* ConstArrayRegMapping
          loopsNeeded,  \* ForLoopsNeeded
          loopRegs,     \* loopRegisters: name and reg_num
          loopMap,      \* idForLoopRegMap
          arrays,       \* constArrayRegisters: name, reg_num, index_reg_num
          binding,      \* ArrayIndexBinding
          page,         \* bytes of the configuration page
          written       \* registers written so far (history)

compiled == <<constReg, arrayReg, loopsNeeded, loopRegs, loopMap, arrays, binding>>
regVars == <<program, conds, walk, at, compiled, page, written>>

Const(n) == [node |-> "const", name |-> n]
Array(n, s) == [node |-> "array", name |-> n, size |-> s]
For(n) == [node |-> "for", name |-> n]
Index(a, i) == [node |-> "index", name |-> a, var |-> i]

(* Name analysis lets no two arrays, and no two loops of a nest, have one  *)
(* name.                                                                   *)
Nodes == [node : {"const", "for"}, name : STRING]
         \cup [node : {"array"}, name : STRING, size : Nat]
         \cup [node : {"index"}, name : STRING, var : STRING]

ASSUME ProgramsAssumption ==
    \A p \in Programs :
        /\ p.nodes \in Seq(Nodes)
        /\ p.conds \in Seq(STRING)
        /\ \A j, k \in DOMAIN p.nodes :
              /\ p.nodes[j].node \in {"array", "for"} /\ p.nodes[k].node = p.nodes[j].node
              /\ p.nodes[j].name = p.nodes[k].name
              => j = k

-----------------------------------------------------------------------------
(* Where registers are.                                                    *)

LoopRegsOffset == Cells

(* Fault: the bounds of the loops start where their first values start. *)
LoopIncOverlapping == LoopRegsOffset + Word

LoopIncRegsOffset == LoopRegsOffset + NLoop * Word

ConstantRegsOffset == LoopIncRegsOffset + NLoop * Word

ConstArrayOffset == ConstantRegsOffset + NConst * Word

(* Fault: no alignment. *)
Unaligned(a) == a

AlignTo8(a) == ((a + 7) \div 8) * 8

MagicRegsOffset == AlignTo8(ConstArrayOffset + NArray * ArraySize * Word + 8)

(* A register: its address, its bytes and what it is given.                *)
Reg(addr, width, what) == [addr |-> addr, width |-> width, what |-> what]

(* "These are implemented backwards in the hardware".                      *)
MagicWrites(l) ==
    LET magicAt == MagicRegsOffset + (NLoop - 1 - l.num) * BytesMagic IN
    {Reg(magicAt, 8, <<"M", l.name>>),
     Reg(magicAt + 8, 4, <<"s", l.name>>),
     Reg(magicAt + 12, 1, <<"add", l.name>>)}

LoopWrites(l) ==
    {Reg(LoopRegsOffset + l.num * Word, Word, <<"init", l.name>>),
     Reg(LoopIncRegsOffset + l.num * Word, Word, <<"bound", l.name>>)}
    \cup MagicWrites(l)

ConstWrites(n) == {Reg(ConstantRegsOffset + constReg[n] * Word, Word, <<"const", n>>)}

(* Every array goes to the same place.                                     *)
ArrayWrites(a) ==
    {Reg(ConstArrayOffset + k * Word, Word, <<"element", a.name, k>>) : k \in 0 .. a.size - 1}
    \cup {Reg(ConstArrayOffset + ArraySize * Word, 1, <<"select", a.select>>)}

-----------------------------------------------------------------------------
(* ResourceAnalysis.                                                       *)

Visit(w, kind) == /\ walk = w
                  /\ at <= Len(program)
                  /\ program[at].node = kind
                  /\ at' = at + 1
                  /\ UNCHANGED <<program, conds, page, written>>

(* f where it is defined, g elsewhere.                                     *)
Over(f, g) == [x \in DOMAIN f \cup DOMAIN g |-> IF x \in DOMAIN f THEN f[x] ELSE g[x]]

(* What operator[] of a map leaves when it is assigned.                    *)
Assign(f, n, v) == Over([x \in {n} |-> v], f)

Number(f, n) == IF n \in DOMAIN f THEN f ELSE Assign(f, n, Cardinality(DOMAIN f))

ConstDecl == /\ Visit("analysis", "const")
             /\ constReg' = Number(constReg, program[at].name)
             /\ UNCHANGED <<walk, arrayReg, loopsNeeded, loopRegs, loopMap, arrays, binding>>

ConstArrayDecl == /\ Visit("analysis", "array")
                  /\ arrayReg' = Number(arrayReg, program[at].name)
                  /\ UNCHANGED <<walk, constReg, loopsNeeded, loopRegs, loopMap, arrays, binding>>

UseForLoopRegister ==
    /\ Visit("analysis", "for")
    /\ loopsNeeded' = loopsNeeded + 1
    /\ UNCHANGED <<walk, constReg, arrayReg, loopRegs, loopMap, arrays, binding>>

(* Nodes a walk has nothing to do for.                                     *)
PassBy == /\ Visit("analysis", "index") \/ Visit("allocation", "const")
          /\ UNCHANGED <<walk, compiled>>

CheckMeetHardwareConstaints ==
    /\ walk = "analysis"
    /\ at > Len(program)
    /\ walk' = IF /\ loopsNeeded <= NLoop
                  /\ Cardinality(DOMAIN constReg) <= NConst
                  /\ Cardinality(DOMAIN arrayReg) <= NArray
                  /\ \A k \in DOMAIN program :
                         program[k].node = "array" => program[k].size <= ArraySize
               THEN "allocation" ELSE "rejected"
    /\ at' = 1
    /\ UNCHANGED <<program, conds, compiled, page, written>>

-----------------------------------------------------------------------------
(* ResourceAllocation.                                                     *)

(* The inputs of the first layer: constants, arrays, loops.                *)
ConstArrayRegOffset == NConst

ForLoopRegOffset == NConst + NArray

(* Fault: registers counted from 1. *)
LoopNumberFromOne == loopsNeeded - Len(loopRegs)

(* AllocLoopRegister: the outermost loop has the last register.            *)
LoopNumber == loopsNeeded - 1 - Len(loopRegs)

(* MapForLoopReg, then AllocLoopRegister.                                  *)
ForStmt ==
    /\ Visit("allocation", "for")
    /\ loopMap' = Assign(loopMap, program[at].name,
                         ForLoopRegOffset + (loopsNeeded - Len(loopRegs) - 1))
    /\ loopRegs' = Append(loopRegs, [name |-> program[at].name, num |-> LoopNumber])
    /\ UNCHANGED <<walk, constReg, arrayReg, loopsNeeded, arrays, binding>>

AllocConstArray ==
    /\ Visit("allocation", "array")
    /\ arrays' = Append(arrays, [name |-> program[at].name, num |-> arrayReg[program[at].name],
                                 size |-> program[at].size, select |-> 0])
    /\ UNCHANGED <<walk, constReg, arrayReg, loopsNeeded, loopRegs, loopMap, binding>>

(* The input of the array is compared with the number of its register; an  *)
(* array with two indices fails an assert.                                 *)
BindArrayIndex ==
    /\ Visit("allocation", "index")
    /\ LET array == arrayReg[program[at].name] + ConstArrayRegOffset
           loop  == loopMap[program[at].var]
       IN  IF array \in DOMAIN binding /\ binding[array] # loop
           THEN walk' = "crash" /\ UNCHANGED <<arrays, binding>>
           ELSE /\ arrays' = [k \in DOMAIN arrays |->
                                 IF arrays[k].num = array THEN [arrays[k] EXCEPT !.select = loop]
                                                          ELSE arrays[k]]
                /\ binding' = Assign(binding, array, loop)
                /\ UNCHANGED walk
    /\ UNCHANGED <<constReg, arrayReg, loopsNeeded, loopRegs, loopMap>>

-----------------------------------------------------------------------------
(* API::ProgramHardware.                                                   *)

(* The page after the bytes of the registers are stored.                   *)
Stored(bytes, regs) ==
    LET Owner(a) == CHOOSE r \in regs : a \in r.addr .. r.addr + r.width - 1
        range == UNION {r.addr .. r.addr + r.width - 1 : r \in regs}
    IN  Over([a \in range |-> <<Owner(a).what, a - Owner(a).addr>>], bytes)

Write(regs) == /\ page' = Stored(page, regs)
               /\ written' = written \cup regs
               /\ UNCHANGED <<program, conds, compiled>>

Program == /\ walk = "allocation"
           /\ at > Len(program)
           /\ walk' = "loops"
           /\ at' = 1
           /\ UNCHANGED <<program, conds, compiled, page, written>>

DoForLoopWrite == /\ walk = "loops"
                  /\ at <= Len(loopRegs)
                  /\ Write(LoopWrites(loopRegs[at]))
                  /\ at' = at + 1
                  /\ UNCHANGED walk

(* In the order of a hash map.                                             *)
DoConstRegWrite ==
    /\ walk = "loops" /\ at > Len(loopRegs)
    /\ \E n \in DOMAIN constReg : /\ ~(ConstWrites(n) \subseteq written)
                                  /\ Write(ConstWrites(n))
    /\ UNCHANGED <<walk, at>>

StartArrays == /\ walk = "loops" /\ at > Len(loopRegs)
               /\ \A n \in DOMAIN constReg : ConstWrites(n) \subseteq written
               /\ walk' = "arrays"
               /\ at' = 1
               /\ UNCHANGED <<program, conds, compiled, page, written>>

DoConstArrayWrite == /\ walk = "arrays"
                     /\ at <= Len(arrays)
                     /\ Write(ArrayWrites(arrays[at]))
                     /\ at' = at + 1
                     /\ UNCHANGED walk

(* Fault: the array inputs are not taken off. *)
CondNumberInput(n) == loopMap[n] - NConst

CondNumber(n) == loopMap[n] - NConst - NArray

(* Compared names ForLoopIDToMapping knows: its assert stops the process   *)
(* at the first that is not a loop.                                        *)
CondsKnown == {k \in DOMAIN conds : \A j \in 1 .. k : conds[j] \in DOMAIN loopMap}

(* Statements, loops, statements per case, code, then the compared loops.  *)
UsedWrites ==
    {Reg(UsedBase + k, 1, <<"used", k>>) : k \in 0 .. 3}
    \cup {Reg(UsedBase + 3 + k, 1, <<"cond", CondNumber(conds[k])>>) : k \in CondsKnown}

WriteUsed ==
    /\ walk = "arrays" /\ at > Len(arrays)
    /\ Write(UsedWrites)
    /\ walk' = IF CondsKnown = DOMAIN conds THEN "cells" ELSE "crash"
    /\ UNCHANGED at

(* The routing cells come last.                                            *)
CellWrites == {Reg(a, 1, <<"cell", a>>) : a \in 0 .. Cells - 1}

DoControlWrites ==
    /\ walk = "cells"
    /\ Write(CellWrites)
    /\ walk' = "done"
    /\ UNCHANGED at

-----------------------------------------------------------------------------
RegInit == /\ \E p \in Programs : program = p.nodes /\ conds = p.conds
           /\ walk = "analysis"
           /\ at = 1
           /\ constReg = <<>> /\ arrayReg = <<>>
           /\ loopsNeeded = 0
           /\ loopRegs = <<>> /\ loopMap = <<>>
           /\ arrays = <<>> /\ binding = <<>>
           /\ page = <<>>
           /\ written = {}

Compile == \/ ConstDecl \/ ConstArrayDecl \/ UseForLoopRegister \/ PassBy
           \/ CheckMeetHardwareConstaints
           \/ ForStmt \/ AllocConstArray \/ BindArrayIndex

ProgramHardware == \/ Program \/ DoForLoopWrite \/ DoConstRegWrite \/ StartArrays
                   \/ DoConstArrayWrite \/ WriteUsed \/ DoControlWrites

RegNext == Compile \/ ProgramHardware

RegSpec == RegInit /\ [][RegNext]_regVars

-----------------------------------------------------------------------------
(* Properties.                                                             *)

RegTypeOK ==
    /\ walk \in {"analysis", "allocation", "loops", "arrays", "cells", "done",
                 "rejected", "crash"}
    /\ \A n \in DOMAIN constReg : constReg[n] \in Nat
    /\ walk \notin {"analysis", "rejected"} =>
           /\ \A n \in DOMAIN constReg : constReg[n] < NConst
           /\ \A n \in DOMAIN arrayReg : arrayReg[n] < NArray
           /\ \A k \in DOMAIN loopRegs : loopRegs[k].num \in 0 .. NLoop - 1

(* Whatever is written, in whatever order, no write falls on a register    *)
(* written before: each still holds all its bytes.  The offsets of         *)
(* AGUHardwareStat keep the kinds apart for every size of the hardware.    *)
RegistersIntact ==
    \A r \in written, k \in 0 .. ArraySize + 8 :
        k < r.width => page[r.addr + k] = <<r.what, k>>

(* The 64-bit multiplier is stored to an address that is a multiple of 8.  *)
MagicAligned == \A r \in written : r.width = 8 => r.addr % 8 = 0

Inputs == {constReg[n] : n \in DOMAIN constReg}
          \cup {arrayReg[n] + ConstArrayRegOffset : n \in DOMAIN arrayReg}
          \cup {loopMap[n] : n \in DOMAIN loopMap}

InputsDistinct ==
    /\ Inputs \subseteq 0 .. NConst + NArray + NLoop - 1
    /\ Cardinality(Inputs) = Cardinality(DOMAIN constReg) + Cardinality(DOMAIN arrayReg)
                             + Cardinality(DOMAIN loopMap)

(* Constants, arrays and loops enter the first layer at inputs of their    *)
(* own, and the register an input reads holds what the program calls by    *)
(* that name.  MapForLoopReg and AllocLoopRegister number loops            *)
(* separately, and the conditions have a third numbering of the same       *)
(* loops.                                                                  *)
InputsReachRegisters ==
    /\ walk \notin {"analysis", "rejected"} => InputsDistinct
    /\ walk = "done" =>
        /\ \A n \in DOMAIN loopMap :
               LET num == loopMap[n] - ForLoopRegOffset IN
               /\ page[LoopRegsOffset + num * Word] = <<<<"init", n>>, 0>>
               /\ page[LoopIncRegsOffset + num * Word] = <<<<"bound", n>>, 0>>
        /\ \A n \in DOMAIN constReg :
               page[ConstantRegsOffset + constReg[n] * Word] = <<<<"const", n>>, 0>>
        /\ \A k \in DOMAIN conds, j \in DOMAIN loopRegs :
               conds[k] = loopRegs[j].name =>
                   page[UsedBase + 3 + k] = <<<<"cond", loopRegs[j].num>>, 0>>

(* An array is indexed by the loop its OUT statement names: "we need the   *)
(* index reg number".                                                      *)
ArraysIndexed ==
    walk = "done" =>
        \A k \in DOMAIN program, j \in DOMAIN arrays :
            program[k].node = "index" /\ program[k].name = arrays[j].name =>
                arrays[j].select = loopMap[program[k].var]
=============================================================================
