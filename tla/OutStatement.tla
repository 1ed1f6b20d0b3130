----------------------------- MODULE OutStatement -----------------------------
(***************************************************************************)
(* From the expression of an OUT statement to the routing cells of the     *)
(* address generation unit: the transform pass (ast_transform_pass.cpp),   *)
(* resource analysis and its hardware check, resource allocation and       *)
(* DoControlWrites (resource_analysis_pass, resource_alloc_pass).          *)
(*                                                                         *)
(* The unit is a stack of layers of add, multiply, subtract and            *)
(* pass-through units.  A layer reads only the layer before it, so the     *)
(* compiler levels every expression, numbers its operators layer by layer  *)
(* and writes one cell for each connection.  Cells are grouped by source;  *)
(* each names the unit it feeds and which of its operands it is.           *)
(*                                                                         *)
(* A leaf is a record with tag "id", "int" or "array"; an operator has tag *)
(* "plus", "times", "minus", or "pass" for a PlusNode with IsPassThrough.  *)
(* Declarations and loops are fixed by the constants.  Walks over a tree   *)
(* are stated level by level, left to right, which is the order in which   *)
(* the recursive visits reach the nodes of one layer.                      *)
(***************************************************************************)
EXTENDS Integers, Sequences, FiniteSets, SequencesExt

CONSTANTS Programs,         \* sequences of OUT expressions the parser may give
          Consts,           \* the names of the ConstDecls, in order
          Arrays,           \* the names of the ConstArrayDecls, in order
          Loops,            \* the loop variables, outermost first
          Greedy,           \* bit 0 of opt_flags, all that greedy_add tests
          Layers,           \* layerCfgs: layer -> units of each kind
          NLayers,          \* nLayers; there is one layer more
          ConstRegisters,   \* nConstRegisters
          ArrayRegisters,   \* nConstArray
          LoopRegisters,    \* nForLoopRegisters
          OutStatements,    \* nOutStatements
          BytesCell,        \* bytesCell: cells per source
          CellBits,         \* width of a cell: 8
          MaxDepth,         \* bound on the depth of an expression
          Values            \* values of the variables, for the properties

Kinds == {"plus", "times", "minus", "pass"}

ASSUME HardwareAssumption ==
    /\ NLayers \in Nat
    /\ Layers \in [0 .. NLayers -> [Kinds -> Nat]]
    /\ BytesCell \in Nat \ {0}
    /\ {ConstRegisters, ArrayRegisters, LoopRegisters, OutStatements, CellBits}
          \subseteq Nat

ASSUME NamesAssumption ==
    /\ Consts \in Seq(Range(Consts))
    /\ Arrays \in Seq(Range(Arrays))
    /\ Loops \in Seq(Range(Loops))

VARIABLES program,      \* the expressions as parsed
          trees,        \* myExp of each OutStmtNode
          literals,     \* literals with a constant register, in order
          routing,      \* LayerRouting of each statement
          phase,        \* how far the compiler got, or how it ended
          written,      \* out statements whose cells are written
          cells         \* offset in the AGU page -> byte

outVars == <<program, trees, literals, routing, phase, written, cells>>

-----------------------------------------------------------------------------
(* Expressions.                                                            *)

Lit(n) == [tag |-> "int", num |-> n]

Leaves == [tag : {"id"}, name : Range(Consts) \cup Range(Loops)]
          \cup [tag : {"array"}, name : Range(Arrays)]
          \cup [tag : {"int"}, num : Int]

(* The trees of a height, a pass-through being an addition of 0.           *)
Exprs[height \in 0 .. MaxDepth] ==
    IF height = 0 THEN Leaves
    ELSE LET below == Exprs[height - 1]
         IN  Leaves \cup [tag : {"plus", "times", "minus"}, l : below, r : below]
                    \cup [tag : {"pass"}, l : below, r : {Lit(0)}]

Expr == Exprs[MaxDepth]

ASSUME ProgramsAssumption ==
    /\ MaxDepth \in Nat
    /\ Programs \subseteq Seq(Expr)

IsLeaf(e) == e.tag \notin Kinds

Pass(e) == [tag |-> "pass", l |-> e, r |-> Lit(0)]

\* The constant 0 of a pass-through is neither analysed nor routed.
Operands(e) == IF IsLeaf(e) THEN <<>>
               ELSE IF e.tag = "pass" THEN <<e.l>> ELSE <<e.l, e.r>>

GetMaxDepth[e \in Expr] ==
    IF IsLeaf(e) THEN 0
    ELSE LET l == GetMaxDepth[e.l]
             r == GetMaxDepth[e.r]
         IN  1 + IF l < r THEN r ELSE l

(* Both operands are there and the operator need not wait for others: room *)
(* is how far it is from the bottom, the required depth less its own.      *)
Ready(e, room) ==
    /\ Greedy
    /\ {e.l.tag, e.r.tag} \subseteq {"int", "id"}
    /\ room > 1

(* An operand that is not needed yet sinks to the bottom under             *)
(* pass-throughs; a ready operator sinks with both its operands.  A        *)
(* literal becomes PlusNode(literal, 0) and is transformed as such, so     *)
(* that a ready one becomes a real addition further down.                  *)
Transform[room \in 0 .. MaxDepth] ==
    [e \in Exprs[room] |->
        IF room = 0 THEN e
        ELSE IF e.tag = "id" THEN Pass(Transform[room - 1][e])
        ELSE LET operator == IF IsLeaf(e) THEN Pass(e) ELSE e
                 isPass == operator.tag = "pass"
             IN  IF Ready(operator, room)
                 THEN Pass(Transform[room - 1]
                              [[operator EXCEPT !.tag = IF isPass THEN "plus" ELSE @]])
                 ELSE [operator EXCEPT !.l = Transform[room - 1][@],
                                       !.r = IF isPass THEN @ ELSE Transform[room - 1][@]]]

(* Fault: every operand sinks one level too far. *)
LevelledTooDeep(e) == Transform[GetMaxDepth[e] + 1][e]

(* OutStmtNode::TransformPass.                                             *)
Levelled(e) == Transform[GetMaxDepth[e]][e]

(* The nodes one level below the nodes es, and those d levels below e.     *)
OperandsOf(es) == FlattenSeq([k \in DOMAIN es |-> Operands(es[k])])

Level(e, d) ==
    LET level[k \in Nat] == IF k = 0 THEN <<e>> ELSE OperandsOf(level[k - 1])
    IN  level[d]

LeavesOf[e \in Expr] ==
    IF IsLeaf(e) THEN <<e>>
    ELSE IF e.tag = "pass" THEN LeavesOf[e.l]
    ELSE LeavesOf[e.l] \o LeavesOf[e.r]

-----------------------------------------------------------------------------
(* Registers.                                                              *)

Position(seq, x) == CHOOSE k \in DOMAIN seq : seq[k] = x

(* Declared constants come first, then literals, each once, as they are    *)
(* met in the OUT statements.                                              *)
MapLiterals(seen, e) ==
    IF e.tag # "int" \/ e.num \in Range(seen) THEN seen ELSE Append(seen, e.num)

LiteralsOf(es) ==
    LET leaves == FlattenSeq([s \in DOMAIN es |-> LeavesOf[es[s]]])
        seen[k \in 0 .. Len(leaves)] ==
            IF k = 0 THEN <<>> ELSE MapLiterals(seen[k - 1], leaves[k])
    IN  seen[Len(leaves)]

LiteralRegister(n) == Len(Consts) + Position(literals, n) - 1

(* Loop registers are numbered backwards, after constants and arrays.      *)
Register(e) ==
    CASE e.tag = "int" -> LiteralRegister(e.num)
      [] e.tag = "array" -> ConstRegisters + Position(Arrays, e.name) - 1
      [] e.tag = "id" ->
            IF e.name \in Range(Consts) THEN Position(Consts, e.name) - 1
            ELSE ConstRegisters + ArrayRegisters + Len(Loops) - Position(Loops, e.name)

-----------------------------------------------------------------------------
(* Layers.  Level d of a tree runs on layer depth-1-d; the nodes below     *)
(* layer 0 are the registers.                                              *)

Nodes(e) == [layer \in -1 .. GetMaxDepth[e] - 1 |-> Level(e, GetMaxDepth[e] - 1 - layer)]

UnitsNeeded(nodes, kind) == Cardinality({k \in DOMAIN nodes : nodes[k].tag = kind})

(* LayerFuncUnitAllocations of a statement stay below the units there are. *)
UnitsSuffice(e) ==
    LET nodes == Nodes(e) IN
    \A layer \in 0 .. NLayers \cap DOMAIN nodes, kind \in Kinds :
        UnitsNeeded(nodes[layer], kind) <= Layers[layer][kind]

(* Fault: the units of the layers are not compared. *)
CheckRegistersOnly(used) ==
    /\ \A s \in DOMAIN trees : GetMaxDepth[trees[s]] + 1 <= NLayers
    /\ Len(Loops) <= LoopRegisters
    /\ Len(Consts) + Len(used) <= ConstRegisters
    /\ Len(trees) <= OutStatements
    /\ Len(Arrays) <= ArrayRegisters

CheckMeetHardwareConstaints(used) ==
    /\ \A s \in DOMAIN trees : UnitsSuffice(trees[s])
    /\ \A s \in DOMAIN trees : GetMaxDepth[trees[s]] + 1 <= NLayers
    /\ Len(Loops) <= LoopRegisters
    /\ Len(Consts) + Len(used) <= ConstRegisters
    /\ Len(trees) <= OutStatements
    /\ Len(Arrays) <= ArrayRegisters

(* The first unit of a kind in AGULayer's numbering.                       *)
FirstUnit(layer, kind) ==
    LET units == Layers[layer] IN
    CASE kind = "plus"  -> 0
      [] kind = "times" -> units.plus
      [] kind = "pass"  -> units.plus + units.times
      [] kind = "minus" -> units.plus + units.times + units.pass

TotalUnits(layer) == LET units == Layers[layer]
                     IN  units.plus + units.times + units.pass + units.minus

(* The register or unit the k-th node of a layer is mapped to.             *)
Mapping(nodes, layer, k) ==
    LET node == nodes[layer][k] IN
    IF IsLeaf(node) THEN Register(node)
    ELSE FirstUnit(layer, node.tag)
           + Cardinality({j \in 1 .. k - 1 : nodes[layer][j].tag = node.tag})

(* inputRouting of a layer, two entries for a unit with two operands.      *)
Inputs(nodes, layer) ==
    LET below(k) == Len(OperandsOf(SubSeq(nodes[layer], 1, k - 1)))
        unit(k)  == [j \in DOMAIN Operands(nodes[layer][k]) |->
                        [from |-> Mapping(nodes, layer - 1, below(k) + j),
                         to   |-> Mapping(nodes, layer, k)]]
    IN  FlattenSeq([k \in DOMAIN nodes[layer] |-> unit(k)])

(* SetAnswer passes the result through every layer that is left.           *)
PassOn(nodes, layer) ==
    LET depth == Cardinality(DOMAIN nodes) - 1 IN
    <<[from |-> IF layer = depth THEN Mapping(nodes, layer - 1, 1)
                ELSE FirstUnit(layer - 1, "pass"),
       to   |-> FirstUnit(layer, "pass")]>>

LayerRouting(e) ==
    LET nodes == Nodes(e) IN
    [layer \in 0 .. NLayers |-> IF layer \in DOMAIN nodes THEN Inputs(nodes, layer)
                                ELSE PassOn(nodes, layer)]

(* No assert of MapAddUnit, MapMultUnit, MapSubUnit or MapPassThrough.     *)
AllocationFits(e) ==
    /\ UnitsSuffice(e)
    /\ \A layer \in GetMaxDepth[e] .. NLayers : Layers[layer].pass > 0

-----------------------------------------------------------------------------
(* Cells.                                                                  *)

MaxFuncUnits == Max({ConstRegisters + ArrayRegisters + LoopRegisters}
                    \cup {TotalUnits(layer) : layer \in 0 .. NLayers})

\* 255 stands for no connection in DoControlWrite, which asserts unit < 255.
ASSUME UnitsAssumption == MaxFuncUnits <= 255

BytesLayer == BytesCell * MaxFuncUnits

(* Fault: the layer added for the answer has no room. *)
BytesWithoutAnswer == NLayers * BytesLayer

BytesOutStatement == (NLayers + 1) * BytesLayer

(* 1 << n                                                                  *)
Shifted[n \in Nat] == IF n = 0 THEN 1 ELSE 2 * Shifted[n - 1]

(* log2ceil(GetMaxFuncUnits()+1)                                           *)
IdxBit == CHOOSE b \in 0 .. MaxFuncUnits :
             /\ Shifted[b] >= MaxFuncUnits + 1
             /\ \A c \in 0 .. b - 1 : Shifted[c] < MaxFuncUnits + 1

Offset(s, layer, from, slot) ==
    layer * BytesLayer + from * BytesCell + (s - 1) * BytesOutStatement + slot

(* VarOutMap and IdxOutMap before the k-th write of a layer.               *)
VarOut(inputs, k) == Cardinality({j \in 1 .. k - 1 : inputs[j].from = inputs[k].from})
\* Fault: operands are numbered by what feeds them.
IdxOutBySource(inputs, k) == VarOut(inputs, k)
IdxOut(inputs, k) == Cardinality({j \in 1 .. k - 1 : inputs[j].to = inputs[k].to})

(* Fault: the operand number is shifted out of the cell. *)
CellValueWide(to, idx) == to + idx * Shifted[CellBits]

CellValue(to, idx) == (to + idx * Shifted[IdxBit]) % Shifted[CellBits]

(* The connections of a statement: a layer and a place in its routing.     *)
Connections(s) ==
    UNION {{<<s, layer, k>> : k \in DOMAIN routing[s][layer]} : layer \in 0 .. NLayers}

CellOf(c) == LET inputs == routing[c[1]][c[2]]
             IN  Offset(c[1], c[2], inputs[c[3]].from, VarOut(inputs, c[3]))

ByteOf(c) == LET inputs == routing[c[1]][c[2]]
             IN  CellValue(inputs[c[3]].to, IdxOut(inputs, c[3]))

(* The cells one statement writes, as pairs of an offset and a byte.       *)
CellWrites(s) == {<<CellOf(c), ByteOf(c)>> : c \in Connections(s)}

(* The asserts on VarOutMap and IdxOutMap in DoControlWrite.               *)
CellsFit(s) ==
    \A layer \in 0 .. NLayers :
        LET inputs == routing[s][layer] IN
        \A k \in DOMAIN inputs : /\ VarOut(inputs, k) < BytesCell
                                 /\ IdxOut(inputs, k) < BytesCell

-----------------------------------------------------------------------------
(* The pipeline.                                                           *)

OutInit == /\ program \in Programs
           /\ trees = program
           /\ literals = <<>>
           /\ routing = <<>>
           /\ phase = "parsed"
           /\ written = 0
           /\ cells = [a \in {} |-> 0]

TransformPass ==
    /\ phase = "parsed"
    /\ trees' = [s \in DOMAIN trees |-> Levelled(trees[s])]
    /\ phase' = "transformed"
    /\ UNCHANGED <<program, literals, routing, written, cells>>

(* ResourceAnalysis::build and the check of ResourceAllocation::build.     *)
ResourceAnalysis ==
    /\ phase = "transformed"
    /\ literals' = LiteralsOf(trees)
    /\ phase' = IF CheckMeetHardwareConstaints(literals') THEN "analysed" ELSE "exit"
    /\ UNCHANGED <<program, trees, routing, written, cells>>

ResourceAllocation ==
    /\ phase = "analysed"
    /\ UNCHANGED <<program, trees, literals, written, cells>>
    /\ IF \A s \in DOMAIN trees : AllocationFits(trees[s])
       THEN /\ routing' = [s \in DOMAIN trees |-> LayerRouting(trees[s])]
            /\ phase' = "allocated"
       ELSE phase' = "unit assert" /\ UNCHANGED routing

DoControlWrites ==
    /\ phase = "allocated"
    /\ written < Len(trees)
    /\ UNCHANGED <<program, trees, literals, routing>>
    /\ LET s == written + 1
           writes == CellWrites(s)
           new == {w[1] : w \in writes} IN
       IF CellsFit(s)
       THEN /\ cells' = [a \in DOMAIN cells \cup new |->
                            IF a \in new THEN (CHOOSE w \in writes : w[1] = a)[2]
                            ELSE cells[a]]
            /\ written' = s
            /\ UNCHANGED phase
       ELSE phase' = "cell assert" /\ UNCHANGED <<written, cells>>

OutNext == TransformPass \/ ResourceAnalysis \/ ResourceAllocation \/ DoControlWrites

OutSpec == OutInit /\ [][OutNext]_outVars

-----------------------------------------------------------------------------
ASSUME ValuesAssumption ==
    \A env \in Values : \A n \in Range(Consts) \cup Range(Arrays) \cup Range(Loops) :
        env[n] \in Int

(* What the unit computes, read back from the cells.  Sets of values: a    *)
(* unit whose operand nobody drives has none, one whose operand two        *)
(* sources drive may have several.                                         *)

Value(e, env) ==
    LET value[x \in Expr] ==
            IF x.tag = "int" THEN x.num
            ELSE IF IsLeaf(x) THEN env[x.name]
            ELSE CASE x.tag \in {"plus", "pass"} -> value[x.l] + value[x.r]
                   [] x.tag = "minus" -> value[x.l] - value[x.r]
                   [] x.tag = "times" -> value[x.l] * value[x.r]
    IN  value[e]

(* Every value the program can route: its variables and its literals.      *)
Sources == {[tag |-> "id", name |-> n] : n \in Range(Consts) \cup Range(Loops)}
           \cup {[tag |-> "array", name |-> n] : n \in Range(Arrays)}
           \cup {Lit(n) : n \in Range(literals)}

Contents(register, env) == {Value(e, env) : e \in {x \in Sources : Register(x) = register}}

Drivers(s, layer, unit, idx) ==
    {from \in 0 .. MaxFuncUnits - 1 :
        \E slot \in 0 .. BytesCell - 1 :
            LET a == Offset(s, layer, from, slot) IN
            /\ a \in DOMAIN cells
            /\ cells[a] % Shifted[IdxBit] = unit
            /\ cells[a] \div Shifted[IdxBit] = idx}

KindOf(layer, unit) ==
    CHOOSE kind \in Kinds : /\ FirstUnit(layer, kind) <= unit
                            /\ unit < FirstUnit(layer, kind) + Layers[layer][kind]

Computed(s, env) ==
    LET computed[layer \in -1 .. NLayers] ==
            [unit \in 0 .. MaxFuncUnits - 1 |->
                IF layer = -1 THEN Contents(unit, env)
                ELSE LET operand(idx) == UNION {computed[layer - 1][from] :
                                                   from \in Drivers(s, layer, unit, idx)}
                         kind == KindOf(layer, unit)
                     IN  CASE kind = "pass"  -> operand(0)
                           [] kind = "plus"  -> {a + b : a \in operand(0), b \in operand(1)}
                           [] kind = "minus" -> {a - b : a \in operand(0), b \in operand(1)}
                           [] kind = "times" -> {a * b : a \in operand(0), b \in operand(1)}]
    IN  computed[NLayers][FirstUnit(NLayers, "pass")]

-----------------------------------------------------------------------------
(* Properties.                                                             *)

OutTypeOK ==
    /\ program \in Seq(Expr)
    /\ trees \in Seq(Expr) /\ Len(trees) = Len(program)
    /\ literals \in Seq(Int)
    /\ routing \in Seq([0 .. NLayers -> Seq([from : Nat, to : Nat])])
    /\ Len(routing) \in {0, Len(trees)}
    /\ phase \in {"parsed", "transformed", "analysed", "exit",
                  "allocated", "unit assert", "cell assert"}
    /\ written \in 0 .. Len(trees)
    /\ DOMAIN cells \subseteq Nat
    /\ \A a \in DOMAIN cells : cells[a] \in 0 .. Shifted[CellBits] - 1

(* The address unit computes what the OUT statement says: the value that   *)
(* leaves the last layer is that of the expression as it was parsed,       *)
(* through levelling, numbering, operand order and the packing of cells.   *)
ComputesProgram ==
    \A s \in 1 .. written, env \in Values :
        Computed(s, env) = {Value(program[s], env)}

(* After the transform pass every operand is at the bottom, and the tree   *)
(* is no deeper than the expression was: it costs no layer.                *)
TreesLevelled ==
    phase # "parsed" =>
        \A s \in DOMAIN trees :
            LET nodes == Nodes(trees[s]) IN
            /\ GetMaxDepth[trees[s]] = GetMaxDepth[program[s]]
            /\ \A layer \in DOMAIN nodes : \A k \in DOMAIN nodes[layer] :
                  IsLeaf(nodes[layer][k]) <=> layer = -1

(* A program that passes the hardware check can be allocated.              *)
CheckCoversUnits == phase # "unit assert"

Written == UNION {Connections(s) : s \in 1 .. written}

(* Each connection has a cell of its own: no write of any layer, source or *)
(* statement lands on a cell already written, and the device still holds   *)
(* the byte of every connection written so far.                            *)
CellsNeverShared ==
    /\ Cardinality(DOMAIN cells) = Cardinality(Written)
    /\ \A c \in Written : CellOf(c) \in DOMAIN cells /\ cells[CellOf(c)] = ByteOf(c)

(* A program that passes the hardware check can be written to the device.  *)
(* The check does not count how often one source is used in one layer.     *)
CheckCoversCells == phase # "cell assert"
=============================================================================
