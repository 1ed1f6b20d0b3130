---------------------------- MODULE OutValuesProofs ----------------------------
(***************************************************************************)
(* The address unit computes what the OUT statements say                   *)
(* (ComputesTheProgram), for every program, hardware and value of the      *)
(* names, if a cell is wide enough for a unit and an operand number        *)
(* (CellsWide).                                                            *)
(*                                                                         *)
(* Levelling keeps the value of a tree (TransformKeepsValue), and each     *)
(* register holds one source (RegistersApart, ContentsExact).  Each node   *)
(* of a layer has a unit of its own, of its kind (UnitsApart, KindIs), and *)
(* each operand of the unit has exactly one driver, the unit of the        *)
(* operand's node (LayerDrivers): its connection has a cell of its own, by *)
(* OutInv, the cell is read back as it was packed (ByteRead), and its      *)
(* number is the operand's place in the node (OperandNumber).  So if the   *)
(* layer below gives the values of its nodes, a layer gives those of its   *)
(* own (LayerStep), and by induction over the layers the top of the tree   *)
(* gives the tree's (TreeRight), which the layers above pass on            *)
(* (PassRight).                                                            *)
(***************************************************************************)
EXTENDS OutStatementProofs

-----------------------------------------------------------------------------
(* The value of a tree.                                                    *)

(* One level of Value, the values of smaller trees given by f.             *)
ValueOver(f, env, x) ==
    IF x.tag = "int" THEN x.num
    ELSE IF IsLeaf(x) THEN env[x.name]
    ELSE CASE x.tag \in {"plus", "pass"} -> f[x.l] + f[x.r]
           [] x.tag = "minus" -> f[x.l] - f[x.r]
           [] x.tag = "times" -> f[x.l] * f[x.r]

(* Value is what it is defined to be: there is a function with its         *)
(* equation.                                                               *)
LEMMA ValueUnfold ==
    ASSUME NEW env
    PROVE  \E f : /\ f = [x \in Expr |-> ValueOver(f, env, x)]
                  /\ \A e : Value(e, env) = f[e]
<1>0. MaxDepth \in Nat
  BY ProgramsAssumption
<1> DEFINE Values_(f, h) == f = [e \in Exprs[h] |-> ValueOver(f, env, e)]
           T == {h \in 0 .. MaxDepth : \E f : Values_(f, h)}
<1>1. 0 \in T
  <2>1. \A e \in Exprs[0] : IsLeaf(e)
    BY ExprCases, <1>0
  <2> DEFINE f == [e \in Exprs[0] |-> IF e.tag = "int" THEN e.num ELSE env[e.name]]
  <2>2. Values_(f, 0)
    <3>1. \A e \in Exprs[0] : ValueOver(f, env, e) = IF e.tag = "int" THEN e.num ELSE env[e.name]
      BY <2>1 DEF ValueOver
    <3>2. f = [e \in Exprs[0] |-> IF e.tag = "int" THEN e.num ELSE env[e.name]]
      OBVIOUS
    <3> HIDE DEF f
    <3>. QED
      BY <3>1, <3>2
  <2> HIDE DEF Values_, f
  <2>. QED
    BY <1>0, <2>2
<1>2. ASSUME NEW n \in 0 .. MaxDepth - 1, n \in T PROVE n + 1 \in T
  <2>0. /\ n \in 0 .. MaxDepth /\ n + 1 \in 0 .. MaxDepth /\ (n + 1) - 1 = n
        /\ Exprs[n] \subseteq Exprs[n + 1]
    BY <1>0, ExprsGrow
  <2>1. PICK f : Values_(f, n)
    BY <1>2
  <2> DEFINE g == [e \in Exprs[n + 1] |-> ValueOver(f, env, e)]
  <2>2. \A e \in Exprs[n] : g[e] = f[e]
    BY <2>0, <2>1
  <2>3. ASSUME NEW e \in Exprs[n + 1]
        PROVE  ValueOver(f, env, e) = ValueOver(g, env, e)
    <3>1. CASE IsLeaf(e)
      BY <3>1 DEF ValueOver
    <3>2. CASE e.l \in Exprs[n] /\ e.r \in Exprs[n]
      <4>1. g[e.l] = f[e.l] /\ g[e.r] = f[e.r]
        BY <2>2, <3>2
      <4> HIDE DEF g
      <4>. QED
        BY <4>1 DEF ValueOver
    <3>. QED
      BY <2>0, <3>1, <3>2, ExprCases
  <2>4. Values_(g, n + 1)
    <3>1. g = [e \in Exprs[n + 1] |-> ValueOver(f, env, e)]
      OBVIOUS
    <3> HIDE DEF g
    <3>. QED
      BY <2>3, <3>1
  <2> HIDE DEF Values_, g
  <2>. QED
    BY <2>0, <2>4
<1>3. \A h \in 0 .. MaxDepth : h \in T
  <2> HIDE DEF T
  <2>. QED
    BY <1>0, <1>1, <1>2, BoundedInduction
<1>4. PICK f : Values_(f, MaxDepth)
  BY <1>0, <1>3
<1> DEFINE Total(g) == g = [x \in Expr |-> ValueOver(g, env, x)]
           value == CHOOSE g : Total(g)
<1>5. Total(f)
  BY <1>4 DEF Expr
<1>6. Total(value)
  <2> HIDE DEF Total
  <2>. QED
    BY <1>5
<1>7. \A e : Value(e, env) = value[e]
  BY DEF Value, ValueOver
<1> HIDE DEF value
<1>. QED
  BY <1>6, <1>7

(* The value of a leaf, and of an operator over the values of its          *)
(* operands.                                                               *)
ValueSteps(env, e) ==
    IF IsLeaf(e) THEN Value(e, env) = IF e.tag = "int" THEN e.num ELSE env[e.name]
    ELSE /\ e.tag \in {"plus", "pass"} => Value(e, env) = Value(e.l, env) + Value(e.r, env)
         /\ e.tag = "minus" => Value(e, env) = Value(e.l, env) - Value(e.r, env)
         /\ e.tag = "times" => Value(e, env) = Value(e.l, env) * Value(e.r, env)

(* The equation of Value at one node.                                       *)
LEMMA ValueByStep ==
    ASSUME NEW env, NEW e \in Expr
    PROVE  ValueSteps(env, e)
<1>1. PICK f : /\ f = [x \in Expr |-> ValueOver(f, env, x)]
               /\ \A x : Value(x, env) = f[x]
  BY ValueUnfold
<1>2. Value(e, env) = ValueOver(f, env, e)
  BY <1>1
<1>3. \A x : Value(x, env) = f[x]
  BY <1>1
<1>4. IsLeaf(e) => e \in Leaves
  BY ExprParts
<1>5. e.tag = "int" => IsLeaf(e)
  BY DEF IsLeaf, Kinds
<1>. QED
  BY <1>2, <1>3, <1>5 DEF ValueOver, ValueSteps

(* Every tree has an integer value, and a pass-through that of its         *)
(* operand.                                                                *)
LEMMA ValueType ==
    ASSUME NEW env \in Values
    PROVE  /\ \A e \in Expr : Value(e, env) \in Int
           /\ \A e \in Expr : e.tag = "pass" => Value(e, env) = Value(e.l, env)
<1> DEFINE T == {e \in Expr : Value(e, env) \in Int}
<1>1. ASSUME NEW e \in Leaves PROVE e \in T
  <2>1. e \in Expr /\ IsLeaf(e)
    BY ExprParts
  <2>2. Value(e, env) = IF e.tag = "int" THEN e.num ELSE env[e.name]
    BY <2>1, ValueByStep DEF ValueSteps
  <2>3. IF e.tag = "int" THEN e.num \in Int
        ELSE e.name \in Range(Consts) \cup Range(Arrays) \cup Range(Loops)
    BY DEF Leaves
  <2>4. env[e.name] \in Int \/ e.tag = "int"
    BY <2>3, ValuesAssumption
  <2>. QED
    BY <2>1, <2>2, <2>3, <2>4
<1>2. ASSUME NEW e \in Expr, ~IsLeaf(e), e.l \in Expr, e.r \in Expr, e.l \in T, e.r \in T
      PROVE  e \in T
  <2>1. e.tag \in {"plus", "times", "minus", "pass"}
    BY <1>2 DEF IsLeaf, Kinds
  <2>2. Value(e.l, env) \in Int /\ Value(e.r, env) \in Int
    BY <1>2
  <2>3. ValueSteps(env, e)
    BY ValueByStep
  <2>. QED
    BY <1>2, <2>1, <2>2, <2>3 DEF ValueSteps
<1>3. Expr \subseteq T
  <2> HIDE DEF T
  <2>. QED
    BY <1>1, <1>2, TreeInduction
<1>4. \A e \in Expr : Value(e, env) \in Int
  BY <1>3
<1>5. ASSUME NEW e \in Expr, e.tag = "pass" PROVE Value(e, env) = Value(e.l, env)
  <2>1. ~IsLeaf(e) /\ e.l \in Expr /\ e.r = Lit(0) /\ e.r \in Expr
    BY <1>5, ExprParts DEF IsLeaf, Kinds
  <2>2. Value(e, env) = Value(e.l, env) + Value(e.r, env)
    BY <1>5, <2>1, ValueByStep DEF ValueSteps
  <2>3. Value(e.r, env) = 0
    <3>1. e.r.tag = "int" /\ e.r.num = 0
      BY <2>1 DEF Lit
    <3>2. IsLeaf(e.r)
      BY <3>1 DEF IsLeaf, Kinds
    <3>3. ValueSteps(env, e.r)
      BY <2>1, ValueByStep
    <3>. QED
      BY <3>1, <3>2, <3>3 DEF ValueSteps
  <2>4. Value(e.l, env) \in Int
    BY <1>4, <2>1
  <2>. QED
    BY <2>2, <2>3, <2>4
<1>. QED
  BY <1>4, <1>5

(* Levelling a tree does not change its value.                             *)
LEMMA TransformKeepsValue ==
    ASSUME NEW env \in Values
    PROVE  \A room \in 0 .. MaxDepth : \A e \in Exprs[room] :
              Value(Transform[room][e], env) = Value(e, env)
<1> DEFINE T == {room \in 0 .. MaxDepth : \A e \in Exprs[room] :
                    Value(Transform[room][e], env) = Value(e, env)}
<1>0. MaxDepth \in Nat
  BY ProgramsAssumption
<1>t. \A room \in 0 .. MaxDepth : \A e \in Exprs[room] :
         /\ e \in Expr
         /\ Transform[room][e] \in Expr
  BY <1>0, ExprsGrow, TransformFills, FullFacts DEF Expr
<1>1. 0 \in T
  <2>1. \A e \in Exprs[0] : Transform[0][e] = e
    <3>1. 0 \in 0 .. MaxDepth
      BY <1>0
    <3>2. \A e \in Exprs[0] : Transform[0][e] = Sunk(Transform[0 - 1], 0, e)
      BY <3>1, TransformUnfold
    <3>. QED
      BY <3>2 DEF Sunk
  <2>. QED
    BY <1>0, <2>1
<1>2. ASSUME NEW n \in 0 .. MaxDepth - 1, n \in T PROVE n + 1 \in T
  <2>0. n + 1 \in 1 .. MaxDepth /\ n + 1 \in 0 .. MaxDepth /\ n \in 0 .. MaxDepth /\ (n + 1) - 1 = n
    BY <1>0
  <2> DEFINE below == Transform[n]
  <2>b. \A x \in Exprs[n] : /\ Value(below[x], env) = Value(x, env)
                            /\ x \in Expr /\ below[x] \in Expr
    BY <1>2, <1>t, <2>0
  <2>1. ASSUME NEW e \in Exprs[n + 1]
        PROVE  Value(Transform[n + 1][e], env) = Value(e, env)
    <3> DEFINE r == Transform[n + 1][e]
    <3>0. e \in Expr /\ r \in Expr
      BY <1>t, <2>0
    <3>p. ASSUME NEW x \in Exprs[n], r = Pass(below[x]) PROVE Value(r, env) = Value(x, env)
      <4>1. r.tag = "pass" /\ r.l = below[x]
        BY <3>p DEF Pass
      <4> HIDE DEF r, below
      <4>. QED
        BY <2>b, <3>0, <4>1, ValueType
    <3>1. ASSUME e \in Exprs[n], IsLeaf(e), r = Pass(below[e])
          PROVE  Value(r, env) = Value(e, env)
      BY <3>1, <3>p
    <3>2. ASSUME NEW x \in Exprs[n], ~IsLeaf(x), r = Pass(below[x]),
                 IF e.tag = "pass" \/ IsLeaf(e)
                 THEN /\ x.tag = "plus" /\ x.r = Lit(0)
                      /\ x.l = IF IsLeaf(e) THEN e ELSE e.l
                 ELSE x = e
          PROVE  Value(r, env) = Value(e, env)
      <4>1. Value(r, env) = Value(x, env) /\ x \in Expr
        BY <2>b, <3>2, <3>p
      <4>2. CASE x = e
        BY <4>1, <4>2
      <4>3. CASE x.tag = "plus" /\ x.r = Lit(0) /\ x.l = IF IsLeaf(e) THEN e ELSE e.l
        <5>1. x.l \in Expr /\ x.r \in Expr
          BY <3>2, <4>1, ExprParts
        <5>2. Value(x, env) = Value(x.l, env) + Value(x.r, env)
          BY <3>2, <4>1, <4>3, ValueByStep DEF ValueSteps
        <5>3. Value(x.r, env) = 0
          <6>1. x.r.tag = "int" /\ x.r.num = 0 /\ IsLeaf(x.r)
            BY <4>3 DEF Lit, IsLeaf, Kinds
          <6>2. ValueSteps(env, x.r)
            BY <5>1, ValueByStep
          <6>. QED
            BY <6>1, <6>2 DEF ValueSteps
        <5>4. Value(x.l, env) \in Int
          BY <5>1, ValueType
        <5>5. Value(x, env) = Value(x.l, env)
          BY <5>2, <5>3, <5>4
        <5>6. Value(x.l, env) = Value(e, env)
          <6>1. CASE IsLeaf(e)
            BY <4>3, <6>1
          <6>2. CASE ~IsLeaf(e)
            <7>1. e.tag = "pass" \/ x = e
              BY <3>2, <6>2
            <7>2. CASE e.tag = "pass"
              BY <3>0, <4>3, <6>2, <7>2, ValueType
            <7>3. CASE x = e
              BY <5>5, <7>3
            <7>. QED
              BY <7>1, <7>2, <7>3
          <6>. QED
            BY <6>1, <6>2
        <5>. QED
          BY <4>1, <5>5, <5>6
      <4>. QED
        BY <3>2, <4>2, <4>3
    <3>3. ASSUME e.tag = "pass", e.l \in Exprs[n], r = Pass(below[e.l])
          PROVE  Value(r, env) = Value(e, env)
      <4>1. Value(r, env) = Value(e.l, env)
        BY <3>3, <3>p
      <4>. QED
        BY <3>0, <3>3, <4>1, ValueType
    <3>4. ASSUME e.tag \in {"plus", "times", "minus"},
                 e.l \in Exprs[n], e.r \in Exprs[n],
                 r = [tag |-> e.tag, l |-> below[e.l], r |-> below[e.r]]
          PROVE  Value(r, env) = Value(e, env)
      <4>1. r.tag = e.tag /\ r.l = below[e.l] /\ r.r = below[e.r]
        BY <3>4
      <4>2. ~IsLeaf(e) /\ ~IsLeaf(r)
        BY <3>4, <4>1 DEF IsLeaf, Kinds
      <4>3. Value(r.l, env) = Value(e.l, env) /\ Value(r.r, env) = Value(e.r, env)
        BY <2>b, <3>4, <4>1
      <4>4. ValueSteps(env, e) /\ ValueSteps(env, r)
        BY <3>0, ValueByStep
      <4> HIDE DEF r, below
      <4>. QED
        <5>1. CASE e.tag = "plus"
          BY <4>1, <4>2, <4>3, <4>4, <5>1, Zenon DEF ValueSteps
        <5>2. CASE e.tag = "minus"
          BY <4>1, <4>2, <4>3, <4>4, <5>2, Zenon DEF ValueSteps
        <5>3. CASE e.tag = "times"
          BY <4>1, <4>2, <4>3, <4>4, <5>3, Zenon DEF ValueSteps
        <5>. QED
          BY <3>4, <5>1, <5>2, <5>3
    <3>5. \/ e \in Exprs[n] /\ IsLeaf(e) /\ r = Pass(below[e])
          \/ \E x \in Exprs[n] :
                 /\ ~IsLeaf(x)
                 /\ IF e.tag = "pass" \/ IsLeaf(e)
                    THEN /\ x.tag = "plus" /\ x.r = Lit(0)
                         /\ x.l = IF IsLeaf(e) THEN e ELSE e.l
                    ELSE x = e
                 /\ r = Pass(below[x])
          \/ e.tag = "pass" /\ e.l \in Exprs[n] /\ r = Pass(below[e.l])
          \/ /\ e.tag \in {"plus", "times", "minus"}
             /\ e.l \in Exprs[n] /\ e.r \in Exprs[n]
             /\ r = [tag |-> e.tag, l |-> below[e.l], r |-> below[e.r]]
      BY <2>0, TransformCases
    <3> HIDE DEF r, below
    <3>6. Value(r, env) = Value(e, env)
      BY <3>1, <3>2, <3>3, <3>4, <3>5, Zenon
    <3>. QED
      BY <3>6 DEF r
  <2>. QED
    BY <2>0, <2>1
<1>3. \A room \in 0 .. MaxDepth : room \in T
  <2> HIDE DEF T
  <2>. QED
    BY <1>0, <1>1, <1>2, BoundedInduction
<1>. QED
  BY <1>3

-----------------------------------------------------------------------------
(* Registers.                                                              *)

(* Where the registers of each kind of leaf are.                           *)
RegisterPlace(x) ==
    /\ x.tag = "int" =>
          /\ Register(x) = Len(Consts) + Position(literals, x.num) - 1
          /\ Position(literals, x.num) \in 1 .. Len(literals)
          /\ literals[Position(literals, x.num)] = x.num
    /\ x.tag = "array" =>
          /\ Register(x) = ConstRegisters + Position(Arrays, x.name) - 1
          /\ Position(Arrays, x.name) \in 1 .. Len(Arrays)
          /\ Arrays[Position(Arrays, x.name)] = x.name
    /\ x.tag = "id" /\ x.name \in Range(Consts) =>
          /\ Register(x) = Position(Consts, x.name) - 1
          /\ Position(Consts, x.name) \in 1 .. Len(Consts)
          /\ Consts[Position(Consts, x.name)] = x.name
    /\ x.tag = "id" /\ x.name \notin Range(Consts) =>
          /\ Register(x) = ConstRegisters + ArrayRegisters + Len(Loops) - Position(Loops, x.name)
          /\ Position(Loops, x.name) \in 1 .. Len(Loops)
          /\ Loops[Position(Loops, x.name)] = x.name

(* Every source is in one of these places.                                 *)
LEMMA SourcePlace ==
    ASSUME literals \in Seq(Int), NEW x \in Sources
    PROVE  /\ x \in Leaves
           /\ \/ x.tag = "int" /\ x = Lit(x.num)
              \/ x.tag \in {"array", "id"} /\ x = [tag |-> x.tag, name |-> x.name]
           /\ RegisterPlace(x)
<1>1. /\ x \in Leaves
      /\ \/ x.tag = "id" /\ x = [tag |-> "id", name |-> x.name]
            /\ x.name \in Range(Consts) \cup Range(Loops)
         \/ x.tag = "array" /\ x = [tag |-> "array", name |-> x.name] /\ x.name \in Range(Arrays)
         \/ x.tag = "int" /\ x = Lit(x.num) /\ x.num \in Range(literals)
  <2>1. \A n \in Range(literals) : n \in Int
    BY AmongRange DEF Among
  <2>. QED
    BY <2>1 DEF Sources, Leaves, Lit
<1>2. /\ \A n \in Range(Consts) : /\ Position(Consts, n) \in 1 .. Len(Consts)
                                  /\ Consts[Position(Consts, n)] = n
      /\ \A n \in Range(Arrays) : /\ Position(Arrays, n) \in 1 .. Len(Arrays)
                                  /\ Arrays[Position(Arrays, n)] = n
      /\ \A n \in Range(Loops) : /\ Position(Loops, n) \in 1 .. Len(Loops)
                                 /\ Loops[Position(Loops, n)] = n
      /\ \A n \in Range(literals) : /\ Position(literals, n) \in 1 .. Len(literals)
                                    /\ literals[Position(literals, n)] = n
  BY NamesAssumption, AmongRange, PositionFinds
<1>3. CASE x.tag = "id"
  BY <1>1, <1>2, <1>3 DEF RegisterPlace, Register
<1>4. CASE x.tag = "array"
  BY <1>1, <1>2, <1>4 DEF RegisterPlace, Register
<1>5. CASE x.tag = "int"
  BY <1>1, <1>2, <1>5 DEF RegisterPlace, Register, LiteralRegister
<1>. QED
  BY <1>1, <1>3, <1>4, <1>5

(* No two sources share a register: the constants, the literals, the       *)
(* arrays and the loops lie one after the other, each counted from its     *)
(* own end.                                                                *)
LEMMA RegistersApart ==
    ASSUME CheckMeetHardwareConstaints(literals), literals \in Seq(Int),
           NEW x \in Sources, NEW y \in Sources, Register(x) = Register(y)
    PROVE  x = y
<1>0. /\ Len(Loops) <= LoopRegisters /\ Len(Arrays) <= ArrayRegisters
      /\ Len(Consts) + Len(literals) <= ConstRegisters
      /\ Len(Loops) \in Nat /\ Len(Arrays) \in Nat /\ Len(Consts) \in Nat /\ Len(literals) \in Nat
  <2>1. /\ Len(Loops) <= LoopRegisters /\ Len(Arrays) <= ArrayRegisters
        /\ Len(Consts) + Len(literals) <= ConstRegisters
    BY DEF CheckMeetHardwareConstaints
  <2>. QED
    BY <2>1, NamesAssumption, LenProperties
<1>1. ConstRegisters \in Nat /\ ArrayRegisters \in Nat /\ LoopRegisters \in Nat
  BY HardwareAssumption
<1> DEFINE c == Len(Consts)
           cs == ConstRegisters
           arrs == ArrayRegisters
           Zone(z, r) == \/ z.tag = "id" /\ z.name \in Range(Consts) /\ r >= 0 /\ r < c
                         \/ z.tag = "int" /\ r >= c /\ r < cs
                         \/ z.tag = "array" /\ r >= cs /\ r < cs + arrs
                         \/ z.tag = "id" /\ z.name \notin Range(Consts) /\ r >= cs + arrs
<1>2. ASSUME NEW z \in Sources PROVE Register(z) \in Int /\ Zone(z, Register(z))
  <2>1. /\ RegisterPlace(z)
        /\ z.tag \in {"int", "array", "id"}
    BY SourcePlace
  <2>2. CASE z.tag = "int"
    <3>1. Register(z) = Len(Consts) + Position(literals, z.num) - 1
          /\ Position(literals, z.num) \in 1 .. Len(literals)
      BY <2>1, <2>2 DEF RegisterPlace
    <3>. QED
      BY <1>0, <1>1, <2>2, <3>1
  <2>3. CASE z.tag = "array"
    <3>1. Register(z) = ConstRegisters + Position(Arrays, z.name) - 1
          /\ Position(Arrays, z.name) \in 1 .. Len(Arrays)
      BY <2>1, <2>3 DEF RegisterPlace
    <3>. QED
      BY <1>0, <1>1, <2>3, <3>1
  <2>4. CASE z.tag = "id" /\ z.name \in Range(Consts)
    <3>1. Register(z) = Position(Consts, z.name) - 1
          /\ Position(Consts, z.name) \in 1 .. Len(Consts)
      BY <2>1, <2>4 DEF RegisterPlace
    <3>. QED
      BY <1>0, <1>1, <2>4, <3>1
  <2>5. CASE z.tag = "id" /\ z.name \notin Range(Consts)
    <3>1. Register(z) = ConstRegisters + ArrayRegisters + Len(Loops) - Position(Loops, z.name)
          /\ Position(Loops, z.name) \in 1 .. Len(Loops)
      BY <2>1, <2>5 DEF RegisterPlace
    <3>. QED
      BY <1>0, <1>1, <2>5, <3>1
  <2>. QED
    BY <2>1, <2>2, <2>3, <2>4, <2>5
<1>3. /\ Register(x) \in Int /\ Zone(x, Register(x))
      /\ Register(y) \in Int /\ Zone(y, Register(y))
  BY <1>2
<1>4. c \in Nat /\ cs \in Nat /\ arrs \in Nat /\ c <= cs
  BY <1>0, <1>1
<1>5. x.tag = y.tag /\ (x.tag = "id" => (x.name \in Range(Consts) <=> y.name \in Range(Consts)))
  <2> DEFINE r == Register(x)
             cx == IF x.name \in Range(Consts) THEN 1 ELSE 0
             cy == IF y.name \in Range(Consts) THEN 1 ELSE 0
  <2>1. /\ r \in Int
        /\ \/ x.tag = "id" /\ cx = 1 /\ r >= 0 /\ r < c
           \/ x.tag = "int" /\ r >= c /\ r < cs
           \/ x.tag = "array" /\ r >= cs /\ r < cs + arrs
           \/ x.tag = "id" /\ cx = 0 /\ r >= cs + arrs
    BY <1>3
  <2>2. \/ y.tag = "id" /\ cy = 1 /\ r >= 0 /\ r < c
        \/ y.tag = "int" /\ r >= c /\ r < cs
        \/ y.tag = "array" /\ r >= cs /\ r < cs + arrs
        \/ y.tag = "id" /\ cy = 0 /\ r >= cs + arrs
    BY <1>3
  <2> HIDE DEF c, cs, arrs, r, cx, cy
  <2>3. x.tag = y.tag /\ (x.tag = "id" => cx = cy)
    BY <1>4, <2>1, <2>2
  <2>. QED
    BY <2>3 DEF cx, cy
<1>6. /\ RegisterPlace(x) /\ RegisterPlace(y)
      /\ x.tag \in {"int", "array", "id"}
      /\ x.tag = "int" => x = Lit(x.num)
      /\ x.tag \in {"array", "id"} => x = [tag |-> x.tag, name |-> x.name]
      /\ y.tag = "int" => y = Lit(y.num)
      /\ y.tag \in {"array", "id"} => y = [tag |-> y.tag, name |-> y.name]
  BY SourcePlace
<1>7. CASE x.tag = "int"
  <2>1. Position(literals, x.num) = Position(literals, y.num)
    BY <1>0, <1>5, <1>6, <1>7 DEF RegisterPlace
  <2>2. x.num = y.num
    BY <1>5, <1>6, <1>7, <2>1 DEF RegisterPlace
  <2>. QED
    BY <1>5, <1>6, <1>7, <2>2
<1>8. CASE x.tag = "array"
  <2>1. Position(Arrays, x.name) = Position(Arrays, y.name)
    BY <1>0, <1>1, <1>5, <1>6, <1>8 DEF RegisterPlace
  <2>2. x.name = y.name
    BY <1>5, <1>6, <1>8, <2>1 DEF RegisterPlace
  <2>. QED
    BY <1>5, <1>6, <1>8, <2>2
<1>9. CASE x.tag = "id"
  <2>1. x.name = y.name
    <3>1. CASE x.name \in Range(Consts)
      <4>1. Position(Consts, x.name) = Position(Consts, y.name)
        BY <1>0, <1>5, <1>6, <1>9, <3>1 DEF RegisterPlace
      <4>. QED
        BY <1>5, <1>6, <1>9, <3>1, <4>1 DEF RegisterPlace
    <3>2. CASE x.name \notin Range(Consts)
      <4>p. /\ RegisterPlace(x) /\ RegisterPlace(y)
            /\ y.tag = "id" /\ y.name \notin Range(Consts)
        BY <1>5, <1>6, <1>9, <3>2, Zenon
      <4>x. /\ Register(x) = ConstRegisters + ArrayRegisters + Len(Loops) - Position(Loops, x.name)
            /\ Position(Loops, x.name) \in 1 .. Len(Loops)
        BY <1>9, <3>2, <4>p, Zenon DEF RegisterPlace
      <4>y. /\ Register(y) = ConstRegisters + ArrayRegisters + Len(Loops) - Position(Loops, y.name)
            /\ Position(Loops, y.name) \in 1 .. Len(Loops)
        BY <4>p, Zenon DEF RegisterPlace
      <4> DEFINE a == ConstRegisters + ArrayRegisters
                 n == Len(Loops)
                 px == Position(Loops, x.name)
                 py == Position(Loops, y.name)
      <4>q. a \in Nat /\ n \in Nat /\ px \in Nat /\ py \in Nat
        BY <1>0, <1>1, <4>x, <4>y
      <4>u. a + (n - px) = a + (n - py)
        BY <4>x, <4>y, Zenon
      <4> HIDE DEF a, n, px, py
      <4>r. px = py
        BY <4>q, <4>u
      <4>1. Position(Loops, x.name) = Position(Loops, y.name)
        BY <4>r DEF px, py
      <4>. QED
        BY <1>5, <1>6, <1>9, <3>2, <4>1 DEF RegisterPlace
    <3>. QED
      BY <3>1, <3>2
  <2>. QED
    BY <1>5, <1>6, <1>9, <2>1
<1>. QED
  BY <1>6, <1>7, <1>8, <1>9

(* The register of a leaf holds the value of the leaf and no other.        *)
LEMMA ContentsExact ==
    ASSUME CheckMeetHardwareConstaints(literals), literals \in Seq(Int), NEW env,
           NEW x \in Leaves, x.tag = "int" => Among(x.num, literals)
    PROVE  Contents(Register(x), env) = {Value(x, env)}
<1>1. x \in Sources
  <2>1. x.tag = "int" => x.num \in Range(literals)
    BY AmongRange
  <2>. QED
    BY <2>1 DEF Leaves, Sources, Lit
<1>2. {e \in Sources : Register(e) = Register(x)} = {x}
  BY <1>1, RegistersApart
<1>. QED
  BY <1>2 DEF Contents

-----------------------------------------------------------------------------
(* The inputs of a layer.                                                  *)

(* Lists of the same lengths, put together, have the same length.          *)
LEMMA SameLengths ==
    ASSUME NEW S, NEW ss \in Seq(Seq(S)), NEW U, NEW tt \in Seq(Seq(U)),
           Len(ss) = Len(tt), \A k \in 1 .. Len(ss) : Len(ss[k]) = Len(tt[k])
    PROVE  \A n \in 0 .. Len(ss) :
              Len(FlattenSeq(SubSeq(ss, 1, n))) = Len(FlattenSeq(SubSeq(tt, 1, n)))
<1> DEFINE a(n) == FlattenSeq(SubSeq(ss, 1, n))
           b(n) == FlattenSeq(SubSeq(tt, 1, n))
           T == {n \in 0 .. Len(ss) : Len(a(n)) = Len(b(n))}
<1>0. Len(ss) \in Nat /\ \A i \in 1 .. Len(ss) : ss[i] \in Seq(S) /\ tt[i] \in Seq(U)
  OBVIOUS
<1>1. /\ a(0) = <<>> /\ b(0) = <<>>
      /\ \A n \in 0 .. Len(ss) : a(n) \in Seq(S) /\ b(n) \in Seq(U)
      /\ \A n \in 0 .. Len(ss) - 1 : a(n + 1) = a(n) \o ss[n + 1] /\ b(n + 1) = b(n) \o tt[n + 1]
  BY FlattenGrows
<1> HIDE DEF a, b
<1>2. 0 \in T
  BY <1>0, <1>1
<1>3. ASSUME NEW n \in 0 .. Len(ss) - 1, n \in T PROVE n + 1 \in T
  <2>1. /\ n \in 0 .. Len(ss) /\ n + 1 \in 0 .. Len(ss) /\ n + 1 \in 1 .. Len(ss)
    BY <1>0
  <2>2. /\ a(n) \in Seq(S) /\ b(n) \in Seq(U) /\ ss[n + 1] \in Seq(S) /\ tt[n + 1] \in Seq(U)
    BY <1>0, <1>1, <2>1
  <2>3. /\ Len(a(n) \o ss[n + 1]) = Len(a(n)) + Len(ss[n + 1])
        /\ Len(b(n) \o tt[n + 1]) = Len(b(n)) + Len(tt[n + 1])
    BY <2>2, ConcatProperties
  <2>4. Len(a(n)) = Len(b(n)) /\ Len(ss[n + 1]) = Len(tt[n + 1])
    BY <1>3, <2>1
  <2>5. Len(a(n + 1)) = Len(b(n + 1))
    BY <1>1, <2>3, <2>4
  <2>. QED
    BY <2>1, <2>5
<1>4. \A n \in 0 .. Len(ss) : n \in T
  <2> HIDE DEF T
  <2>. QED
    BY <1>0, <1>2, <1>3, BoundedInduction
<1>. QED
  BY <1>4 DEF a, b

(* Each input of a layer is at the place its operand has among the nodes   *)
(* of the layer below.                                                     *)
InputPlaces(nodes, layer) ==
    LET q == nodes[layer]
        inputs == Inputs(nodes, layer) IN
    /\ \A k \in 1 .. Len(q) : \A j \in 1 .. Len(Operands(q[k])) :
          LET i == OperandPlace(q, k, j) IN
          /\ i \in 1 .. Len(inputs) /\ i \in 1 .. Len(nodes[layer - 1])
          /\ inputs[i] = [from |-> Mapping(nodes, layer - 1, i),
                          to   |-> Mapping(nodes, layer, k)]
          /\ nodes[layer - 1][i] = Operands(q[k])[j]
    /\ \A i \in 1 .. Len(inputs) :
          \E k \in 1 .. Len(q) : \E j \in 1 .. Len(Operands(q[k])) :
             i = OperandPlace(q, k, j)

(* So it is in every layer of a tree that can be routed.                    *)
LEMMA InputsPlaced ==
    ASSUME NEW h, NEW e, Routable(h, e), NEW layer \in 0 .. h - 1
    PROVE  InputPlaces(Nodes(e), layer)
<1> DEFINE nodes == Nodes(e)
           q == nodes[layer]
           units == UnitInputs(nodes, layer)
           ss == OperandLists(q)
           inputs == Inputs(nodes, layer)
<1>0. /\ h \in 0 .. MaxDepth /\ h \in Nat /\ e \in Full[h] /\ MaxDepth \in Nat
      /\ layer \in -1 .. h - 1
      /\ layer + 1 \in 1 .. MaxDepth /\ (layer + 1) - 1 = layer
  BY ProgramsAssumption DEF Routable
<1>1. q \in Seq(Full[layer + 1]) /\ nodes[layer - 1] = OperandsOf(q)
  BY <1>0, NodesFull
<1>2. \A n \in Full[layer + 1] : Operands(n) \in Seq(Full[layer])
  BY <1>0, OperandsType
<1>3. UnitInputsTyped(nodes, layer)
  BY UnitInputsType
<1>4. inputs = FlattenSeq(units)
  BY DEF Inputs, UnitInputs, OperandPlace
<1> HIDE DEF q, inputs
<1>5. /\ OperandPlaces(q)
      /\ ss \in Seq(Seq(Full[layer])) /\ Len(ss) = Len(q)
      /\ \A k \in 1 .. Len(q) : ss[k] = Operands(q[k])
      /\ \A k \in 1 .. Len(q) :
            OperandsOf(SubSeq(q, 1, k - 1)) = FlattenSeq(SubSeq(ss, 1, k - 1))
  <2>1. OperandPlaces(q)
    BY <1>1, <1>2, OperandsOfPlaces
  <2>2. q \in Seq(Full[layer + 1])
    BY <1>1
  <2>3. /\ ss \in Seq(Seq(Full[layer])) /\ Len(ss) = Len(q)
        /\ \A k \in 1 .. Len(q) : ss[k] = Operands(q[k])
        /\ \A k \in 1 .. Len(q) :
              OperandsOf(SubSeq(q, 1, k - 1)) = FlattenSeq(SubSeq(ss, 1, k - 1))
    BY <1>2, <2>2, OperandsAreLists
  <2> HIDE DEF ss
  <2>. QED
    BY <2>1, <2>3
<1>6. /\ units \in Seq(Seq(Links)) /\ Len(units) = Len(q)
      /\ \A k \in 1 .. Len(q) :
            /\ Len(units[k]) = Len(Operands(q[k]))
            /\ \A j \in 1 .. Len(Operands(q[k])) :
                  units[k][j] = [from |-> Mapping(nodes, layer - 1, OperandPlace(q, k, j)),
                                 to   |-> Mapping(nodes, layer, k)]
  BY <1>3 DEF UnitInputsTyped, q
<1> HIDE DEF units, ss, nodes
<1>7. Len(q) \in Nat
  BY <1>1, LenProperties
<1>8. ASSUME NEW k \in 1 .. Len(q), NEW j
      PROVE  OperandPlace(q, k, j) = Len(FlattenSeq(SubSeq(units, 1, k - 1))) + j
  <2>1. k - 1 \in 0 .. Len(ss)
    BY <1>5, <1>7
  <2>2. Len(ss) = Len(units) /\ \A i \in 1 .. Len(ss) : Len(ss[i]) = Len(units[i])
    BY <1>5, <1>6
  <2>3. Len(FlattenSeq(SubSeq(ss, 1, k - 1))) = Len(FlattenSeq(SubSeq(units, 1, k - 1)))
    BY <1>5, <1>6, <2>1, <2>2, SameLengths
  <2>. QED
    BY <1>5, <2>3 DEF OperandPlace
<1>9. /\ \A k \in 1 .. Len(units) : \A j \in 1 .. Len(units[k]) :
            LET place == Len(FlattenSeq(SubSeq(units, 1, k - 1))) + j IN
            /\ place \in 1 .. Len(FlattenSeq(units))
            /\ FlattenSeq(units)[place] = units[k][j]
      /\ \A i \in 1 .. Len(FlattenSeq(units)) :
            \E k \in 1 .. Len(units) : \E j \in 1 .. Len(units[k]) :
               i = Len(FlattenSeq(SubSeq(units, 1, k - 1))) + j
  BY <1>6, FlattenPlaces
<1>10. ASSUME NEW k \in 1 .. Len(q), NEW j \in 1 .. Len(Operands(q[k]))
       PROVE  LET i == OperandPlace(q, k, j) IN
              /\ i \in 1 .. Len(inputs) /\ i \in 1 .. Len(nodes[layer - 1])
              /\ inputs[i] = [from |-> Mapping(nodes, layer - 1, i),
                              to   |-> Mapping(nodes, layer, k)]
              /\ nodes[layer - 1][i] = Operands(q[k])[j]
  <2> DEFINE i == OperandPlace(q, k, j)
  <2>1. i \in 1 .. Len(OperandsOf(q)) /\ OperandsOf(q)[i] = Operands(q[k])[j]
    BY <1>5 DEF OperandPlaces
  <2>2. i = Len(FlattenSeq(SubSeq(units, 1, k - 1))) + j
    BY <1>8
  <2>3. k \in 1 .. Len(units) /\ j \in 1 .. Len(units[k])
    BY <1>6
  <2>4. i \in 1 .. Len(inputs) /\ inputs[i] = units[k][j]
    BY <1>4, <1>9, <2>2, <2>3
  <2>5. units[k][j] = [from |-> Mapping(nodes, layer - 1, i), to |-> Mapping(nodes, layer, k)]
    BY <1>6
  <2>. QED
    BY <1>1, <2>1, <2>4, <2>5
<1>11. ASSUME NEW i \in 1 .. Len(inputs)
       PROVE  \E k \in 1 .. Len(q) : \E j \in 1 .. Len(Operands(q[k])) :
                 i = OperandPlace(q, k, j)
  <2>0. PICK k \in 1 .. Len(units) : \E j \in 1 .. Len(units[k]) :
           i = Len(FlattenSeq(SubSeq(units, 1, k - 1))) + j
    BY <1>4, <1>9
  <2>1. PICK j \in 1 .. Len(units[k]) : i = Len(FlattenSeq(SubSeq(units, 1, k - 1))) + j
    BY <2>0
  <2>2. k \in 1 .. Len(q) /\ j \in 1 .. Len(Operands(q[k]))
    BY <1>6, <2>1
  <2>3. i = OperandPlace(q, k, j)
    BY <1>8, <2>1, <2>2
  <2>. QED
    BY <2>2, <2>3
<1>. QED
  BY <1>10, <1>11 DEF InputPlaces, inputs, q, nodes

(* A unit in the range of a kind is of that kind: the ranges do not meet.  *)
LEMMA KindIs ==
    ASSUME NEW layer \in 0 .. NLayers, NEW kind \in Kinds, NEW unit \in Nat,
           FirstUnit(layer, kind) <= unit,
           unit < FirstUnit(layer, kind) + Layers[layer][kind]
    PROVE  KindOf(layer, unit) = kind
<1> DEFINE p == Layers[layer].plus
           t == Layers[layer].times
           a == Layers[layer].pass
           m == Layers[layer].minus
           In(k) == /\ FirstUnit(layer, k) <= unit
                    /\ unit < FirstUnit(layer, k) + Layers[layer][k]
<1>1. Layers[layer] \in [Kinds -> Nat]
  BY HardwareAssumption
<1>2. p \in Nat /\ t \in Nat /\ a \in Nat /\ m \in Nat
  BY <1>1 DEF Kinds
<1>3. /\ In("plus") <=> 0 <= unit /\ unit < 0 + p
      /\ In("times") <=> p <= unit /\ unit < p + t
      /\ In("pass") <=> p + t <= unit /\ unit < p + t + a
      /\ In("minus") <=> p + t + a <= unit /\ unit < p + t + a + m
  BY DEF FirstUnit
<1>4. Kinds = {"plus", "times", "minus", "pass"}
  BY DEF Kinds
<1>5. In(kind)
  OBVIOUS
<1>6. KindOf(layer, unit) = CHOOSE k \in Kinds : In(k)
  BY DEF KindOf
<1> HIDE DEF p, t, a, m, In
<1>7. \A k, l \in Kinds : In(k) /\ In(l) => k = l
  BY <1>2, <1>3, <1>4
<1>. QED
  BY <1>5, <1>6, <1>7

(* No two nodes of a layer share a unit, and the unit is of the kind of    *)
(* the node.                                                               *)
LEMMA UnitsApart ==
    ASSUME NEW h, NEW e, Routable(h, e), NEW layer \in 0 .. h - 1
    PROVE  LET q == Nodes(e)[layer]
               M(k) == Mapping(Nodes(e), layer, k) IN
           /\ \A k \in 1 .. Len(q) : KindOf(layer, M(k)) = q[k].tag
           /\ \A k, l \in 1 .. Len(q) : M(k) = M(l) => k = l
<1> DEFINE nodes == Nodes(e)
           q == nodes[layer]
           M(k) == Mapping(nodes, layer, k)
           B(k) == Before(nodes, layer, k)
<1>0. layer \in 0 .. NLayers /\ Len(q) \in Nat
  <2>1. h \in 0 .. MaxDepth /\ h + 1 <= NLayers /\ e \in Full[h] /\ MaxDepth \in Nat /\ NLayers \in Nat
    BY ProgramsAssumption, HardwareAssumption DEF Routable
  <2>2. layer \in -1 .. h - 1 /\ layer \in 0 .. NLayers
    BY <2>1
  <2>3. q \in Seq(Full[layer + 1])
    BY <2>1, <2>2, NodesFull
  <2> HIDE DEF q
  <2>. QED
    BY <2>2, <2>3, LenProperties
<1>1. ASSUME NEW k \in 1 .. Len(q)
      PROVE  /\ q[k].tag \in Kinds
             /\ B(k) \in Nat /\ B(k) < Layers[layer][q[k].tag]
             /\ M(k) = FirstUnit(layer, q[k].tag) + B(k)
  BY UnitMapped
<1>2. ASSUME NEW k \in 1 .. Len(q) PROVE KindOf(layer, M(k)) = q[k].tag
  <2> DEFINE tag == q[k].tag
             f == FirstUnit(layer, tag)
             n == Layers[layer][tag]
             b == B(k)
             u == M(k)
  <2>1. tag \in Kinds /\ f \in Nat /\ n \in Nat /\ b \in Nat /\ b < n /\ u = f + b
    BY <1>0, <1>1, LayerUnits
  <2>2. KindOf(layer, u) = tag
    <3>1. u \in Nat /\ f <= u /\ u < f + n
      <4> HIDE DEF f, n, b, u
      <4>. QED
        BY <2>1
    <3> HIDE DEF u, tag
    <3>. QED
      BY <1>0, <2>1, <3>1, KindIs DEF f, n
  <2>. QED
    BY <2>2
<1>3. ASSUME NEW k \in 1 .. Len(q), NEW l \in 1 .. Len(q), k < l, q[k].tag = q[l].tag
      PROVE  B(k) < B(l)
  <2> DEFINE X == {j \in 1 .. Len(q) : q[j].tag = q[l].tag}
  <2>1. l - 1 \in Nat /\ k \in 1 .. l - 1
    BY <1>0, <1>3
  <2>2. k \in X
    BY <1>3
  <2>3. /\ \A j \in 1 .. k - 1 : j \in X <=> q[j].tag = q[k].tag
        /\ \A j \in 1 .. l - 1 : j \in X <=> q[j].tag = q[l].tag
    BY <1>0, <1>3
  <2> HIDE DEF X, q
  <2>4. /\ {j \in 1 .. k - 1 : j \in X} = {j \in 1 .. k - 1 : q[j].tag = q[k].tag}
        /\ {j \in 1 .. l - 1 : j \in X} = {j \in 1 .. l - 1 : q[j].tag = q[l].tag}
    BY <2>3
  <2>5. Cardinality({j \in 1 .. k - 1 : j \in X}) < Cardinality({j \in 1 .. l - 1 : j \in X})
    BY <2>1, <2>2, Earlier
  <2>. QED
    BY <2>4, <2>5 DEF Before, q
<1>4. ASSUME NEW k \in 1 .. Len(q), NEW l \in 1 .. Len(q), M(k) = M(l)
      PROVE  k = l
  <2>1. q[k].tag = q[l].tag
    BY <1>2, <1>4
  <2>2. B(k) = B(l)
    <3> DEFINE f == FirstUnit(layer, q[k].tag)
               a == B(k)
               b == B(l)
    <3>1. f \in Nat
      BY <1>0, <1>1, LayerUnits
    <3>2. a \in Nat /\ b \in Nat /\ M(k) = f + a
      BY <1>1
    <3>3. M(l) = f + b
      BY <1>1, <2>1
    <3>4. f + a = f + b
      BY <1>4, <3>2, <3>3
    <3> HIDE DEF f, a, b
    <3>5. a = b
      BY <3>1, <3>2, <3>4
    <3>. QED
      BY <3>5 DEF a, b
  <2>3. B(k) \in Nat /\ B(l) \in Nat
    BY <1>1
  <2>4. ~(k < l) /\ ~(l < k)
    BY <1>3, <2>1, <2>2, <2>3
  <2>. QED
    BY <1>0, <2>4
<1>. QED
  BY <1>2, <1>4

(* The operand number of an input is its place in its unit.                *)
InputsNumbered(nodes, layer) ==
    LET q == nodes[layer] IN
    \A k \in 1 .. Len(q) : \A j \in 1 .. Len(Operands(q[k])) :
       j \in {1, 2} /\ IdxOut(Inputs(nodes, layer), OperandPlace(q, k, j)) = j - 1

(* DoControlWrite counts the operands of a unit in the order the routing    *)
(* lists them, which is their order in the node.                            *)
LEMMA OperandNumber ==
    ASSUME NEW h, NEW e, Routable(h, e), NEW layer \in 0 .. h - 1
    PROVE  InputsNumbered(Nodes(e), layer)
<1> SUFFICES ASSUME NEW k \in 1 .. Len(Nodes(e)[layer]),
                    NEW j \in 1 .. Len(Operands(Nodes(e)[layer][k]))
             PROVE  /\ j \in {1, 2}
                    /\ IdxOut(Inputs(Nodes(e), layer), OperandPlace(Nodes(e)[layer], k, j)) = j - 1
  BY Zenon DEF InputsNumbered
<1> DEFINE nodes == Nodes(e)
           q == nodes[layer]
           inputs == Inputs(nodes, layer)
           P(l, n) == OperandPlace(q, l, n)
           M(l) == Mapping(nodes, layer, l)
           i == P(k, j)
<1>0. /\ q \in Seq(Full[layer + 1])
      /\ \A l \in 1 .. Len(q) : Len(Operands(q[l])) \in {1, 2}
  <2>1. h \in 0 .. MaxDepth /\ e \in Full[h] /\ MaxDepth \in Nat
    BY ProgramsAssumption DEF Routable
  <2>2. layer \in -1 .. h - 1 /\ layer + 1 \in 1 .. MaxDepth
    BY <2>1
  <2>3. q \in Seq(Full[layer + 1])
    BY <2>1, <2>2, NodesFull
  <2> HIDE DEF q
  <2>. QED
    BY <2>2, <2>3, OperandsType
<1>1. j \in {1, 2}
  <2> DEFINE n == Len(Operands(q[k]))
  <2>1. n \in {1, 2} /\ j \in 1 .. n
    BY <1>0
  <2> HIDE DEF n
  <2>. QED
    BY <2>1
<1>2. /\ \A l \in 1 .. Len(q) : \A n \in 1 .. Len(Operands(q[l])) :
            P(l, n) \in 1 .. Len(inputs) /\ inputs[P(l, n)].to = M(l)
      /\ \A x \in 1 .. Len(inputs) :
            \E l \in 1 .. Len(q) : \E n \in 1 .. Len(Operands(q[l])) : x = P(l, n)
  <2>1. InputPlaces(nodes, layer)
    BY InputsPlaced
  <2> HIDE DEF nodes
  <2>2. /\ \A l \in 1 .. Len(q) : \A n \in 1 .. Len(Operands(q[l])) :
              /\ P(l, n) \in 1 .. Len(inputs)
              /\ inputs[P(l, n)] = [from |-> Mapping(nodes, layer - 1, P(l, n)), to |-> M(l)]
        /\ \A x \in 1 .. Len(inputs) :
              \E l \in 1 .. Len(q) : \E n \in 1 .. Len(Operands(q[l])) : x = P(l, n)
    BY <2>1 DEF InputPlaces
  <2>3. ASSUME NEW l \in 1 .. Len(q), NEW n \in 1 .. Len(Operands(q[l]))
        PROVE  P(l, n) \in 1 .. Len(inputs) /\ inputs[P(l, n)].to = M(l)
    <3>1. /\ P(l, n) \in 1 .. Len(inputs)
          /\ inputs[P(l, n)] = [from |-> Mapping(nodes, layer - 1, P(l, n)), to |-> M(l)]
      BY <2>2
    <3>. QED
      BY <3>1
  <2> HIDE DEF q, inputs, P, M
  <2>. QED
    BY <2>2, <2>3
<1>3. \A l \in 1 .. Len(q) : M(k) = M(l) => k = l
  BY UnitsApart
<1> DEFINE b == Len(OperandsOf(SubSeq(q, 1, k - 1)))
<1>4. /\ \A n : P(k, n) = b + n
      /\ i \in 1 .. Len(inputs) /\ i = b + j /\ inputs[i].to = M(k)
  BY <1>2 DEF OperandPlace
<1>b. b \in Nat /\ Len(inputs) \in Nat
  <2> DEFINE r == SubSeq(q, 1, k - 1)
  <2>1. inputs \in Seq(Links)
    BY InputsType
  <2>2. h \in 0 .. MaxDepth /\ MaxDepth \in Nat /\ layer + 1 \in 1 .. MaxDepth
        /\ \A n \in Full[layer + 1] : Operands(n) \in Seq(Full[layer])
    <3>1. h \in 0 .. MaxDepth /\ MaxDepth \in Nat
      BY ProgramsAssumption DEF Routable
    <3>2. layer + 1 \in 1 .. MaxDepth /\ (layer + 1) - 1 = layer
      BY <3>1
    <3>. QED
      BY <3>1, <3>2, OperandsType
  <2>3. r \in Seq(Full[layer + 1])
    <3>1. q \in Seq(Full[layer + 1]) /\ k \in 1 .. Len(q)
      BY <1>0
    <3> HIDE DEF q
    <3>2. \A x \in 1 .. k - 1 : q[x] \in Full[layer + 1]
      BY <3>1
    <3>. QED
      <4>1. 1 \in Int /\ k - 1 \in Int
        BY <3>1
      <4>. QED
        BY <3>2, <4>1, SubSeqProperties DEF r
  <2> HIDE DEF r, inputs
  <2>4. OperandsOf(r) \in Seq(Full[layer])
    BY <2>2, <2>3, OperandsOfPlaces
  <2>. QED
    BY <2>1, <2>4, LenProperties DEF r
<1>5. ASSUME NEW x \in 1 .. i - 1, inputs[x].to = inputs[i].to PROVE x = b + 1 /\ j = 2
  <2>1. x \in 1 .. Len(inputs)
    BY <1>4, <1>b
  <2>2. PICK l \in 1 .. Len(q) : \E n \in 1 .. Len(Operands(q[l])) : x = P(l, n)
    BY <1>2, <2>1
  <2>3. PICK n \in 1 .. Len(Operands(q[l])) : x = P(l, n)
    BY <2>2
  <2>4. l = k
    BY <1>2, <1>3, <1>4, <1>5, <2>3
  <2>5. x = b + n /\ n \in {1, 2}
    <3>1. n \in 1 .. Len(Operands(q[k])) /\ x = P(k, n)
      BY <2>3, <2>4
    <3>2. x = b + n
      BY <1>4, <3>1
    <3> DEFINE m == Len(Operands(q[k]))
    <3>3. m \in {1, 2} /\ n \in 1 .. m
      BY <1>0, <3>1
    <3> HIDE DEF b, m
    <3>4. n \in {1, 2}
      BY <3>3
    <3>. QED
      BY <3>2, <3>4
  <2> HIDE DEF b, i, P, M, inputs, q
  <2>. QED
    BY <1>1, <1>4, <1>b, <2>5
<1>6. CASE j = 1
  <2>1. {x \in 1 .. i - 1 : inputs[x].to = inputs[i].to} = {}
    BY <1>5, <1>6
  <2>2. IdxOut(inputs, i) = 0
    BY <2>1, FS_EmptySet DEF IdxOut
  <2>. QED
    BY <1>1, <1>6, <2>2
<1>7. CASE j = 2
  <2>1. b + 1 \in 1 .. i - 1 /\ inputs[b + 1].to = inputs[i].to
    <3>1. 1 \in 1 .. Len(Operands(q[k]))
      BY <1>0, <1>7
    <3>2. inputs[P(k, 1)].to = M(k) /\ P(k, 1) = b + 1
      BY <1>2, <1>4, <3>1
    <3>3. b + 1 \in 1 .. i - 1
      <4> HIDE DEF b, i
      <4>. QED
        BY <1>4, <1>7, <1>b
    <3>. QED
      BY <1>4, <3>2, <3>3
  <2>2. {x \in 1 .. i - 1 : inputs[x].to = inputs[i].to} = {b + 1}
    <3> HIDE DEF b, i, inputs
    <3>. QED
      BY <1>5, <2>1
  <2>3. IdxOut(inputs, i) = 1
    BY <2>2, FS_Singleton DEF IdxOut
  <2>. QED
    BY <1>1, <1>7, <2>3
<1>. QED
  BY <1>1, <1>6, <1>7

-----------------------------------------------------------------------------
(* Reading the cells back.                                                 *)

(* The operand number of every connection still fits above the unit        *)
(* number: the cell is wide enough.                                        *)
CellsWide == 2 * Shifted[IdxBit] <= Shifted[CellBits]

(* Unit and operand number are read back as they were packed.              *)
LEMMA ByteRead ==
    ASSUME CellsWide, NEW to \in 0 .. MaxFuncUnits - 1, NEW idx \in {0, 1}
    PROVE  /\ CellValue(to, idx) % Shifted[IdxBit] = to
           /\ CellValue(to, idx) \div Shifted[IdxBit] = idx
<1> DEFINE b == Shifted[IdxBit]
           w == Shifted[CellBits]
           v == to + idx * b
<1>1. b \in Nat /\ w \in Nat /\ MaxFuncUnits \in Nat /\ b >= MaxFuncUnits + 1 /\ b > 0 /\ w > 0
  <2>1. MaxFuncUnits \in Nat /\ IdxBit \in 0 .. MaxFuncUnits /\ b >= MaxFuncUnits + 1
    BY Widest, IdxBitFacts
  <2>2. IdxBit \in Nat /\ CellBits \in Nat
    BY <2>1, HardwareAssumption
  <2>3. b \in Nat /\ w \in Nat /\ w >= CellBits + 1
    BY <2>2, ShiftedFacts
  <2> HIDE DEF b, w
  <2>. QED
    BY <2>1, <2>2, <2>3
<1>2. to \in Nat /\ to < b /\ 2 * b <= w
  <2>1. 2 * b <= w
    BY DEF CellsWide
  <2> HIDE DEF b, w
  <2>. QED
    BY <1>1, <2>1
<1>3. CellValue(to, idx) = v % w
  BY DEF CellValue
<1>4. v \in Nat /\ v < w /\ v = idx * b + to /\ idx \in Nat
  <2>1. CASE idx = 0
    <3>1. idx * b = 0
      <4> HIDE DEF b
      <4>. QED
        BY <1>1, <2>1
    <3> HIDE DEF b, w
    <3>. QED
      BY <1>1, <1>2, <2>1, <3>1
  <2>2. CASE idx = 1
    <3>1. idx * b = b
      <4> HIDE DEF b
      <4>. QED
        BY <1>1, <2>2
    <3> HIDE DEF b, w
    <3>. QED
      BY <1>1, <1>2, <2>2, <3>1
  <2>. QED
    BY <2>1, <2>2
<1> HIDE DEF v, b, w
<1>5. v % w = v
  <2>1. v \div w = 0
    BY <1>1, <1>4, DivUnique
  <2>2. v = w * (v \div w) + (v % w) /\ v % w \in Nat
    BY <1>1, <1>4, DivFacts
  <2>. QED
    BY <1>1, <1>4, <2>1, <2>2
<1>6. v \div b = idx
  <2> DEFINE ib == idx * b
  <2>1. ib \in Nat
    BY <1>1, <1>4, TimesNat
  <2>2. ib <= v /\ v < ib + b
    <3>1. v = ib + to
      BY <1>4
    <3> HIDE DEF ib
    <3>. QED
      BY <1>1, <1>2, <2>1, <3>1
  <2>. QED
    BY <1>1, <1>4, <2>2, DivUnique
<1>7. v % b = to
  <2> DEFINE ib == idx * b
  <2>1. v = b * idx + (v % b) /\ v % b \in Nat
    BY <1>1, <1>4, <1>6, DivFacts
  <2>2. b * idx = ib /\ ib \in Nat /\ v = ib + to
    <3>1. b * idx = idx * b
      BY <1>1, <1>4
    <3>. QED
      BY <1>1, <1>4, <3>1, TimesNat
  <2>3. v = ib + (v % b)
    BY <2>1, <2>2
  <2> HIDE DEF ib
  <2>. QED
    BY <1>2, <2>1, <2>2, <2>3
<1>. QED
  BY <1>3, <1>5, <1>6, <1>7 DEF b

(* What is read back from the cells of a layer are its connections.        *)
SourcesOf(inputs, unit, idx) ==
    {inputs[k].from : k \in {k \in 1 .. Len(inputs) : inputs[k].to = unit
                                                   /\ IdxOut(inputs, k) = idx}}

(* An input is driven by the sources the routing gives it: every            *)
(* connection has its own cell, and the byte in it reads back.              *)
LEMMA DriversRead ==
    ASSUME CellsWide, OutInv, NEW s \in 1 .. written, NEW layer \in 0 .. NLayers,
           NEW inputs, inputs = routing[s][layer],
           \A k \in 1 .. Len(inputs) : IdxOut(inputs, k) \in {0, 1},
           NEW unit, NEW idx
    PROVE  Drivers(s, layer, unit, idx) = SourcesOf(inputs, unit, idx)
<1> DEFINE b == Shifted[IdxBit]
           Picked == {k \in 1 .. Len(inputs) : inputs[k].to = unit /\ IdxOut(inputs, k) = idx}
           Held(from, slot) == LET a == Offset(s, layer, from, slot) IN
                               /\ a \in DOMAIN cells
                               /\ cells[a] % b = unit
                               /\ cells[a] \div b = idx
<1>0. OutStages /\ RoutingTyped /\ CellsHeld
  BY RoutingHolds DEF OutInv
<1>1. /\ \A c \in Written : IsConnection(c) /\ c[1] \in 1 .. written
      /\ DOMAIN cells = {CellOf(c) : c \in Written}
      /\ \A c \in Written : cells[CellOf(c)] = ByteOf(c)
  BY <1>0, WrittenConnects DEF CellsHeld
<1>2. s \in Nat \ {0} /\ written \in Nat /\ s \in 1 .. Len(routing) /\ inputs \in Seq(Links)
  <2>1. trees \in Seq(Expr) /\ Len(trees) \in Nat
    BY <1>0, StagesLength, LenProperties
  <2>2. written \in 0 .. Len(trees) /\ written # 0
    <3>1. written \in 0 .. Len(trees)
      BY <1>0 DEF OutStages
    <3> HIDE DEF OutInv
    <3>. QED
      BY <2>1, <3>1
  <2>3. Allocated
    BY <1>0, <2>2 DEF OutStages
  <2>4. Len(routing) = Len(trees) /\ routing \in Seq([0 .. NLayers -> Seq(Links)])
    BY <1>0, <2>3 DEF RoutingTyped
  <2>5. s \in Nat \ {0} /\ written \in Nat /\ s \in 1 .. Len(trees)
    BY <2>1, <2>2
  <2>6. routing[s] \in [0 .. NLayers -> Seq(Links)]
    BY <2>4, <2>5
  <2>. QED
    BY <2>4, <2>5, <2>6
<1>3. ASSUME NEW k \in 1 .. Len(inputs)
      PROVE  LET c == <<s, layer, k>>
                 from == inputs[k].from
                 slot == VarOut(inputs, k) IN
             /\ c \in Written
             /\ from \in 0 .. MaxFuncUnits - 1 /\ slot \in 0 .. BytesCell - 1
             /\ CellOf(c) = Offset(s, layer, from, slot)
             /\ ByteOf(c) % b = inputs[k].to
             /\ ByteOf(c) \div b = IdxOut(inputs, k)
  <2> DEFINE c == <<s, layer, k>>
  <2>1. c \in Written
    <3>1. DOMAIN inputs = 1 .. Len(inputs)
      BY <1>2
    <3>2. c \in {<<s, layer, n>> : n \in DOMAIN routing[s][layer]}
      BY <3>1
    <3>3. c \in Connections(s)
      BY <3>2 DEF Connections
    <3>. QED
      BY <3>3 DEF Written
  <2>2. c[1] = s /\ c[2] = layer /\ c[3] = k
    OBVIOUS
  <2>3. IsConnection(c)
    BY <1>1, <2>1
  <2>4. /\ inputs[k].from \in 0 .. MaxFuncUnits - 1
        /\ VarOut(inputs, k) \in 0 .. BytesCell - 1
        /\ CellOf(c) = Offset(s, layer, inputs[k].from, VarOut(inputs, k))
    BY <1>0, <2>2, <2>3, CellFacts
  <2>5. inputs[k].to \in 0 .. MaxFuncUnits - 1
    <3>1. inputs[k] \in Links
      BY <1>2
    <3>. QED
      BY <3>1 DEF Links
  <2>6. ByteOf(c) = CellValue(inputs[k].to, IdxOut(inputs, k))
    BY <2>2 DEF ByteOf
  <2>7. IdxOut(inputs, k) \in {0, 1}
    OBVIOUS
  <2>8. ByteOf(c) % b = inputs[k].to /\ ByteOf(c) \div b = IdxOut(inputs, k)
    <3> DEFINE to == inputs[k].to
               x == IdxOut(inputs, k)
    <3>1. to \in 0 .. MaxFuncUnits - 1 /\ x \in {0, 1} /\ ByteOf(c) = CellValue(to, x)
      BY <2>5, <2>6, <2>7
    <3> HIDE DEF to, x, c
    <3>2. CellValue(to, x) % b = to /\ CellValue(to, x) \div b = x
      BY <3>1, ByteRead
    <3>. QED
      BY <3>1, <3>2 DEF to, x
  <2>. QED
    BY <2>1, <2>4, <2>8
<1> HIDE DEF b
<1>4. ASSUME NEW k \in Picked
      PROVE  inputs[k].from \in Drivers(s, layer, unit, idx)
  <2> DEFINE from == inputs[k].from
             slot == VarOut(inputs, k)
             c == <<s, layer, k>>
  <2>1. /\ c \in Written
        /\ from \in 0 .. MaxFuncUnits - 1 /\ slot \in 0 .. BytesCell - 1
        /\ CellOf(c) = Offset(s, layer, from, slot)
        /\ ByteOf(c) % b = unit
        /\ ByteOf(c) \div b = idx
    BY <1>3
  <2>2. CellOf(c) \in DOMAIN cells /\ cells[CellOf(c)] = ByteOf(c)
    BY <1>1, <2>1
  <2> HIDE DEF from, slot, c
  <2>3. Held(from, slot)
    BY <2>1, <2>2
  <2>4. from \in Drivers(s, layer, unit, idx)
    BY <2>1, <2>3 DEF Drivers, b
  <2>. QED
    BY <2>4 DEF from
<1>5. ASSUME NEW from \in Drivers(s, layer, unit, idx)
      PROVE  \E k \in Picked : from = inputs[k].from
  <2>1. from \in 0 .. MaxFuncUnits - 1 /\ \E slot \in 0 .. BytesCell - 1 : Held(from, slot)
    BY DEF Drivers, b
  <2>2. PICK slot \in 0 .. BytesCell - 1 : Held(from, slot)
    BY <2>1
  <2>3. PICK c \in Written : Offset(s, layer, from, slot) = CellOf(c)
    BY <1>1, <2>2
  <2>4. IsConnection(c)
    BY <1>1
  <2> DEFINE d == routing[c[1]][c[2]]
             other == d[c[3]].from
             gap == VarOut(d, c[3])
  <2>5. /\ c[1] \in Nat \ {0} /\ c[2] \in 0 .. NLayers
        /\ other \in 0 .. MaxFuncUnits - 1 /\ gap \in 0 .. BytesCell - 1
        /\ CellOf(c) = Offset(c[1], c[2], other, gap)
    BY <1>0, <2>4, CellFacts
  <2>6. s = c[1] /\ layer = c[2] /\ from = other
    <3> DEFINE t == c[1]
               high == c[2]
    <3>1. /\ t \in Nat \ {0} /\ high \in 0 .. NLayers
          /\ Offset(s, layer, from, slot) = Offset(t, high, other, gap)
      BY <2>3, <2>5
    <3> HIDE DEF t, high, other, gap
    <3>2. s = t /\ layer = high /\ from = other
      BY <1>2, <2>1, <2>5, <3>1, OffsetsApart
    <3>. QED
      BY <3>2 DEF t, high
  <2>7. c = <<s, layer, c[3]>> /\ c[3] \in 1 .. Len(inputs) /\ from = inputs[c[3]].from
    BY <2>4, <2>6 DEF IsConnection
  <2> DEFINE k == c[3]
  <2>8. c = <<s, layer, k>> /\ k \in 1 .. Len(inputs) /\ from = inputs[k].from
    BY <2>7
  <2> HIDE DEF k, d, other, gap
  <2>9. ByteOf(c) % b = inputs[k].to /\ ByteOf(c) \div b = IdxOut(inputs, k)
    BY <1>3, <2>8
  <2>10. ByteOf(c) % b = unit /\ ByteOf(c) \div b = idx
    <3>1. cells[CellOf(c)] = ByteOf(c)
      BY <1>1
    <3>. QED
      BY <2>2, <2>3, <3>1
  <2>11. k \in Picked
    BY <2>8, <2>9, <2>10
  <2>. QED
    BY <2>8, <2>11
<1> HIDE DEF Picked
<1>6. Drivers(s, layer, unit, idx) = {inputs[k].from : k \in Picked}
  BY <1>4, <1>5
<1>. QED
  BY <1>6 DEF Picked, SourcesOf

(* Each operand of a unit is driven by the unit or register of its node    *)
(* in the layer below, and by no other.                                    *)
OperandDriven(s, nodes, layer, k, j) ==
    LET i == OperandPlace(nodes[layer], k, j) IN
    /\ i \in 1 .. Len(nodes[layer - 1])
    /\ nodes[layer - 1][i] = Operands(nodes[layer][k])[j]
    /\ Drivers(s, layer, Mapping(nodes, layer, k), j - 1) = {Mapping(nodes, layer - 1, i)}

(* So it is in every layer of the tree.                                     *)
LEMMA LayerDrivers ==
    ASSUME CellsWide, OutInv, NEW s \in 1 .. written, NEW h, NEW e, Routable(h, e),
           routing[s] = LayerRouting(e), NEW layer \in 0 .. h - 1,
           NEW k \in 1 .. Len(Nodes(e)[layer]),
           NEW j \in 1 .. Len(Operands(Nodes(e)[layer][k]))
    PROVE  OperandDriven(s, Nodes(e), layer, k, j)
<1> DEFINE nodes == Nodes(e)
           q == nodes[layer]
           inputs == Inputs(nodes, layer)
           P(l, n) == OperandPlace(q, l, n)
           M(l) == Mapping(nodes, layer, l)
           i == P(k, j)
           Picked == {x \in 1 .. Len(inputs) : inputs[x].to = M(k) /\ IdxOut(inputs, x) = j - 1}
<1>0. layer \in 0 .. NLayers /\ routing[s][layer] = inputs
  <2>1. h \in 0 .. MaxDepth /\ h + 1 <= NLayers /\ e \in Full[h] /\ MaxDepth \in Nat /\ NLayers \in Nat
    BY ProgramsAssumption, HardwareAssumption DEF Routable
  <2>2. layer \in 0 .. NLayers /\ layer \in -1 .. h - 1
    BY <2>1
  <2>3. layer \in DOMAIN nodes
    BY <2>1, <2>2, NodesFull
  <2> HIDE DEF nodes
  <2>4. LayerRouting(e)[layer] = Inputs(nodes, layer)
    BY <2>2, <2>3 DEF LayerRouting, nodes
  <2>. QED
    BY <2>2, <2>4
<1>1. /\ \A l \in 1 .. Len(q) : \A n \in 1 .. Len(Operands(q[l])) :
            /\ P(l, n) \in 1 .. Len(inputs) /\ P(l, n) \in 1 .. Len(nodes[layer - 1])
            /\ inputs[P(l, n)] = [from |-> Mapping(nodes, layer - 1, P(l, n)), to |-> M(l)]
            /\ nodes[layer - 1][P(l, n)] = Operands(q[l])[n]
      /\ \A x \in 1 .. Len(inputs) :
            \E l \in 1 .. Len(q) : \E n \in 1 .. Len(Operands(q[l])) : x = P(l, n)
  <2>1. InputPlaces(nodes, layer)
    BY InputsPlaced
  <2> HIDE DEF nodes
  <2>. QED
    BY <2>1 DEF InputPlaces
<1>2. \A l \in 1 .. Len(q) : \A n \in 1 .. Len(Operands(q[l])) :
         n \in {1, 2} /\ IdxOut(inputs, P(l, n)) = n - 1
  <2>1. InputsNumbered(nodes, layer)
    BY OperandNumber
  <2> HIDE DEF nodes
  <2>. QED
    BY <2>1 DEF InputsNumbered
<1>3. \A l \in 1 .. Len(q) : M(k) = M(l) => k = l
  BY UnitsApart
<1>4. /\ i \in 1 .. Len(inputs) /\ i \in 1 .. Len(nodes[layer - 1])
      /\ inputs[i].from = Mapping(nodes, layer - 1, i) /\ inputs[i].to = M(k)
      /\ nodes[layer - 1][i] = Operands(q[k])[j]
      /\ IdxOut(inputs, i) = j - 1 /\ j \in {1, 2}
  <2>1. /\ i \in 1 .. Len(inputs) /\ i \in 1 .. Len(nodes[layer - 1])
        /\ inputs[i] = [from |-> Mapping(nodes, layer - 1, i), to |-> M(k)]
        /\ nodes[layer - 1][i] = Operands(q[k])[j]
    BY <1>1
  <2>2. IdxOut(inputs, i) = j - 1 /\ j \in {1, 2}
    BY <1>2
  <2> HIDE DEF inputs, i, q, M
  <2>. QED
    BY <2>1, <2>2
<1>5. \A x \in 1 .. Len(inputs) : IdxOut(inputs, x) \in {0, 1}
  <2> SUFFICES ASSUME NEW x \in 1 .. Len(inputs) PROVE IdxOut(inputs, x) \in {0, 1}
    OBVIOUS
  <2>1. PICK l \in 1 .. Len(q) : \E n \in 1 .. Len(Operands(q[l])) : x = P(l, n)
    BY <1>1
  <2>2. PICK n \in 1 .. Len(Operands(q[l])) : x = P(l, n)
    BY <2>1
  <2>3. n \in {1, 2} /\ IdxOut(inputs, x) = n - 1
    BY <1>2, <2>2
  <2>. QED
    BY <2>3
<1>6. ASSUME NEW x \in Picked PROVE x = i
  <2>1. x \in 1 .. Len(inputs) /\ inputs[x].to = M(k) /\ IdxOut(inputs, x) = j - 1
    OBVIOUS
  <2>2. PICK l \in 1 .. Len(q) : \E n \in 1 .. Len(Operands(q[l])) : x = P(l, n)
    BY <1>1, <2>1
  <2>3. PICK n \in 1 .. Len(Operands(q[l])) : x = P(l, n)
    BY <2>2
  <2>4. l = k
    <3>1. inputs[x] = [from |-> Mapping(nodes, layer - 1, x), to |-> M(l)]
      BY <1>1, <2>3
    <3>2. inputs[x].to = M(l)
      <4> HIDE DEF inputs, M
      <4>. QED
        BY <3>1
    <3>. QED
      BY <1>3, <2>1, <3>2
  <2>5. n = j
    <3>1. n - 1 = j - 1 /\ n \in {1, 2}
      BY <1>2, <2>1, <2>3
    <3>. QED
      BY <1>4, <3>1
  <2>. QED
    BY <2>3, <2>4, <2>5
<1>7. Drivers(s, layer, M(k), j - 1) = {inputs[x].from : x \in Picked}
  <2> DEFINE unit == M(k)
             idx == j - 1
  <2> HIDE DEF unit, idx, inputs
  <2>2. Drivers(s, layer, unit, idx) = SourcesOf(inputs, unit, idx)
    BY <1>0, <1>5, DriversRead
  <2>. QED
    BY <2>2 DEF SourcesOf, unit, idx
<1>8. Picked = {i}
  BY <1>4, <1>6
<1> HIDE DEF Picked, i, inputs, nodes, q, M
<1>9. Drivers(s, layer, M(k), j - 1) = {Mapping(nodes, layer - 1, i)}
  BY <1>4, <1>7, <1>8
<1>. QED
  BY <1>4, <1>9 DEF M, i, P, q, nodes, OperandDriven

(* Above the tree each layer passes on what the layer below gives.         *)
LEMMA PassDrivers ==
    ASSUME CellsWide, OutInv, NEW s \in 1 .. written, NEW h, NEW e, Routable(h, e),
           routing[s] = LayerRouting(e), NEW layer \in h .. NLayers
    PROVE  Drivers(s, layer, FirstUnit(layer, "pass"), 0)
              = {IF layer = h THEN Mapping(Nodes(e), h - 1, 1) ELSE FirstUnit(layer - 1, "pass")}
<1> DEFINE nodes == Nodes(e)
           from == IF layer = h THEN Mapping(Nodes(e), h - 1, 1) ELSE FirstUnit(layer - 1, "pass")
           to == FirstUnit(layer, "pass")
           inputs == PassOn(nodes, layer)
<1>0. layer \in 0 .. NLayers /\ inputs = <<[from |-> from, to |-> to]>>
  BY PassOnLink
<1>1. routing[s][layer] = inputs
  <2>1. h \in 0 .. MaxDepth /\ e \in Full[h] /\ MaxDepth \in Nat /\ NLayers \in Nat
    BY ProgramsAssumption, HardwareAssumption DEF Routable
  <2>2. DOMAIN nodes = -1 .. h - 1
    BY <2>1, NodesFull
  <2>3. layer \notin DOMAIN nodes
    BY <2>1, <2>2
  <2> HIDE DEF nodes, inputs
  <2>4. LayerRouting(e)[layer] = PassOn(nodes, layer)
    BY <1>0, <2>3 DEF LayerRouting, nodes
  <2>. QED
    BY <2>4 DEF inputs
<1> HIDE DEF from, to, inputs
<1>2. /\ 1 .. Len(inputs) = {1} /\ inputs[1].from = from /\ inputs[1].to = to
  BY <1>0
<1>3. IdxOut(inputs, 1) = 0
  <2>1. {j \in 1 .. 1 - 1 : inputs[j].to = inputs[1].to} = {}
    OBVIOUS
  <2>. QED
    BY <2>1, FS_EmptySet DEF IdxOut
<1>4. \A k \in 1 .. Len(inputs) : IdxOut(inputs, k) \in {0, 1}
  BY <1>2, <1>3
<1> DEFINE Picked == {k \in 1 .. Len(inputs) : inputs[k].to = to /\ IdxOut(inputs, k) = 0}
<1>5. Drivers(s, layer, to, 0) = {inputs[k].from : k \in Picked}
  <2>0. layer \in 0 .. NLayers /\ inputs = routing[s][layer]
    BY <1>0, <1>1
  <2>1. Drivers(s, layer, to, 0) = SourcesOf(inputs, to, 0)
    BY <1>4, <2>0, DriversRead
  <2>. QED
    BY <2>1 DEF SourcesOf
<1>6. Picked = {1}
  BY <1>2, <1>3
<1> HIDE DEF Picked
<1>7. Drivers(s, layer, to, 0) = {from}
  BY <1>2, <1>5, <1>6
<1>. QED
  BY <1>7 DEF from, to

-----------------------------------------------------------------------------
(* What the units compute.                                                 *)

(* What the sources of an operand give.                                    *)
Operand(s, layer, below, unit, idx) ==
    UNION {below[from] : from \in Drivers(s, layer, unit, idx)}

(* What a unit of a kind gives, whose operands give the sets xs and ys.    *)
UnitOutput(kind, xs, ys) ==
    CASE kind = "pass"  -> xs
      [] kind = "plus"  -> {a + b : a \in xs, b \in ys}
      [] kind = "minus" -> {a - b : a \in xs, b \in ys}
      [] kind = "times" -> {a * b : a \in xs, b \in ys}

(* What the units of a layer give, over what those below it give.          *)
LayerOutputs(s, env, layer, below) ==
    [unit \in 0 .. MaxFuncUnits - 1 |->
        IF layer = -1 THEN Contents(unit, env)
        ELSE UnitOutput(KindOf(layer, unit), Operand(s, layer, below, unit, 0),
                        Operand(s, layer, below, unit, 1))]

(* What all layers give.                                                   *)
Outputs(s, env, f) ==
    f = [layer \in -1 .. NLayers |-> LayerOutputs(s, env, layer, f[layer - 1])]

(* Computed is what it is defined to be: there is a function with its      *)
(* equation.                                                               *)
LEMMA ComputedUnfold ==
    ASSUME NEW s, NEW env
    PROVE  \E f : /\ Outputs(s, env, f)
                  /\ Computed(s, env) = f[NLayers][FirstUnit(NLayers, "pass")]
<1>0. NLayers \in Nat
  BY HardwareAssumption
<1> DEFINE L(layer, below) == LayerOutputs(s, env, layer, below)
           Upto(f, n) == /\ DOMAIN f = -1 .. n - 1
                         /\ \A layer \in -1 .. n - 1 : f[layer] = L(layer, f[layer - 1])
           T == {n \in 0 .. NLayers + 1 : \E f : Upto(f, n)}
<1>1. \A x, y : L(-1, x) = L(-1, y)
  <2> SUFFICES ASSUME NEW x, NEW y PROVE L(-1, x) = L(-1, y)
    OBVIOUS
  <2>1. L(-1, x) = [unit \in 0 .. MaxFuncUnits - 1 |-> Contents(unit, env)]
    BY DEF LayerOutputs
  <2>2. L(-1, y) = [unit \in 0 .. MaxFuncUnits - 1 |-> Contents(unit, env)]
    BY DEF LayerOutputs
  <2>. QED
    BY <2>1, <2>2
<1>7. Computed(s, env) = (CHOOSE f : Outputs(s, env, f))[NLayers][FirstUnit(NLayers, "pass")]
  BY DEF Computed, Outputs, LayerOutputs, UnitOutput, Operand
<1> HIDE DEF L
<1>2. 0 \in T
  <2> DEFINE f == [layer \in -1 .. 0 - 1 |-> L(-1, <<>>)]
  <2>1. \A layer \in -1 .. 0 - 1 : f[layer] = L(layer, f[layer - 1])
    BY <1>1
  <2>2. Upto(f, 0)
    BY <2>1
  <2> HIDE DEF Upto, f
  <2>. QED
    BY <1>0, <2>2
<1>3. ASSUME NEW n \in 0 .. (NLayers + 1) - 1, n \in T PROVE n + 1 \in T
  <2>0. n \in Nat /\ n + 1 \in 0 .. NLayers + 1 /\ (n + 1) - 1 = n
    BY <1>0
  <2>1. PICK f : Upto(f, n)
    BY <1>3
  <2> DEFINE g == [layer \in -1 .. n |-> IF layer = n THEN L(n, f[n - 1]) ELSE f[layer]]
  <2>2. ASSUME NEW layer \in -1 .. n PROVE g[layer] = L(layer, g[layer - 1])
    <3>1. CASE layer = -1
      <4>1. layer \in -1 .. n - 1 /\ layer # n
        BY <2>0, <3>1
      <4>2. g[layer] = L(layer, f[layer - 1])
        BY <2>1, <4>1
      <4>. QED
        BY <1>1, <3>1, <4>2
    <3>2. CASE layer # -1
      <4>1. layer - 1 \in -1 .. n /\ layer - 1 # n /\ layer - 1 \in -1 .. n - 1
        BY <2>0, <3>2
      <4>2. g[layer - 1] = f[layer - 1]
        BY <4>1
      <4>3. CASE layer = n
        BY <4>2, <4>3
      <4>4. CASE layer # n
        <5>1. layer \in -1 .. n - 1
          BY <2>0, <4>4
        <5>. QED
          BY <2>1, <4>2, <4>4, <5>1
      <4>. QED
        BY <4>3, <4>4
    <3>. QED
      BY <3>1, <3>2
  <2>3. Upto(g, n + 1)
    <3>1. DOMAIN g = -1 .. (n + 1) - 1
      BY <2>0
    <3>2. \A layer \in -1 .. (n + 1) - 1 : g[layer] = L(layer, g[layer - 1])
      BY <2>0, <2>2
    <3> HIDE DEF g
    <3>. QED
      BY <3>1, <3>2
  <2> HIDE DEF Upto, g
  <2>. QED
    BY <2>0, <2>3
<1>4. NLayers + 1 \in T
  <2> HIDE DEF T
  <2>1. NLayers + 1 \in Nat /\ NLayers + 1 \in 0 .. NLayers + 1
    BY <1>0
  <2>. QED
    BY <1>2, <1>3, <2>1, BoundedInduction
<1>5. PICK f : Upto(f, NLayers + 1)
  BY <1>4
<1>6. Outputs(s, env, f) \/ \E g : Outputs(s, env, g)
  <2>1. -1 .. (NLayers + 1) - 1 = -1 .. NLayers
    BY <1>0
  <2> DEFINE g == [layer \in -1 .. NLayers |-> f[layer]]
  <2>2. \A layer \in -1 .. NLayers : g[layer] = L(layer, g[layer - 1])
    <3> SUFFICES ASSUME NEW layer \in -1 .. NLayers PROVE g[layer] = L(layer, g[layer - 1])
      OBVIOUS
    <3>1. g[layer] = L(layer, f[layer - 1])
      BY <1>5, <2>1
    <3>2. CASE layer = -1
      BY <1>1, <3>1, <3>2
    <3>3. CASE layer # -1
      <4>1. layer - 1 \in -1 .. NLayers
        BY <1>0, <3>3
      <4>. QED
        BY <3>1, <4>1
    <3>. QED
      BY <3>2, <3>3
  <2>3. g = [layer \in -1 .. NLayers |-> L(layer, g[layer - 1])]
    <3>1. g = [layer \in -1 .. NLayers |-> g[layer]]
      OBVIOUS
    <3> HIDE DEF g
    <3>. QED
      BY <2>2, <3>1
  <2> HIDE DEF g
  <2>4. Outputs(s, env, g)
    BY <2>3 DEF Outputs, L
  <2>. QED
    BY <2>4
<1> DEFINE F == CHOOSE f_ : Outputs(s, env, f_)
<1>8. Outputs(s, env, F)
  BY <1>6
<1>9. Computed(s, env) = F[NLayers][FirstUnit(NLayers, "pass")]
  BY <1>7
<1> HIDE DEF F
<1>. QED
  BY <1>8, <1>9

(* The registers give their contents.                                      *)
LEMMA RegisterOutputs ==
    ASSUME NEW s, NEW env, NEW f, Outputs(s, env, f), NEW r \in 0 .. MaxFuncUnits - 1
    PROVE  f[-1][r] = Contents(r, env)
<1>1. -1 \in -1 .. NLayers
  BY HardwareAssumption
<1>2. f[-1] = LayerOutputs(s, env, -1, f[-1 - 1])
  BY <1>1 DEF Outputs
<1>. QED
  BY <1>2 DEF LayerOutputs

(* A set of which v is the only element.                                   *)
Only(S, v) == S = {v}

(* A pass-through each of whose operands has one source gives what that    *)
(* source gives;                                                           *)
LEMMA PassOutput ==
    ASSUME NEW s, NEW env, NEW f, Outputs(s, env, f),
           NEW layer \in 0 .. NLayers, NEW unit \in 0 .. MaxFuncUnits - 1,
           NEW below, below = f[layer - 1],
           NEW a, Only(Drivers(s, layer, unit, 0), a), NEW v, Only(below[a], v),
           KindOf(layer, unit) = "pass"
    PROVE  Only(f[layer][unit], v)
<1> DEFINE xs == Operand(s, layer, below, unit, 0)
           ys == Operand(s, layer, below, unit, 1)
<1>1. f[layer] = LayerOutputs(s, env, layer, below)
  <2>1. layer \in -1 .. NLayers
    BY HardwareAssumption
  <2>. QED
    BY <2>1 DEF Outputs
<1>2. layer # -1
  OBVIOUS
<1>3. f[layer][unit] = UnitOutput("pass", xs, ys)
  BY <1>1, <1>2 DEF LayerOutputs
<1>4. xs = {v}
  BY DEF Operand, Only
<1> HIDE DEF xs, ys
<1>. QED
  BY <1>3, <1>4 DEF UnitOutput, Only

(* a unit that adds, subtracts or multiplies applies its operator to what  *)
(* its two sources give.                                                   *)
LEMMA OperatorOutput ==
    ASSUME NEW s, NEW env, NEW f, Outputs(s, env, f),
           NEW layer \in 0 .. NLayers, NEW unit \in 0 .. MaxFuncUnits - 1,
           NEW below, below = f[layer - 1],
           NEW a, Only(Drivers(s, layer, unit, 0), a), NEW v, Only(below[a], v),
           NEW b, Only(Drivers(s, layer, unit, 1), b), NEW w, Only(below[b], w)
    PROVE  /\ KindOf(layer, unit) = "plus" => Only(f[layer][unit], v + w)
           /\ KindOf(layer, unit) = "minus" => Only(f[layer][unit], v - w)
           /\ KindOf(layer, unit) = "times" => Only(f[layer][unit], v * w)
<1> DEFINE xs == Operand(s, layer, below, unit, 0)
           ys == Operand(s, layer, below, unit, 1)
           kind == KindOf(layer, unit)
<1>1. f[layer] = LayerOutputs(s, env, layer, below)
  <2>1. layer \in -1 .. NLayers
    BY HardwareAssumption
  <2>. QED
    BY <2>1 DEF Outputs
<1>2. layer # -1
  OBVIOUS
<1>3. f[layer][unit] = UnitOutput(kind, xs, ys)
  BY <1>1, <1>2 DEF LayerOutputs
<1>4. xs = {v} /\ ys = {w}
  BY DEF Operand, Only
<1> HIDE DEF xs, ys, kind
<1>5. /\ kind = "plus" => f[layer][unit] = {v + w}
      /\ kind = "minus" => f[layer][unit] = {v - w}
      /\ kind = "times" => f[layer][unit] = {v * w}
  BY <1>3, <1>4 DEF UnitOutput
<1>. QED
  BY <1>5 DEF kind, Only

(* The unit of a node gives the value of the node.                         *)
LayerRight(f, env, e, layer) ==
    \A k \in 1 .. Len(Nodes(e)[layer]) :
       f[layer][Mapping(Nodes(e), layer, k)] = {Value(Nodes(e)[layer][k], env)}

(* It does in the registers,                                               *)
LEMMA RegistersRight ==
    ASSUME NEW s, NEW env, NEW f, Outputs(s, env, f), NEW h, NEW e, Routable(h, e)
    PROVE  LayerRight(f, env, e, -1)
<1> DEFINE nodes == Nodes(e)
           q == nodes[-1]
<1>0. -1 \in -1 .. h - 1
  BY ProgramsAssumption DEF Routable
<1> SUFFICES ASSUME NEW k \in 1 .. Len(q)
             PROVE  f[-1][Mapping(nodes, -1, k)] = {Value(q[k], env)}
  BY DEF LayerRight
<1>1. /\ q[k] \in Leaves
      /\ q[k].tag = "int" => Among(q[k].num, literals)
      /\ Mapping(nodes, -1, k) = Register(q[k])
  BY LeafMapped
<1>2. Mapping(nodes, -1, k) \in 0 .. MaxFuncUnits - 1
  BY <1>0, MappingBound
<1> DEFINE x == q[k]
           r == Mapping(nodes, -1, k)
<1>3. x \in Leaves /\ (x.tag = "int" => Among(x.num, literals)) /\ r = Register(x)
      /\ r \in 0 .. MaxFuncUnits - 1
  BY <1>1, <1>2
<1> HIDE DEF x, r
<1>4. f[-1][r] = Contents(Register(x), env)
  BY <1>3, RegisterOutputs
<1>5. CheckMeetHardwareConstaints(literals) /\ literals \in Seq(Int)
  BY DEF Routable
<1>6. Contents(Register(x), env) = {Value(x, env)}
  BY <1>3, <1>5, ContentsExact
<1>. QED
  BY <1>4, <1>6 DEF x, r

(* and in each layer of the tree, if it does in the layer below.           *)
LEMMA LayerStep ==
    ASSUME CellsWide, OutInv, NEW s \in 1 .. written, NEW h, NEW e, Routable(h, e),
           routing[s] = LayerRouting(e),
           NEW env \in Values, NEW f, Outputs(s, env, f),
           NEW layer \in 0 .. h - 1, LayerRight(f, env, e, layer - 1)
    PROVE  LayerRight(f, env, e, layer)
<1> DEFINE nodes == Nodes(e)
           q == nodes[layer]
<1> SUFFICES ASSUME NEW k \in 1 .. Len(q)
             PROVE  f[layer][Mapping(nodes, layer, k)] = {Value(q[k], env)}
  BY DEF LayerRight
<1> DEFINE node == q[k]
           unit == Mapping(nodes, layer, k)
           P(j) == OperandPlace(q, k, j)
           S(j) == Mapping(nodes, layer - 1, P(j))
<1>0. /\ layer \in 0 .. NLayers /\ layer \in -1 .. h - 1
      /\ layer + 1 \in 0 .. MaxDepth /\ layer + 1 > 0 /\ (layer + 1) - 1 = layer
      /\ node \in Full[layer + 1]
  <2>1. h \in 0 .. MaxDepth /\ h + 1 <= NLayers /\ e \in Full[h] /\ MaxDepth \in Nat /\ NLayers \in Nat
    BY ProgramsAssumption, HardwareAssumption DEF Routable
  <2>2. /\ layer \in 0 .. NLayers /\ layer \in -1 .. h - 1 /\ layer + 1 \in 0 .. MaxDepth
        /\ layer + 1 > 0 /\ (layer + 1) - 1 = layer
    BY <2>1
  <2>3. q \in Seq(Full[layer + 1])
    BY <2>1, <2>2, NodesFull
  <2> HIDE DEF q
  <2>. QED
    BY <2>2, <2>3
<1>1. unit \in 0 .. MaxFuncUnits - 1 /\ KindOf(layer, unit) = node.tag
  <2>1. unit \in 0 .. MaxFuncUnits - 1
    BY <1>0, MappingBound
  <2>2. \A l \in 1 .. Len(q) : KindOf(layer, Mapping(nodes, layer, l)) = q[l].tag
    BY UnitsApart
  <2>3. KindOf(layer, unit) = node.tag
    BY <2>2
  <2>. QED
    BY <2>1, <2>3
<1>2. ASSUME NEW j \in 1 .. Len(Operands(node))
      PROVE  /\ Drivers(s, layer, unit, j - 1) = {S(j)}
             /\ f[layer - 1][S(j)] = {Value(Operands(node)[j], env)}
  <2>1. /\ P(j) \in 1 .. Len(nodes[layer - 1])
        /\ nodes[layer - 1][P(j)] = Operands(node)[j]
        /\ Drivers(s, layer, unit, j - 1) = {S(j)}
    <3>1. k \in 1 .. Len(Nodes(e)[layer]) /\ j \in 1 .. Len(Operands(Nodes(e)[layer][k]))
      OBVIOUS
    <3>2. OperandDriven(s, nodes, layer, k, j)
      BY <3>1, LayerDrivers
    <3> HIDE DEF nodes
    <3>. QED
      BY <3>2 DEF OperandDriven
  <2>2. f[layer - 1][S(j)] = {Value(nodes[layer - 1][P(j)], env)}
    BY <2>1 DEF LayerRight
  <2>. QED
    BY <2>1, <2>2
<1>4. /\ node \in Expr /\ ~IsLeaf(node)
      /\ \/ node.tag \in {"plus", "times", "minus"}
         \/ node.tag = "pass"
  <2> DEFINE g == layer + 1
  <2>1. g \in 0 .. MaxDepth /\ g > 0 /\ node \in Full[g] /\ g # 0
    BY <1>0
  <2> HIDE DEF node, g
  <2>. QED
    BY <2>1, FullFacts
<1>5. ValueSteps(env, node)
  BY <1>4, ValueByStep
<1> DEFINE below == f[layer - 1]
           D(j) == Drivers(s, layer, unit, j - 1)
           G(j) == below[S(j)]
           V(j) == Value(Operands(node)[j], env)
<1>10. \A j \in 1 .. Len(Operands(node)) : Only(D(j), S(j)) /\ Only(G(j), V(j))
  BY <1>2 DEF Only
<1>9. below = f[layer - 1]
  OBVIOUS
<1>11. layer \in 0 .. NLayers /\ unit \in 0 .. MaxFuncUnits - 1
  BY <1>0, <1>1
<1> HIDE DEF node, unit, S, below
<1>6. CASE node.tag = "pass"
  <2>1. Operands(node) = <<node.l>>
    BY <1>4, <1>6 DEF Operands
  <2>2. 1 \in 1 .. Len(Operands(node)) /\ Operands(node)[1] = node.l
    BY <2>1
  <2> DEFINE v == Value(node.l, env)
             a == S(1)
  <2>3. Only(Drivers(s, layer, unit, 0), a) /\ Only(below[a], v)
    <3>1. Only(D(1), S(1)) /\ Only(G(1), V(1))
      <4> HIDE DEF D, G, V
      <4>. QED
        BY <1>10, <2>2
    <3>2. D(1) = Drivers(s, layer, unit, 0) /\ V(1) = v
      BY <2>2
    <3> HIDE DEF D, V, v
    <3>. QED
      BY <3>1, <3>2
  <2> HIDE DEF a, v
  <2>4. Only(f[layer][unit], v)
    <3>1. KindOf(layer, unit) = "pass"
      BY <1>1, <1>6
    <3> HIDE DEF D, G, V, P
    <3>. QED
      BY <1>9, <1>11, <2>3, <3>1, PassOutput
  <2>5. Value(node, env) = Value(node.l, env)
    BY <1>4, <1>6, ValueType
  <2>. QED
    BY <2>4, <2>5 DEF node, unit, v, Only
<1>7. CASE node.tag \in {"plus", "times", "minus"}
  <2>1. Operands(node) = <<node.l, node.r>>
    BY <1>4, <1>7 DEF Operands
  <2>2. /\ 1 \in 1 .. Len(Operands(node)) /\ Operands(node)[1] = node.l
        /\ 2 \in 1 .. Len(Operands(node)) /\ Operands(node)[2] = node.r
    BY <2>1
  <2> DEFINE v == Value(node.l, env)
             w == Value(node.r, env)
             a == S(1)
             b == S(2)
  <2>3. /\ Only(Drivers(s, layer, unit, 0), a) /\ Only(below[a], v)
        /\ Only(Drivers(s, layer, unit, 1), b) /\ Only(below[b], w)
    <3>1. /\ Only(D(1), S(1)) /\ Only(G(1), V(1))
          /\ Only(D(2), S(2)) /\ Only(G(2), V(2))
      <4> HIDE DEF D, G, V
      <4>. QED
        BY <1>10, <2>2
    <3>2. /\ D(1) = Drivers(s, layer, unit, 0) /\ V(1) = v
          /\ D(2) = Drivers(s, layer, unit, 1) /\ V(2) = w
      BY <2>2
    <3> HIDE DEF D, V, v, w
    <3>. QED
      BY <3>1, <3>2
  <2> HIDE DEF v, w, a, b
  <2>4. /\ node.tag = "plus" => Only(f[layer][unit], v + w)
        /\ node.tag = "minus" => Only(f[layer][unit], v - w)
        /\ node.tag = "times" => Only(f[layer][unit], v * w)
    <3>1. /\ KindOf(layer, unit) = "plus" => Only(f[layer][unit], v + w)
          /\ KindOf(layer, unit) = "minus" => Only(f[layer][unit], v - w)
          /\ KindOf(layer, unit) = "times" => Only(f[layer][unit], v * w)
      <4> HIDE DEF D, G, V, P
      <4>. QED
        BY <1>9, <1>11, <2>3, OperatorOutput
    <3>. QED
      BY <1>1, <3>1, Zenon
  <2>5. /\ node.tag = "plus" => Value(node, env) = v + w
        /\ node.tag = "minus" => Value(node, env) = v - w
        /\ node.tag = "times" => Value(node, env) = v * w
    BY <1>4, <1>5, Zenon DEF ValueSteps, v, w
  <2>6. Only(f[layer][unit], Value(node, env))
    <3>1. CASE node.tag = "plus"
      BY <2>4, <2>5, <3>1, Zenon
    <3>2. CASE node.tag = "minus"
      BY <2>4, <2>5, <3>2, Zenon
    <3>3. CASE node.tag = "times"
      BY <2>4, <2>5, <3>3, Zenon
    <3>. QED
      BY <1>7, <3>1, <3>2, <3>3
  <2>. QED
    BY <2>6 DEF node, unit, Only
<1>. QED
  BY <1>4, <1>6, <1>7 DEF node, unit

(* So the unit of every node of the tree gives the node's value,           *)
LEMMA TreeRight ==
    ASSUME CellsWide, OutInv, NEW s \in 1 .. written, NEW h, NEW e, Routable(h, e),
           routing[s] = LayerRouting(e),
           NEW env \in Values, NEW f, Outputs(s, env, f)
    PROVE  LayerRight(f, env, e, h - 1)
<1>0. h \in Nat
  BY ProgramsAssumption DEF Routable
<1> DEFINE T == {n \in 0 .. h : LayerRight(f, env, e, n - 1)}
<1>1. 0 \in T
  <2>1. LayerRight(f, env, e, -1)
    BY RegistersRight
  <2>2. 0 - 1 = -1 /\ 0 \in 0 .. h
    BY <1>0
  <2>. QED
    BY <2>1, <2>2
<1>2. ASSUME NEW n \in 0 .. h - 1, n \in T PROVE n + 1 \in T
  <2>1. LayerRight(f, env, e, n - 1)
    BY <1>2
  <2>2. LayerRight(f, env, e, n)
    BY <2>1, LayerStep
  <2>3. (n + 1) - 1 = n /\ n + 1 \in 0 .. h
    BY <1>0
  <2>. QED
    BY <2>2, <2>3
<1>3. h \in T
  <2>1. h \in 0 .. h
    BY <1>0
  <2> HIDE DEF T
  <2>. QED
    BY <1>0, <1>1, <1>2, <2>1, BoundedInduction
<1>. QED
  BY <1>3

(* and the layers above pass the tree's value on, to the last one.         *)
LEMMA PassRight ==
    ASSUME CellsWide, OutInv, NEW s \in 1 .. written, NEW h, NEW e, Routable(h, e),
           routing[s] = LayerRouting(e),
           NEW env \in Values, NEW f, Outputs(s, env, f)
    PROVE  f[NLayers][FirstUnit(NLayers, "pass")] = {Value(e, env)}
<1> DEFINE v == Value(e, env)
           top == Mapping(Nodes(e), h - 1, 1)
           F(layer) == FirstUnit(layer, "pass")
           T == {n \in 0 .. NLayers - h : Only(f[h + n][F(h + n)], v)}
<1>0. /\ h \in Nat /\ NLayers \in Nat /\ h + 1 <= NLayers /\ h \in 0 .. MaxDepth
      /\ e \in Full[h]
  BY ProgramsAssumption, HardwareAssumption DEF Routable
<1>1. ASSUME NEW layer \in h .. NLayers,
             NEW a, NEW below, below = f[layer - 1], Only(below[a], v),
             a = IF layer = h THEN top ELSE F(layer - 1)
      PROVE  Only(f[layer][F(layer)], v)
  <2>1. /\ layer \in 0 .. NLayers /\ Layers[layer].pass > 0
        /\ F(layer) \in 0 .. MaxFuncUnits - 1
    BY PassOnLink
  <2>2. Only(Drivers(s, layer, F(layer), 0), a)
    BY <1>1, PassDrivers DEF Only
  <2>3. KindOf(layer, F(layer)) = "pass"
    <3>1. "pass" \in Kinds /\ F(layer) \in Nat /\ Layers[layer]["pass"] \in Nat
      BY <2>1, LayerUnits DEF Kinds
    <3>2. F(layer) < F(layer) + Layers[layer]["pass"]
      BY <2>1, <3>1
    <3>. QED
      BY <2>1, <3>1, <3>2, KindIs
  <2> DEFINE unit == F(layer)
  <2> HIDE DEF unit, v
  <2>. QED
    BY <1>1, <2>1, <2>2, <2>3, PassOutput DEF unit
<1>2. 0 \in T
  <2>1. Nodes(e)[h - 1] = <<e>>
    BY <1>0, NodesFull
  <2>2. LayerRight(f, env, e, h - 1)
    BY TreeRight
  <2>3. f[h - 1][top] = {v}
    BY <2>1, <2>2 DEF LayerRight
  <2>4. Only(f[h - 1][top], v)
    BY <2>3 DEF Only
  <2>5. h \in h .. NLayers /\ h + 0 = h /\ 0 \in 0 .. NLayers - h
    BY <1>0
  <2>6. Only(f[h][F(h)], v)
    <3> HIDE DEF v, F, top
    <3>. QED
      BY <1>1, <2>4, <2>5
  <2>. QED
    BY <2>5, <2>6
<1>3. ASSUME NEW n \in 0 .. (NLayers - h) - 1, n \in T PROVE n + 1 \in T
  <2>1. /\ h + (n + 1) \in h .. NLayers /\ h + (n + 1) # h
        /\ (h + (n + 1)) - 1 = h + n /\ n + 1 \in 0 .. NLayers - h
    BY <1>0
  <2>2. Only(f[h + n][F(h + n)], v)
    BY <1>3
  <2> DEFINE layer == h + (n + 1)
             below == h + n
  <2>3. layer \in h .. NLayers /\ layer # h /\ layer - 1 = below /\ Only(f[below][F(below)], v)
    BY <2>1, <2>2
  <2>4. Only(f[layer][F(layer)], v)
    <3> HIDE DEF layer, below, v, F, top
    <3>. QED
      BY <1>1, <2>3
  <2>. QED
    BY <2>1, <2>4
<1>4. NLayers - h \in T
  <2>1. NLayers - h \in Nat /\ NLayers - h \in 0 .. NLayers - h
    BY <1>0
  <2> DEFINE N == NLayers - h
  <2>2. N \in Nat /\ N \in 0 .. N /\ \A n \in 0 .. N - 1 : n \in T => n + 1 \in T
    BY <1>3, <2>1
  <2> HIDE DEF T, N
  <2>3. N \in T
    BY <1>2, <2>2, BoundedInduction
  <2>. QED
    BY <2>3 DEF N
<1>5. h + (NLayers - h) = NLayers
  BY <1>0
<1>6. Only(f[NLayers][F(NLayers)], v)
  BY <1>4, <1>5
<1>. QED
  BY <1>6 DEF Only

-----------------------------------------------------------------------------
(* The address unit computes what the OUT statement says: for every        *)
(* program, every hardware and every assignment of values to the names,    *)
(* what leaves the last layer, when the cells of a statement are written,  *)
(* is the value of the statement's expression as it was parsed.  Two       *)
(* operands never drive one input and no connection is lost, whatever the  *)
(* shapes of the trees the statements share the units with.                *)
THEOREM ComputesTheProgram == CellsWide => (OutSpec => []ComputesProgram)
<1>1. CellsWide /\ OutInv => ComputesProgram
  <2> SUFFICES ASSUME CellsWide, OutInv, NEW s \in 1 .. written, NEW env \in Values
               PROVE  Computed(s, env) = {Value(program[s], env)}
    BY DEF ComputesProgram
  <2> DEFINE e == trees[s]
             h == GetMaxDepth[program[s]]
  <2>1. OutStages /\ Allocated /\ s \in 1 .. Len(trees)
    <3>1. OutStages /\ trees \in Seq(Expr)
      BY StagesLength DEF OutInv
    <3>2. written \in 0 .. Len(trees) /\ (~Allocated => written = 0)
      BY <3>1 DEF OutStages
    <3> DEFINE n == Len(trees)
    <3>3. n \in Nat
      BY <3>1
    <3> HIDE DEF n
    <3>4. written \in 0 .. n
      BY <3>2 DEF n
    <3>5. written # 0 /\ s \in 1 .. n
      BY <3>3, <3>4
    <3>. QED
      BY <3>1, <3>2, <3>5 DEF n
  <2>2. \A t \in DOMAIN trees : AllocationFits(trees[t])
    BY <2>1 DEF OutStages
  <2>3. /\ program[s] \in Expr /\ e = Levelled(program[s]) /\ Routable(h, e)
    BY <2>1, <2>2, TreesRoutable
  <2>4. routing[s] = LayerRouting(e)
    <3>1. s \in DOMAIN trees
      BY <2>1, StagesLength
    <3>2. routing = [t \in DOMAIN trees |-> LayerRouting(trees[t])]
      BY <2>1 DEF OutStages
    <3>. QED
      BY <3>1, <3>2
  <2>5. Value(e, env) = Value(program[s], env)
    <3>1. h \in 0 .. MaxDepth /\ program[s] \in Exprs[h]
      BY <2>3, DepthIsHeight
    <3>2. e = Transform[h][program[s]]
      BY <2>3 DEF Levelled
    <3> HIDE DEF e, h
    <3>. QED
      BY <3>1, <3>2, TransformKeepsValue
  <2> HIDE DEF e, h
  <2>6. PICK f : /\ Outputs(s, env, f)
                 /\ Computed(s, env) = f[NLayers][FirstUnit(NLayers, "pass")]
    BY ComputedUnfold
  <2>7. f[NLayers][FirstUnit(NLayers, "pass")] = {Value(e, env)}
    BY <2>3, <2>4, <2>6, PassRight
  <2>. QED
    BY <2>5, <2>6, <2>7
<1>2. OutSpec => []OutInv
  BY OutInvariant
<1>3. CASE CellsWide
  <2>1. OutInv => ComputesProgram
    BY <1>1, <1>3
  <2>. QED
    BY <1>2, <2>1, PTL
<1>. QED
  BY <1>3
=============================================================================
