-------------------------- MODULE OutStatementProofs --------------------------
(***************************************************************************)
(* Proofs about OutStatement, for every set of programs, stack of layers   *)
(* and geometry of the cells: the transform pass levels every tree         *)
(* (TreesAreLevelled), a program that passed the check of the hardware     *)
(* gets its units (CheckSuffices), and no two connections are written to   *)
(* the same cell (CellsAreNeverShared).                                    *)
(*                                                                         *)
(* The invariant is OutInv.  OutStages says what each stage of the         *)
(* compiler has established: the check passed before anything was          *)
(* allocated, and what is allocated fits.  From it follows RoutingTyped,   *)
(* that all connections are between units there are, which needs that an   *)
(* operand is always at the level below, and a literal always in a         *)
(* register.  From that follows CellsHeld: the connections written so far, *)
(* and no other, are in their cells.  A connection of a source that does   *)
(* not exist, or a layer too many, would write into the cells of another   *)
(* layer or statement.                                                     *)
(*                                                                         *)
(* Trees, the transform pass, the leaves and the levels are recursive      *)
(* functions; each is first shown to satisfy its defining equation         *)
(* (ExprsUnfold, DepthUnfold, and so on), level by level.                  *)
(***************************************************************************)
EXTENDS OutStatement, FiniteSetTheorems, SequenceTheorems, Induction

-----------------------------------------------------------------------------
(* Expression trees.                                                       *)

(* The trees one level higher than the trees below.                        *)
Above(below) == Leaves \cup [tag : {"plus", "times", "minus"}, l : below, r : below]
                       \cup [tag : {"pass"}, l : below, r : {Lit(0)}]

(* The families of trees by height exist, as they are defined level by     *)
(* level.                                                                  *)
LEMMA ExprsUnfold ==
    /\ Exprs[0] = Leaves
    /\ \A h \in 1 .. MaxDepth : Exprs[h] = Above(Exprs[h - 1])
<1> DEFINE Family(f, n) == f = [h \in 0 .. n |-> IF h = 0 THEN Leaves ELSE Above(f[h - 1])]
           T == {n \in 0 .. MaxDepth : \E f : Family(f, n)}
<1>0. MaxDepth \in Nat
  BY ProgramsAssumption
<1>1. 0 \in T
  <2>1. Family([h \in 0 .. 0 |-> Leaves], 0)
    BY <1>0
  <2> HIDE DEF Family
  <2>. QED
    BY <1>0, <2>1
<1>2. ASSUME NEW n \in 0 .. MaxDepth - 1, n \in T PROVE n + 1 \in T
  <2>1. PICK f : Family(f, n)
    BY <1>2
  <2> DEFINE g == [h \in 0 .. n + 1 |-> IF h = n + 1 THEN Above(f[n]) ELSE f[h]]
  <2>2. ASSUME NEW h \in 0 .. n + 1
        PROVE  g[h] = IF h = 0 THEN Leaves ELSE Above(g[h - 1])
    <3>1. CASE h = n + 1
      <4>1. h # 0 /\ h - 1 = n /\ n \in 0 .. n + 1 /\ n # n + 1
        BY <3>1
      <4>. QED
        BY <3>1, <4>1
    <3>2. CASE h # n + 1
      <4>1. h \in 0 .. n
        BY <3>2
      <4>2. f[h] = IF h = 0 THEN Leaves ELSE Above(f[h - 1])
        BY <2>1, <4>1
      <4>3. h # 0 => h - 1 \in 0 .. n + 1 /\ h - 1 # n + 1
        BY <4>1
      <4>. QED
        BY <3>2, <4>1, <4>2, <4>3
    <3>. QED
      BY <3>1, <3>2
  <2>3. Family(g, n + 1)
    <3>1. g = [h \in 0 .. n + 1 |-> g[h]]
      OBVIOUS
    <3> HIDE DEF g
    <3>. QED
      BY <2>2, <3>1
  <2>. QED
    <3> HIDE DEF g, Family
    <3>. QED
      BY <1>0, <2>3
<1>3. \A n \in 0 .. MaxDepth : n \in T
  <2> HIDE DEF T
  <2>. QED
    BY <1>0, <1>1, <1>2, BoundedInduction
<1>4. PICK f : Family(f, MaxDepth)
  BY <1>0, <1>3
<1>5. Exprs = [h \in 0 .. MaxDepth |-> IF h = 0 THEN Leaves ELSE Above(Exprs[h - 1])]
  BY <1>4 DEF Exprs, Above
<1>. QED
  BY <1>0, <1>5

(* A tree of a height is one of every greater height.                      *)
LEMMA ExprsGrow ==
    ASSUME NEW h \in 0 .. MaxDepth, NEW k \in 0 .. MaxDepth, h <= k
    PROVE  Exprs[h] \subseteq Exprs[k]
<1>0. MaxDepth \in Nat
  BY ProgramsAssumption
<1>1. \A n \in 0 .. MaxDepth - 1 : Exprs[n] \subseteq Exprs[n + 1]
  <2> DEFINE T == {n \in 0 .. MaxDepth : n < MaxDepth => Exprs[n] \subseteq Exprs[n + 1]}
  <2>1. 0 \in T
    <3>1. MaxDepth > 0 => 1 \in 1 .. MaxDepth /\ 1 - 1 = 0
      BY <1>0
    <3>. QED
      BY <1>0, <3>1, ExprsUnfold DEF Above
  <2>2. ASSUME NEW n \in 0 .. MaxDepth - 1, n \in T PROVE n + 1 \in T
    <3> SUFFICES ASSUME n + 1 < MaxDepth PROVE Exprs[n + 1] \subseteq Exprs[(n + 1) + 1]
      BY <1>0
    <3>1. /\ n + 1 \in 1 .. MaxDepth /\ (n + 1) - 1 = n
          /\ (n + 1) + 1 \in 1 .. MaxDepth /\ ((n + 1) + 1) - 1 = n + 1
      BY <1>0
    <3>2. Exprs[n + 1] = Above(Exprs[n]) /\ Exprs[(n + 1) + 1] = Above(Exprs[n + 1])
      BY <3>1, ExprsUnfold
    <3>3. Exprs[n] \subseteq Exprs[n + 1]
      BY <1>0, <2>2
    <3>4. \A S, U : S \subseteq U => Above(S) \subseteq Above(U)
      BY DEF Above
    <3>. QED
      BY <3>2, <3>3, <3>4
  <2>3. \A n \in 0 .. MaxDepth : n \in T
    <3> HIDE DEF T
    <3>. QED
      BY <1>0, <2>1, <2>2, BoundedInduction
  <2>. QED
    BY <1>0, <2>3
<1> DEFINE U == {n \in 0 .. MaxDepth - h : Exprs[h] \subseteq Exprs[h + n]}
<1>2. 0 \in U
  BY <1>0
<1>3. ASSUME NEW n \in 0 .. (MaxDepth - h) - 1, n \in U PROVE n + 1 \in U
  <2>1. /\ h + n \in 0 .. MaxDepth - 1 /\ (h + n) + 1 = h + (n + 1)
        /\ n + 1 \in 0 .. MaxDepth - h
    BY <1>0
  <2>2. Exprs[h + n] \subseteq Exprs[h + (n + 1)]
    BY <1>1, <2>1
  <2>. QED
    BY <1>3, <2>1, <2>2
<1>4. \A n \in 0 .. MaxDepth - h : n \in U
  <2>1. MaxDepth - h \in Nat
    BY <1>0
  <2> HIDE DEF U
  <2>. QED
    BY <1>2, <1>3, <2>1, BoundedInduction
<1>5. k - h \in 0 .. MaxDepth - h /\ h + (k - h) = k
  BY <1>0
<1>6. k - h \in U
  BY <1>4, <1>5
<1>. QED
  BY <1>5, <1>6

(* A leaf, or an operator over two trees of the height below.              *)
LEMMA ExprCases ==
    ASSUME NEW h \in 0 .. MaxDepth, NEW e \in Exprs[h]
    PROVE  \/ e \in Leaves /\ IsLeaf(e)
           \/ /\ h > 0 /\ h - 1 \in 0 .. MaxDepth /\ ~IsLeaf(e)
              /\ e.l \in Exprs[h - 1] /\ e.r \in Exprs[h - 1]
              /\ e = [tag |-> e.tag, l |-> e.l, r |-> e.r]
              /\ \/ e.tag \in {"plus", "times", "minus"}
                 \/ e.tag = "pass" /\ e.r = Lit(0)
<1>0. MaxDepth \in Nat
  BY ProgramsAssumption
<1>1. ASSUME NEW x \in Leaves PROVE IsLeaf(x)
  BY DEF Leaves, IsLeaf, Kinds
<1>2. CASE h = 0
  BY <1>1, <1>2, ExprsUnfold
<1>3. CASE h > 0
  <2>1. h \in 1 .. MaxDepth /\ h - 1 \in 0 .. MaxDepth /\ 0 \in 0 .. MaxDepth /\ 0 <= h - 1
    BY <1>0, <1>3
  <2> DEFINE below == Exprs[h - 1]
  <2>2. e \in Above(below)
    BY <2>1, ExprsUnfold
  <2>3. Lit(0) \in below
    <3>1. Lit(0) \in Leaves
      BY DEF Lit, Leaves
    <3>. QED
      BY <2>1, <3>1, ExprsUnfold, ExprsGrow
  <2> HIDE DEF below
  <2>4. CASE e \in Leaves
    BY <1>1, <2>4
  <2>5. CASE e \in [tag : {"plus", "times", "minus"}, l : below, r : below]
    <3>1. ~IsLeaf(e)
      BY <2>5 DEF IsLeaf, Kinds
    <3>. QED
      BY <1>3, <2>1, <2>5, <3>1 DEF below
  <2>6. CASE e \in [tag : {"pass"}, l : below, r : {Lit(0)}]
    <3>1. ~IsLeaf(e)
      BY <2>6 DEF IsLeaf, Kinds
    <3>. QED
      BY <1>3, <2>1, <2>3, <2>6, <3>1 DEF below
  <2>. QED
    BY <2>2, <2>4, <2>5, <2>6 DEF Above
<1>. QED
  BY <1>2, <1>3

(* Leaves and operators are trees.                                         *)
LEMMA ExprBuilds ==
    ASSUME NEW h \in 0 .. MaxDepth
    PROVE  /\ Leaves \subseteq Exprs[h]
           /\ Lit(0) \in Exprs[h]
           /\ h > 0 => \A l, r \in Exprs[h - 1] :
                 /\ Pass(l) \in Exprs[h]
                 /\ \A tag \in {"plus", "times", "minus"} :
                       [tag |-> tag, l |-> l, r |-> r] \in Exprs[h]
<1>0. MaxDepth \in Nat
  BY ProgramsAssumption
<1>1. Leaves \subseteq Exprs[h]
  BY <1>0, ExprsUnfold, ExprsGrow
<1>2. Lit(0) \in Leaves
  BY DEF Lit, Leaves
<1>3. h > 0 => Exprs[h] = Above(Exprs[h - 1])
  BY <1>0, ExprsUnfold
<1>. QED
  BY <1>1, <1>2, <1>3 DEF Above, Pass

(* What holds of the leaves, and of an operator when it holds of both its  *)
(* operands, holds of every tree.                                          *)
LEMMA TreeInduction ==
    ASSUME NEW T, Leaves \subseteq T,
           \A e \in Expr : ~IsLeaf(e) /\ e.l \in Expr /\ e.r \in Expr
                              /\ e.l \in T /\ e.r \in T => e \in T
    PROVE  Expr \subseteq T
<1>0. MaxDepth \in Nat
  BY ProgramsAssumption
<1> DEFINE U == {h \in 0 .. MaxDepth : Exprs[h] \subseteq T}
<1>1. 0 \in U
  BY <1>0, ExprsUnfold
<1>2. ASSUME NEW n \in 0 .. MaxDepth - 1, n \in U PROVE n + 1 \in U
  <2>1. n + 1 \in 0 .. MaxDepth /\ (n + 1) - 1 = n /\ n \in 0 .. MaxDepth
    BY <1>0
  <2>2. ASSUME NEW e \in Exprs[n + 1] PROVE e \in T
    <3>1. CASE e \in Leaves
      BY <3>1
    <3>2. CASE ~IsLeaf(e) /\ e.l \in Exprs[n] /\ e.r \in Exprs[n]
      <4>1. Exprs[n] \subseteq Expr /\ Exprs[n + 1] \subseteq Expr
        BY <1>0, <2>1, ExprsGrow DEF Expr
      <4>. QED
        BY <1>2, <3>2, <4>1
    <3>. QED
      BY <2>1, <3>1, <3>2, ExprCases
  <2>. QED
    BY <2>1, <2>2
<1>3. \A h \in 0 .. MaxDepth : h \in U
  <2> HIDE DEF U
  <2>. QED
    BY <1>0, <1>1, <1>2, BoundedInduction
<1>. QED
  BY <1>0, <1>3 DEF Expr
-----------------------------------------------------------------------------
(* Depth.                                                                  *)

(* One level of GetMaxDepth, the depth of smaller trees given by f.        *)
DepthOver(f, e) ==
    IF IsLeaf(e) THEN 0
    ELSE LET l == f[e.l]
             r == f[e.r]
         IN  1 + IF l < r THEN r ELSE l

(* GetMaxDepth is what it is defined to be.                                *)
LEMMA DepthUnfold ==
    \A e \in Expr : GetMaxDepth[e] = DepthOver(GetMaxDepth, e)
<1>0. MaxDepth \in Nat
  BY ProgramsAssumption
<1> DEFINE Measures(f, h) == f = [e \in Exprs[h] |-> DepthOver(f, e)]
           T == {h \in 0 .. MaxDepth : \E f : Measures(f, h)}
<1>1. 0 \in T
  <2>1. \A e \in Exprs[0] : IsLeaf(e)
    BY ExprCases, <1>0
  <2>2. Measures([e \in Exprs[0] |-> 0], 0)
    BY <2>1 DEF DepthOver
  <2> HIDE DEF Measures
  <2>. QED
    BY <1>0, <2>2
<1>2. ASSUME NEW n \in 0 .. MaxDepth - 1, n \in T PROVE n + 1 \in T
  <2>0. /\ n \in 0 .. MaxDepth /\ n + 1 \in 0 .. MaxDepth /\ (n + 1) - 1 = n
        /\ Exprs[n] \subseteq Exprs[n + 1]
    BY <1>0, ExprsGrow
  <2>1. PICK f : Measures(f, n)
    BY <1>2
  <2> DEFINE g == [e \in Exprs[n + 1] |-> DepthOver(f, e)]
  <2>2. \A e \in Exprs[n] : g[e] = f[e]
    BY <2>0, <2>1
  <2>3. ASSUME NEW e \in Exprs[n + 1]
        PROVE  DepthOver(f, e) = DepthOver(g, e)
    <3>1. CASE IsLeaf(e)
      BY <3>1 DEF DepthOver
    <3>2. CASE e.l \in Exprs[n] /\ e.r \in Exprs[n]
      <4>1. g[e.l] = f[e.l] /\ g[e.r] = f[e.r]
        BY <2>2, <3>2
      <4> HIDE DEF g
      <4>. QED
        BY <4>1 DEF DepthOver
    <3>. QED
      BY <2>0, <3>1, <3>2, ExprCases
  <2>4. Measures(g, n + 1)
    <3>1. g = [e \in Exprs[n + 1] |-> DepthOver(f, e)]
      OBVIOUS
    <3> HIDE DEF g
    <3>. QED
      BY <2>3, <3>1
  <2> HIDE DEF Measures, g
  <2>. QED
    BY <2>0, <2>4
<1>3. \A h \in 0 .. MaxDepth : h \in T
  <2> HIDE DEF T
  <2>. QED
    BY <1>0, <1>1, <1>2, BoundedInduction
<1>4. PICK f : Measures(f, MaxDepth)
  BY <1>0, <1>3
<1>5. GetMaxDepth = [e \in Expr |-> DepthOver(GetMaxDepth, e)]
  BY <1>4 DEF GetMaxDepth, DepthOver, Expr
<1>. QED
  BY <1>5

(* The depth of a tree is a number.                                        *)
LEMMA DepthType ==
    \A e \in Expr : GetMaxDepth[e] \in Nat
<1> DEFINE T == {e \in Expr : GetMaxDepth[e] \in Nat}
<1>0. MaxDepth \in Nat
  BY ProgramsAssumption
<1>1. Leaves \subseteq T
  <2> SUFFICES ASSUME NEW e \in Leaves
               PROVE  e \in Expr /\ GetMaxDepth[e] \in Nat
    OBVIOUS
  <2>1. e \in Expr
    BY <1>0, ExprBuilds DEF Expr
  <2>2. IsLeaf(e)
    BY DEF Leaves, IsLeaf, Kinds
  <2>. QED
    BY <2>1, <2>2, DepthUnfold DEF DepthOver
<1>2. ASSUME NEW e \in Expr, ~IsLeaf(e), e.l \in T, e.r \in T PROVE e \in T
  BY <1>2, DepthUnfold DEF DepthOver
<1>3. Expr \subseteq T
  <2> HIDE DEF T
  <2>. QED
    BY <1>1, <1>2, TreeInduction
<1>. QED
  BY <1>3

(* A tree is of the height of its depth, and no deeper than a height it is *)
(* of.                                                                     *)
LEMMA DepthIsHeight ==
    ASSUME NEW e \in Expr
    PROVE  /\ GetMaxDepth[e] \in 0 .. MaxDepth
           /\ e \in Exprs[GetMaxDepth[e]]
           /\ \A h \in 0 .. MaxDepth : e \in Exprs[h] => GetMaxDepth[e] <= h
<1>0. MaxDepth \in Nat
  BY ProgramsAssumption
<1> DEFINE T == {h \in 0 .. MaxDepth : \A x \in Exprs[h] :
                    GetMaxDepth[x] \in 0 .. h /\ x \in Exprs[GetMaxDepth[x]]}
<1>1. 0 \in T
  <2>1. \A x \in Exprs[0] : IsLeaf(x) /\ x \in Expr
    BY ExprCases, ExprsGrow, <1>0 DEF Expr
  <2>2. \A x \in Exprs[0] : GetMaxDepth[x] = 0
    BY <2>1, DepthUnfold DEF DepthOver
  <2>. QED
    BY <1>0, <2>2
<1>2. ASSUME NEW n \in 0 .. MaxDepth - 1, n \in T PROVE n + 1 \in T
  <2>0. n \in 0 .. MaxDepth /\ n + 1 \in 0 .. MaxDepth /\ (n + 1) - 1 = n
    BY <1>0
  <2>1. ASSUME NEW x \in Exprs[n + 1]
        PROVE  GetMaxDepth[x] \in 0 .. n + 1 /\ x \in Exprs[GetMaxDepth[x]]
    <3>0. x \in Expr
      BY <1>0, <2>0, ExprsGrow DEF Expr
    <3>1. CASE x \in Leaves /\ IsLeaf(x)
      <4>1. GetMaxDepth[x] = 0
        BY <3>0, <3>1, DepthUnfold DEF DepthOver
      <4>. QED
        BY <3>1, <4>1, ExprsUnfold
    <3>2. CASE /\ ~IsLeaf(x) /\ x.l \in Exprs[n] /\ x.r \in Exprs[n]
               /\ x = [tag |-> x.tag, l |-> x.l, r |-> x.r]
               /\ \/ x.tag \in {"plus", "times", "minus"}
                  \/ x.tag = "pass" /\ x.r = Lit(0)
      <4> DEFINE a == GetMaxDepth[x.l]
                 b == GetMaxDepth[x.r]
                 m == IF a < b THEN b ELSE a
      <4>1. GetMaxDepth[x] = 1 + m
        BY <3>0, <3>2, DepthUnfold DEF DepthOver
      <4>2. a \in 0 .. n /\ b \in 0 .. n /\ x.l \in Exprs[a] /\ x.r \in Exprs[b]
        BY <1>2, <3>2
      <4> HIDE DEF a, b
      <4>3. /\ m \in 0 .. n /\ a <= m /\ b <= m /\ m \in 0 .. MaxDepth
            /\ m + 1 \in 0 .. MaxDepth /\ (m + 1) - 1 = m /\ m + 1 > 0
            /\ a \in 0 .. MaxDepth /\ b \in 0 .. MaxDepth
        BY <1>0, <4>2
      <4> HIDE DEF m
      <4>4. x.l \in Exprs[m] /\ x.r \in Exprs[m]
        BY <4>2, <4>3, ExprsGrow
      <4>5. x \in Exprs[m + 1]
        <5>1. CASE x.tag \in {"plus", "times", "minus"}
          BY <3>2, <4>3, <4>4, <5>1, ExprBuilds
        <5>2. CASE x.tag = "pass" /\ x.r = Lit(0)
          <6>1. x = Pass(x.l)
            BY <3>2, <5>2 DEF Pass
          <6>. QED
            BY <4>3, <4>4, <6>1, ExprBuilds
        <5>. QED
          BY <3>2, <5>1, <5>2
      <4>. QED
        BY <4>1, <4>3, <4>5
    <3>. QED
      BY <2>0, <3>1, <3>2, ExprCases
  <2>. QED
    BY <2>0, <2>1
<1>3. \A h \in 0 .. MaxDepth : h \in T
  <2> HIDE DEF T
  <2>. QED
    BY <1>0, <1>1, <1>2, BoundedInduction
<1>. QED
  BY <1>0, <1>3 DEF Expr
-----------------------------------------------------------------------------
(* The transform pass.                                                     *)

(* One level of Transform, what it does further down given by below.       *)
Sunk(below, room, e) ==
    IF room = 0 THEN e
    ELSE IF e.tag = "id" THEN Pass(below[e])
    ELSE LET operator == IF IsLeaf(e) THEN Pass(e) ELSE e
             isPass == operator.tag = "pass"
         IN  IF Ready(operator, room)
             THEN Pass(below[[operator EXCEPT !.tag = IF isPass THEN "plus" ELSE @]])
             ELSE [operator EXCEPT !.l = below[@],
                                   !.r = IF isPass THEN @ ELSE below[@]]

(* Transform is what it is defined to be, at every room left below.        *)
LEMMA TransformUnfold ==
    \A room \in 0 .. MaxDepth : \A e \in Exprs[room] :
        Transform[room][e] = Sunk(Transform[room - 1], room, e)
<1> DEFINE Step(f, h) == [e \in Exprs[h] |-> Sunk(f[h - 1], h, e)]
           Family(f, n) == f = [h \in 0 .. n |-> Step(f, h)]
           T == {n \in 0 .. MaxDepth : \E f : Family(f, n)}
<1>0. MaxDepth \in Nat
  BY ProgramsAssumption
<1>z. \A f, g : Step(f, 0) = Step(g, 0)
  BY DEF Sunk
<1>c. \A f, g, h : f[h - 1] = g[h - 1] => Step(f, h) = Step(g, h)
  OBVIOUS
<1>1. 0 \in T
  <2> DEFINE f == [h \in 0 .. 0 |-> Step(<<>>, h)]
  <2>1. \A h \in 0 .. 0 : Step(<<>>, h) = Step(f, h)
    <3> HIDE DEF Step, f
    <3>. QED
      BY <1>z
  <2>2. Family(f, 0)
    <3>1. f = [h \in 0 .. 0 |-> Step(<<>>, h)]
      OBVIOUS
    <3> HIDE DEF Step, f
    <3>. QED
      BY <2>1, <3>1
  <2> HIDE DEF Family, f
  <2>. QED
    BY <1>0, <2>2
<1>2. ASSUME NEW n \in 0 .. MaxDepth - 1, n \in T PROVE n + 1 \in T
  <2>1. PICK f : Family(f, n)
    BY <1>2
  <2> DEFINE g == [h \in 0 .. n + 1 |-> Step(f, h)]
  <2>2. ASSUME NEW h \in 0 .. n + 1
        PROVE  Step(f, h) = Step(g, h)
    <3>1. CASE h = 0
      <4> HIDE DEF Step, g
      <4>. QED
        BY <1>z, <3>1
    <3>2. CASE h # 0
      <4>1. h - 1 \in 0 .. n /\ h - 1 \in 0 .. n + 1
        BY <3>2
      <4>2. f[h - 1] = Step(f, h - 1)
        <5> HIDE DEF Step
        <5>. QED
          BY <2>1, <4>1
      <4>3. g[h - 1] = Step(f, h - 1)
        <5> HIDE DEF Step
        <5>. QED
          BY <4>1
      <4> HIDE DEF Step, g
      <4>. QED
        BY <1>c, <4>2, <4>3
    <3>. QED
      BY <3>1, <3>2
  <2>3. Family(g, n + 1)
    <3>1. g = [h \in 0 .. n + 1 |-> Step(f, h)]
      OBVIOUS
    <3> HIDE DEF Step, g
    <3>. QED
      BY <2>2, <3>1
  <2>4. n + 1 \in 0 .. MaxDepth
    BY <1>0
  <2> HIDE DEF Family, g
  <2>. QED
    BY <2>3, <2>4
<1>3. \A n \in 0 .. MaxDepth : n \in T
  <2> HIDE DEF T
  <2>. QED
    BY <1>0, <1>1, <1>2, BoundedInduction
<1>4. PICK f : Family(f, MaxDepth)
  BY <1>0, <1>3
<1>5. Transform = [h \in 0 .. MaxDepth |-> Step(Transform, h)]
  BY <1>4 DEF Transform, Sunk
<1>6. \A h \in 0 .. MaxDepth : Transform[h] = Step(Transform, h)
  <2> HIDE DEF Step
  <2>. QED
    BY <1>5
<1>. QED
  BY <1>6

(* The trees of a height with every leaf at the bottom.                    *)
Full[h \in 0 .. MaxDepth] ==
    IF h = 0 THEN Leaves
    ELSE [tag : {"plus", "times", "minus"}, l : Full[h - 1], r : Full[h - 1]]
         \cup [tag : {"pass"}, l : Full[h - 1], r : {Lit(0)}]

(* The full trees one level higher than the full trees below.              *)
FullAbove(below) == [tag : {"plus", "times", "minus"}, l : below, r : below]
                    \cup [tag : {"pass"}, l : below, r : {Lit(0)}]

(* Full is what it is defined to be.                                       *)
LEMMA FullUnfold ==
    /\ Full[0] = Leaves
    /\ \A h \in 1 .. MaxDepth : Full[h] = FullAbove(Full[h - 1])
<1> DEFINE Family(f, n) == f = [h \in 0 .. n |-> IF h = 0 THEN Leaves ELSE FullAbove(f[h - 1])]
           T == {n \in 0 .. MaxDepth : \E f : Family(f, n)}
<1>0. MaxDepth \in Nat
  BY ProgramsAssumption
<1>1. 0 \in T
  <2>1. Family([h \in 0 .. 0 |-> Leaves], 0)
    BY <1>0
  <2> HIDE DEF Family
  <2>. QED
    BY <1>0, <2>1
<1>2. ASSUME NEW n \in 0 .. MaxDepth - 1, n \in T PROVE n + 1 \in T
  <2>1. PICK f : Family(f, n)
    BY <1>2
  <2> DEFINE g == [h \in 0 .. n + 1 |-> IF h = n + 1 THEN FullAbove(f[n]) ELSE f[h]]
  <2>2. ASSUME NEW h \in 0 .. n + 1
        PROVE  g[h] = IF h = 0 THEN Leaves ELSE FullAbove(g[h - 1])
    <3>1. CASE h = n + 1
      <4>1. h # 0 /\ h - 1 = n /\ n \in 0 .. n + 1 /\ n # n + 1
        BY <3>1
      <4>. QED
        BY <3>1, <4>1
    <3>2. CASE h # n + 1
      <4>1. h \in 0 .. n
        BY <3>2
      <4>2. f[h] = IF h = 0 THEN Leaves ELSE FullAbove(f[h - 1])
        BY <2>1, <4>1
      <4>3. h # 0 => h - 1 \in 0 .. n + 1 /\ h - 1 # n + 1
        BY <4>1
      <4>. QED
        BY <3>2, <4>1, <4>2, <4>3
    <3>. QED
      BY <3>1, <3>2
  <2>3. Family(g, n + 1)
    <3>1. g = [h \in 0 .. n + 1 |-> g[h]]
      OBVIOUS
    <3> HIDE DEF g
    <3>. QED
      BY <2>2, <3>1
  <2>. QED
    <3> HIDE DEF g, Family
    <3>. QED
      BY <1>0, <2>3
<1>3. \A n \in 0 .. MaxDepth : n \in T
  <2> HIDE DEF T
  <2>. QED
    BY <1>0, <1>1, <1>2, BoundedInduction
<1>4. PICK f : Family(f, MaxDepth)
  BY <1>0, <1>3
<1>5. Full = [h \in 0 .. MaxDepth |-> IF h = 0 THEN Leaves ELSE FullAbove(Full[h - 1])]
  BY <1>4 DEF Full, FullAbove
<1>. QED
  BY <1>0, <1>5

(* A full tree is a tree of exactly its height, and so are its operands.   *)
LEMMA FullFacts ==
    ASSUME NEW h \in 0 .. MaxDepth, NEW e \in Full[h]
    PROVE  /\ e \in Exprs[h] /\ e \in Expr
           /\ GetMaxDepth[e] = h
           /\ IsLeaf(e) <=> h = 0
           /\ h > 0 => /\ h - 1 \in 0 .. MaxDepth
                       /\ e.l \in Full[h - 1]
                       /\ \/ e.tag \in {"plus", "times", "minus"} /\ e.r \in Full[h - 1]
                          \/ e.tag = "pass" /\ e = Pass(e.l)
<1>0. MaxDepth \in Nat
  BY ProgramsAssumption
<1>l. \A x \in Leaves : IsLeaf(x)
  BY DEF Leaves, IsLeaf, Kinds
<1> DEFINE T == {n \in 0 .. MaxDepth : \A x \in Full[n] :
                    x \in Exprs[n] /\ x \in Expr /\ GetMaxDepth[x] = n}
<1>1. 0 \in T
  <2>1. \A x \in Leaves : x \in Exprs[0] /\ x \in Expr
    BY <1>0, ExprsUnfold, ExprBuilds DEF Expr
  <2>2. \A x \in Leaves : GetMaxDepth[x] = 0
    BY <1>l, <2>1, DepthUnfold DEF DepthOver
  <2>. QED
    BY <1>0, <2>1, <2>2, FullUnfold
<1>s. ASSUME NEW n \in 0 .. MaxDepth - 1, NEW x \in Full[n + 1]
      PROVE  /\ ~IsLeaf(x) /\ x.l \in Full[n]
             /\ \/ x.tag \in {"plus", "times", "minus"} /\ x.r \in Full[n]
                   /\ x = [tag |-> x.tag, l |-> x.l, r |-> x.r]
                \/ x.tag = "pass" /\ x = Pass(x.l) /\ x.r = Lit(0)
  <2>1. n + 1 \in 1 .. MaxDepth /\ (n + 1) - 1 = n
    BY <1>0
  <2>2. x \in FullAbove(Full[n])
    BY <2>1, FullUnfold
  <2>. QED
    BY <2>2 DEF FullAbove, IsLeaf, Kinds, Pass
<1>2. ASSUME NEW n \in 0 .. MaxDepth - 1, n \in T PROVE n + 1 \in T
  <2>0. n \in 0 .. MaxDepth /\ n + 1 \in 0 .. MaxDepth /\ n + 1 > 0 /\ (n + 1) - 1 = n /\ n \in Nat
    BY <1>0
  <2>1. ASSUME NEW x \in Full[n + 1]
        PROVE  x \in Exprs[n + 1] /\ x \in Expr /\ GetMaxDepth[x] = n + 1
    <3>0. /\ ~IsLeaf(x) /\ x.l \in Full[n]
          /\ \/ x.tag \in {"plus", "times", "minus"} /\ x.r \in Full[n]
                /\ x = [tag |-> x.tag, l |-> x.l, r |-> x.r]
             \/ x.tag = "pass" /\ x = Pass(x.l) /\ x.r = Lit(0)
      BY <1>s
    <3>1. x.l \in Exprs[n] /\ GetMaxDepth[x.l] = n
      BY <1>2, <3>0
    <3>2. CASE x.tag \in {"plus", "times", "minus"} /\ x.r \in Full[n]
                   /\ x = [tag |-> x.tag, l |-> x.l, r |-> x.r]
      <4>1. x.r \in Exprs[n] /\ GetMaxDepth[x.r] = n
        BY <1>2, <3>2
      <4>2. x \in Exprs[n + 1]
        BY <2>0, <3>1, <3>2, <4>1, ExprBuilds
      <4>3. x \in Expr
        BY <1>0, <2>0, <4>2, ExprsGrow DEF Expr
      <4>. QED
        BY <2>0, <3>0, <3>1, <4>1, <4>2, <4>3, DepthUnfold DEF DepthOver
    <3>3. CASE x.tag = "pass" /\ x = Pass(x.l) /\ x.r = Lit(0)
      <4>1. x \in Exprs[n + 1]
        BY <2>0, <3>1, <3>3, ExprBuilds
      <4>2. x \in Expr
        BY <1>0, <2>0, <4>1, ExprsGrow DEF Expr
      <4>3. GetMaxDepth[x.r] = 0
        <5>1. x.r \in Expr /\ IsLeaf(x.r)
          BY <1>0, <3>3, ExprBuilds DEF Expr, IsLeaf, Lit, Kinds
        <5>. QED
          BY <5>1, DepthUnfold DEF DepthOver
      <4>. QED
        BY <2>0, <3>0, <3>1, <4>1, <4>2, <4>3, DepthUnfold DEF DepthOver
    <3>. QED
      BY <3>0, <3>2, <3>3
  <2>. QED
    BY <2>0, <2>1
<1>3. \A n \in 0 .. MaxDepth : n \in T
  <2> HIDE DEF T
  <2>. QED
    BY <1>0, <1>1, <1>2, BoundedInduction
<1>4. e \in Exprs[h] /\ e \in Expr /\ GetMaxDepth[e] = h
  BY <1>3
<1>5. CASE h = 0
  BY <1>l, <1>4, <1>5, FullUnfold
<1>6. CASE h > 0
  <2>1. h - 1 \in 0 .. MaxDepth - 1 /\ (h - 1) + 1 = h
    BY <1>0, <1>6
  <2>. QED
    BY <1>0, <1>4, <1>6, <1>s, <2>1
<1>. QED
  BY <1>0, <1>5, <1>6

(* An operator over full trees is a full tree.                             *)
LEMMA FullBuilds ==
    ASSUME NEW h \in 1 .. MaxDepth, NEW l \in Full[h - 1]
    PROVE  /\ Pass(l) \in Full[h]
           /\ \A r \in Full[h - 1], tag \in {"plus", "times", "minus"} :
                 [tag |-> tag, l |-> l, r |-> r] \in Full[h]
BY FullUnfold DEF FullAbove, Pass

(* What Transform makes of a tree above the bottom.                        *)
LEMMA TransformCases ==
    ASSUME NEW room \in 1 .. MaxDepth, NEW e \in Exprs[room]
    PROVE  LET below == Transform[room - 1] IN
           \/ /\ e \in Exprs[room - 1] /\ IsLeaf(e)
              /\ Transform[room][e] = Pass(below[e])
           \/ \E x \in Exprs[room - 1] :
                 /\ ~IsLeaf(x)
                 /\ IF e.tag = "pass" \/ IsLeaf(e)
                    THEN /\ x.tag = "plus" /\ x.r = Lit(0)
                         /\ x.l = IF IsLeaf(e) THEN e ELSE e.l
                    ELSE x = e
                 /\ Transform[room][e] = Pass(below[x])
           \/ /\ e.tag = "pass" /\ e = Pass(e.l) /\ e.l \in Exprs[room - 1]
              /\ Transform[room][e] = Pass(below[e.l])
           \/ /\ e.tag \in {"plus", "times", "minus"}
              /\ e.l \in Exprs[room - 1] /\ e.r \in Exprs[room - 1]
              /\ Transform[room][e] = [tag |-> e.tag, l |-> below[e.l], r |-> below[e.r]]
<1>0. /\ MaxDepth \in Nat /\ room \in 0 .. MaxDepth /\ room - 1 \in 0 .. MaxDepth /\ room # 0
      /\ room > 1 => (room - 1) - 1 \in 0 .. MaxDepth /\ room - 1 > 0
      /\ room > 0
  BY ProgramsAssumption
<1> DEFINE below == Transform[room - 1]
<1>1. Transform[room][e] = Sunk(below, room, e)
  BY <1>0, TransformUnfold
<1> HIDE DEF below
<1>2. CASE IsLeaf(e) /\ e \in Leaves
  <2>1. e \in Exprs[room - 1]
    BY <1>0, <1>2, ExprBuilds
  <2>2. CASE e.tag = "id"
    BY <1>0, <1>1, <1>2, <2>1, <2>2 DEF Sunk, below
  <2>3. CASE e.tag # "id" /\ ~Ready(Pass(e), room)
    <3>1. Transform[room][e] = [Pass(e) EXCEPT !.l = below[@], !.r = @]
      BY <1>0, <1>1, <1>2, <2>3 DEF Sunk, Pass
    <3>2. Transform[room][e] = Pass(below[e])
      BY <3>1 DEF Pass
    <3>. QED
      BY <1>2, <2>1, <3>2 DEF below
  <2>4. CASE e.tag # "id" /\ Ready(Pass(e), room)
    <3> DEFINE x == [tag |-> "plus", l |-> e, r |-> Lit(0)]
    <3>1. Transform[room][e] = Pass(below[[Pass(e) EXCEPT !.tag = "plus"]])
      BY <1>0, <1>1, <1>2, <2>4 DEF Sunk, Pass
    <3>2. [Pass(e) EXCEPT !.tag = "plus"] = x
      BY DEF Pass
    <3>3. x \in Exprs[room - 1]
      <4>1. room > 1
        BY <2>4 DEF Ready
      <4>. QED
        BY <1>0, <1>2, <4>1, ExprBuilds
    <3>4. ~IsLeaf(x)
      BY DEF IsLeaf, Kinds
    <3>5. x.tag = "plus" /\ x.r = Lit(0) /\ x.l = e
      OBVIOUS
    <3> HIDE DEF x
    <3>. QED
      BY <1>2, <3>1, <3>2, <3>3, <3>4, <3>5 DEF below
  <2>. QED
    BY <2>2, <2>3, <2>4
<1>3. CASE /\ ~IsLeaf(e)
           /\ e.l \in Exprs[room - 1] /\ e.r \in Exprs[room - 1]
           /\ e = [tag |-> e.tag, l |-> e.l, r |-> e.r]
           /\ \/ e.tag \in {"plus", "times", "minus"}
              \/ e.tag = "pass" /\ e.r = Lit(0)
  <2>1. e.tag # "id"
    BY <1>3
  <2>2. CASE Ready(e, room)
    <3> DEFINE t == IF e.tag = "pass" THEN "plus" ELSE e.tag
               x == [tag |-> t, l |-> e.l, r |-> e.r]
    <3>1. Transform[room][e] = Pass(below[[e EXCEPT !.tag = t]])
      BY <1>0, <1>1, <1>3, <2>1, <2>2 DEF Sunk
    <3>2. [e EXCEPT !.tag = t] = x
      <4>1. \A a, b, c, u : [[tag |-> a, l |-> b, r |-> c] EXCEPT !.tag = u]
                               = [tag |-> u, l |-> b, r |-> c]
        OBVIOUS
      <4> HIDE DEF t
      <4>. QED
        BY <1>3, <4>1
    <3>3. x \in Exprs[room - 1]
      <4>1. room > 1 /\ e.l.tag \in {"int", "id"} /\ e.r.tag \in {"int", "id"}
        BY <2>2 DEF Ready
      <4>2. e.l \in Leaves /\ e.r \in Leaves
        BY <1>0, <1>3, <4>1, ExprCases
      <4>3. e.l \in Exprs[(room - 1) - 1] /\ e.r \in Exprs[(room - 1) - 1]
        BY <1>0, <4>1, <4>2, ExprBuilds
      <4>4. t \in {"plus", "times", "minus"}
        BY <1>3
      <4> HIDE DEF t
      <4>. QED
        BY <1>0, <4>1, <4>3, <4>4, ExprBuilds
    <3>4. ~IsLeaf(x)
      BY <1>3 DEF IsLeaf, Kinds
    <3>5. IF e.tag = "pass" \/ IsLeaf(e)
          THEN /\ x.tag = "plus" /\ x.r = Lit(0)
               /\ x.l = IF IsLeaf(e) THEN e ELSE e.l
          ELSE x = e
      BY <1>3
    <3> HIDE DEF x
    <3>. QED
      BY <3>1, <3>2, <3>3, <3>4, <3>5 DEF below
  <2>3. CASE ~Ready(e, room)
    <3>1. CASE e.tag = "pass" /\ e.r = Lit(0)
      <4>1. e = Pass(e.l)
        BY <1>3, <3>1 DEF Pass
      <4>2. Transform[room][e] = [e EXCEPT !.l = below[@], !.r = @]
        BY <1>0, <1>1, <1>3, <2>1, <2>3, <3>1 DEF Sunk
      <4>3. Transform[room][e] = [tag |-> e.tag, l |-> below[e.l], r |-> e.r]
        BY <1>3, <4>2
      <4>4. Transform[room][e] = Pass(below[e.l])
        BY <3>1, <4>3 DEF Pass
      <4>. QED
        BY <1>3, <3>1, <4>1, <4>4 DEF below
    <3>2. CASE e.tag \in {"plus", "times", "minus"}
      <4>1. Transform[room][e] = [e EXCEPT !.l = below[@], !.r = below[@]]
        BY <1>0, <1>1, <1>3, <2>1, <2>3, <3>2 DEF Sunk
      <4>3. Transform[room][e] = [tag |-> e.tag, l |-> below[e.l], r |-> below[e.r]]
        BY <1>3, <4>1
      <4>. QED
        BY <1>3, <3>2, <4>3 DEF below
    <3>. QED
      BY <1>3, <3>1, <3>2
  <2>. QED
    BY <2>2, <2>3
<1>. QED
  BY <1>0, <1>2, <1>3, ExprCases

(* Every leaf of a transformed tree is at the bottom.                      *)
LEMMA TransformFills ==
    \A room \in 0 .. MaxDepth : \A e \in Exprs[room] : Transform[room][e] \in Full[room]
<1> DEFINE T == {h \in 0 .. MaxDepth : \A e \in Exprs[h] : Transform[h][e] \in Full[h]}
<1>0. MaxDepth \in Nat
  BY ProgramsAssumption
<1>1. 0 \in T
  <2>0. 0 \in 0 .. MaxDepth
    BY <1>0
  <2>1. ASSUME NEW e \in Exprs[0] PROVE Transform[0][e] = e
    <3>1. Transform[0][e] = Sunk(Transform[0 - 1], 0, e)
      BY <2>0, TransformUnfold
    <3>. QED
      BY <3>1 DEF Sunk
  <2>. QED
    BY <1>0, <2>0, <2>1, ExprsUnfold, FullUnfold
<1>2. ASSUME NEW n \in 0 .. MaxDepth - 1, n \in T PROVE n + 1 \in T
  <2>0. n + 1 \in 1 .. MaxDepth /\ (n + 1) - 1 = n /\ n + 1 \in 0 .. MaxDepth
    BY <1>0
  <2>1. \A x \in Exprs[n] : Transform[n][x] \in Full[n]
    BY <1>2
  <2>2. ASSUME NEW e \in Exprs[n + 1] PROVE Transform[n + 1][e] \in Full[n + 1]
    <3> DEFINE m == n + 1
               below == Transform[n]
    <3>1. \/ \E x \in Exprs[n] : Transform[m][e] = Pass(below[x])
          \/ \E x, y \in Exprs[n], t \in {"plus", "times", "minus"} :
                Transform[m][e] = [tag |-> t, l |-> below[x], r |-> below[y]]
      <4>1. /\ m \in 1 .. MaxDepth /\ e \in Exprs[m] /\ m - 1 = n
        BY <2>0
      <4> HIDE DEF m
      <4>2. LET below1 == Transform[m - 1] IN
            \/ \E x \in Exprs[m - 1] : Transform[m][e] = Pass(below1[x])
            \/ \E x, y \in Exprs[m - 1], t \in {"plus", "times", "minus"} :
                Transform[m][e] = [tag |-> t, l |-> below1[x], r |-> below1[y]]
        BY <4>1, TransformCases
      <4>. QED
        BY <4>1, <4>2
    <3>2. /\ \A x \in Exprs[n] : Pass(below[x]) \in Full[m]
          /\ \A x, y \in Exprs[n], t \in {"plus", "times", "minus"} :
                [tag |-> t, l |-> below[x], r |-> below[y]] \in Full[m]
      BY <2>0, <2>1, FullBuilds
    <3> HIDE DEF m, below
    <3>3. Transform[m][e] \in Full[m]
      BY <3>1, <3>2
    <3>. QED
      BY <3>3 DEF m
  <2>. QED
    BY <2>0, <2>2
<1>3. \A n \in 0 .. MaxDepth : n \in T
  <2> HIDE DEF T
  <2>. QED
    BY <1>0, <1>1, <1>2, BoundedInduction
<1>. QED
  BY <1>3

-----------------------------------------------------------------------------
(* Flattening sequences of sequences.                                      *)

(* The concatenations of the beginnings of ss.                             *)
Joins(ss, f) == f = [i \in 1 .. Len(ss) |-> IF i = 1 THEN ss[i] ELSE f[i - 1] \o ss[i]]

(* They exist and are sequences over the elements of ss.                   *)
LEMMA JoinsExist ==
    ASSUME NEW S, NEW ss \in Seq(Seq(S)), Len(ss) > 0
    PROVE  \E f \in [1 .. Len(ss) -> Seq(S)] : Joins(ss, f)
<1> DEFINE g == [x \in (1 .. Len(ss)) \X Seq(S) |-> x[2] \o ss[x[1]]]
<1>0. Len(ss) \in Nat /\ \A i \in 1 .. Len(ss) : ss[i] \in Seq(S)
  OBVIOUS
<1>1. g \in [(1 .. Len(ss)) \X Seq(S) -> Seq(S)]
  BY <1>0, ConcatProperties
<1>2. \A i \in 1 .. Len(ss), v \in Seq(S) : g[<<i, v>>] = v \o ss[i]
  OBVIOUS
<1>3. \A v \in Seq(S) : <<>> \o v = v
  BY ConcatEmptySeq
<1> HIDE DEF g
<1>4. PICK f : Unfolds(Seq(S), <<>>, g, Len(ss), f)
  <2>1. <<>> \in Seq(S)
    OBVIOUS
  <2>. QED
    BY <1>0, <1>1, <2>1, BoundedRecursion
<1> DEFINE h == [i \in 1 .. Len(ss) |-> f[i]]
<1>5. h \in [1 .. Len(ss) -> Seq(S)]
  BY <1>4 DEF Unfolds
<1>6. ASSUME NEW i \in 1 .. Len(ss)
      PROVE  h[i] = IF i = 1 THEN ss[i] ELSE h[i - 1] \o ss[i]
  <2>1. f[i] = g[<<i, f[i - 1]>>] /\ f[i - 1] \in Seq(S) /\ f[0] = <<>>
    <3>1. i \in 0 .. Len(ss) /\ i # 0 /\ i - 1 \in 0 .. Len(ss) /\ 0 \in 0 .. Len(ss)
      BY <1>0
    <3>. QED
      BY <1>4, <3>1 DEF Unfolds
  <2>2. f[i] = f[i - 1] \o ss[i]
    BY <1>2, <2>1
  <2>3. CASE i = 1
    <3>1. f[i - 1] = <<>>
      BY <2>1, <2>3
    <3>2. f[i] = <<>> \o ss[i]
      BY <2>2, <3>1
    <3>3. f[i] = ss[i]
      BY <1>0, <1>3, <3>2
    <3>. QED
      BY <2>3, <3>3
  <2>4. CASE i # 1
    <3>1. i - 1 \in 1 .. Len(ss)
      BY <1>0, <2>4
    <3>. QED
      BY <2>2, <2>4, <3>1
  <2>. QED
    BY <2>3, <2>4
<1>7. Joins(ss, h)
  <2>1. h = [i \in 1 .. Len(ss) |-> h[i]]
    OBVIOUS
  <2> HIDE DEF h
  <2>. QED
    BY <1>6, <2>1 DEF Joins
<1> HIDE DEF h
<1>. QED
  BY <1>5, <1>7

(* FlattenSeq of a beginning is the concatenation of that beginning.       *)
LEMMA FlattenIsJoin ==
    ASSUME NEW S, NEW ss \in Seq(Seq(S)), NEW f, Joins(ss, f), NEW n \in 1 .. Len(ss)
    PROVE  FlattenSeq(SubSeq(ss, 1, n)) = f[n]
<1> DEFINE t == SubSeq(ss, 1, n)
<1>0. /\ t \in Seq(Seq(S)) /\ Len(t) = n /\ n \in Nat /\ n > 0 /\ Len(ss) \in Nat
      /\ \A i \in 1 .. n : t[i] = ss[i]
  BY SubSeqProperties
<1> HIDE DEF t
<1>1. \E g : Joins(t, g)
  BY <1>0, JoinsExist
<1> DEFINE g == CHOOSE flatten : Joins(t, flatten)
<1>2. Joins(t, g)
  BY <1>1
<1>3. FlattenSeq(t) = g[n]
  BY <1>0 DEF FlattenSeq, Joins
<1> HIDE DEF g
<1> DEFINE T == {i \in 0 .. n : i > 0 => g[i] = f[i]}
<1>4. 0 \in T
  BY <1>0
<1>5. ASSUME NEW i \in 0 .. n - 1, i \in T PROVE i + 1 \in T
  <2>1. i + 1 \in 1 .. n /\ i + 1 \in 1 .. Len(ss) /\ (i + 1) - 1 = i /\ i + 1 \in 0 .. n
    BY <1>0
  <2>2. g[i + 1] = IF i + 1 = 1 THEN ss[i + 1] ELSE g[i] \o ss[i + 1]
    BY <1>0, <1>2, <2>1 DEF Joins
  <2>3. f[i + 1] = IF i + 1 = 1 THEN ss[i + 1] ELSE f[i] \o ss[i + 1]
    BY <1>0, <2>1 DEF Joins
  <2>4. i + 1 # 1 => g[i] = f[i]
    BY <1>0, <1>5
  <2>. QED
    BY <2>1, <2>2, <2>3, <2>4
<1>6. \A i \in 0 .. n : i \in T
  <2> HIDE DEF T
  <2>. QED
    BY <1>0, <1>4, <1>5, BoundedInduction
<1>7. g[n] = f[n]
  BY <1>0, <1>6
<1>. QED
  BY <1>3, <1>7 DEF t

(* Each sequence follows those before it.                                  *)
LEMMA FlattenGrows ==
    ASSUME NEW S, NEW ss \in Seq(Seq(S))
    PROVE  /\ FlattenSeq(SubSeq(ss, 1, 0)) = <<>>
           /\ FlattenSeq(SubSeq(ss, 1, Len(ss))) = FlattenSeq(ss)
           /\ \A n \in 0 .. Len(ss) : FlattenSeq(SubSeq(ss, 1, n)) \in Seq(S)
           /\ \A n \in 0 .. Len(ss) - 1 :
                 FlattenSeq(SubSeq(ss, 1, n + 1)) = FlattenSeq(SubSeq(ss, 1, n)) \o ss[n + 1]
<1>0. Len(ss) \in Nat /\ \A i \in 1 .. Len(ss) : ss[i] \in Seq(S)
  OBVIOUS
<1>1. FlattenSeq(SubSeq(ss, 1, 0)) = <<>>
  <2>1. SubSeq(ss, 1, 0) = <<>>
    BY SubSeqEmpty
  <2>. QED
    BY <2>1 DEF FlattenSeq
<1>2. SubSeq(ss, 1, Len(ss)) = ss
  BY SubSeqFull
<1>e. <<>> \in Seq(S)
  BY EmptySeq
<1>f. FlattenSeq(SubSeq(ss, 1, Len(ss))) = FlattenSeq(ss)
  BY <1>2
<1>3. CASE Len(ss) = 0
  <2>1. \A n \in 0 .. Len(ss) : n = 0
    BY <1>3
  <2>2. \A n \in 0 .. Len(ss) - 1 : FALSE
    BY <1>3
  <2>. QED
    BY <1>1, <1>e, <1>f, <2>1, <2>2
<1>4. CASE Len(ss) > 0
  <2>1. PICK f \in [1 .. Len(ss) -> Seq(S)] : Joins(ss, f)
    BY <1>4, JoinsExist
  <2>2. \A n \in 1 .. Len(ss) : FlattenSeq(SubSeq(ss, 1, n)) = f[n]
    BY <2>1, FlattenIsJoin
  <2>3. \A v \in Seq(S) : <<>> \o v = v
    BY ConcatEmptySeq
  <2>4. ASSUME NEW n \in 0 .. Len(ss) - 1
        PROVE  FlattenSeq(SubSeq(ss, 1, n + 1)) = FlattenSeq(SubSeq(ss, 1, n)) \o ss[n + 1]
    <3>1. n + 1 \in 1 .. Len(ss) /\ (n + 1) - 1 = n
      BY <1>0
    <3>2. f[n + 1] = IF n + 1 = 1 THEN ss[n + 1] ELSE f[n] \o ss[n + 1]
      BY <2>1, <3>1 DEF Joins
    <3>3. CASE n = 0
      <4>1. FlattenSeq(SubSeq(ss, 1, n)) = <<>>
        BY <1>1, <3>3
      <4>2. FlattenSeq(SubSeq(ss, 1, n + 1)) = ss[n + 1]
        BY <2>2, <3>1, <3>2, <3>3
      <4>3. <<>> \o ss[n + 1] = ss[n + 1]
        BY <1>0, <2>3, <3>1
      <4>. QED
        BY <4>1, <4>2, <4>3
    <3>4. CASE n # 0
      <4>1. n \in 1 .. Len(ss) /\ n + 1 # 1
        BY <1>0, <3>4
      <4>. QED
        BY <2>2, <3>1, <3>2, <4>1
    <3>. QED
      BY <3>3, <3>4
  <2>5. ASSUME NEW n \in 0 .. Len(ss) PROVE FlattenSeq(SubSeq(ss, 1, n)) \in Seq(S)
    <3>1. CASE n = 0
      BY <1>1, <1>e, <3>1
    <3>2. CASE n # 0
      <4>1. n \in 1 .. Len(ss)
        BY <1>0, <3>2
      <4>. QED
        BY <2>1, <2>2, <4>1
    <3>. QED
      BY <3>1, <3>2
  <2>. QED
    BY <1>1, <1>f, <2>4, <2>5
<1>5. Len(ss) = 0 \/ Len(ss) > 0
  BY <1>0
<1>. QED
  BY <1>3, <1>4, <1>5, Zenon

(* The j-th element of the k-th sequence comes after all elements of the   *)
(* sequences before it, and there is nothing else.                         *)
LEMMA FlattenPlaces ==
    ASSUME NEW S, NEW ss \in Seq(Seq(S))
    PROVE  /\ FlattenSeq(ss) \in Seq(S)
           /\ \A k \in 1 .. Len(ss) : \A j \in 1 .. Len(ss[k]) :
                 LET place == Len(FlattenSeq(SubSeq(ss, 1, k - 1))) + j IN
                 /\ place \in 1 .. Len(FlattenSeq(ss))
                 /\ FlattenSeq(ss)[place] = ss[k][j]
           /\ \A i \in 1 .. Len(FlattenSeq(ss)) :
                 \E k \in 1 .. Len(ss) : \E j \in 1 .. Len(ss[k]) :
                    i = Len(FlattenSeq(SubSeq(ss, 1, k - 1))) + j
<1> DEFINE pre == [n \in 0 .. Len(ss) |-> FlattenSeq(SubSeq(ss, 1, n))]
<1>0. /\ Len(ss) \in Nat /\ \A i \in 1 .. Len(ss) : ss[i] \in Seq(S)
  OBVIOUS
<1>1. /\ pre[0] = <<>>
      /\ pre[Len(ss)] = FlattenSeq(ss)
      /\ \A n \in 0 .. Len(ss) : pre[n] \in Seq(S) /\ pre[n] = FlattenSeq(SubSeq(ss, 1, n))
      /\ \A n \in 0 .. Len(ss) - 1 : pre[n + 1] = pre[n] \o ss[n + 1]
  <2>0. 0 \in 0 .. Len(ss) /\ Len(ss) \in 0 .. Len(ss)
    BY <1>0
  <2>1. \A n \in 0 .. Len(ss) : pre[n] = FlattenSeq(SubSeq(ss, 1, n))
    OBVIOUS
  <2>2. \A n \in 0 .. Len(ss) - 1 : n \in 0 .. Len(ss) /\ n + 1 \in 0 .. Len(ss)
    BY <1>0
  <2> HIDE DEF pre
  <2>. QED
    BY <2>0, <2>1, <2>2, FlattenGrows
<1> HIDE DEF pre
<1> DEFINE T == {n \in 0 .. Len(ss) :
                    /\ \A k \in 1 .. n : \A j \in 1 .. Len(ss[k]) :
                          /\ Len(pre[k - 1]) + j \in 1 .. Len(pre[n])
                          /\ pre[n][Len(pre[k - 1]) + j] = ss[k][j]
                    /\ \A i \in 1 .. Len(pre[n]) : \E k \in 1 .. n : \E j \in 1 .. Len(ss[k]) :
                          i = Len(pre[k - 1]) + j}
<1>2. 0 \in T
  BY <1>0, <1>1
<1>3. ASSUME NEW n \in 0 .. Len(ss) - 1, n \in T PROVE n + 1 \in T
  <2>0. n + 1 \in 1 .. Len(ss) /\ n + 1 \in 0 .. Len(ss) /\ n \in 0 .. Len(ss) /\ (n + 1) - 1 = n
    BY <1>0
  <2> DEFINE a == pre[n]
             b == ss[n + 1]
  <2>1. pre[n + 1] = a \o b /\ a \in Seq(S) /\ b \in Seq(S)
    BY <1>0, <1>1, <2>0
  <2>2. /\ Len(a) \in Nat /\ Len(b) \in Nat
        /\ Len(pre[n + 1]) = Len(a) + Len(b)
        /\ \A i \in 1 .. Len(a) : pre[n + 1][i] = a[i]
        /\ \A j \in 1 .. Len(b) : pre[n + 1][Len(a) + j] = b[j]
    <3> HIDE DEF a, b
    <3>. QED
      BY <2>1, ConcatProperties
  <2>3. ASSUME NEW k \in 1 .. n + 1, NEW j \in 1 .. Len(ss[k])
        PROVE  /\ Len(pre[k - 1]) + j \in 1 .. Len(pre[n + 1])
               /\ pre[n + 1][Len(pre[k - 1]) + j] = ss[k][j]
    <3>1. CASE k = n + 1
      <4>1. pre[k - 1] = a /\ ss[k] = b
        BY <2>0, <3>1
      <4> HIDE DEF a, b
      <4>. QED
        BY <2>2, <4>1
    <3>2. CASE k # n + 1
      <4>1. k \in 1 .. n
        BY <2>0, <3>2
      <4> DEFINE place == Len(pre[k - 1]) + j
      <4>2. place \in 1 .. Len(a) /\ a[place] = ss[k][j]
        BY <1>3, <4>1
      <4> HIDE DEF a, b, place
      <4>3. place \in 1 .. Len(pre[n + 1]) /\ pre[n + 1][place] = ss[k][j]
        BY <2>2, <4>2
      <4>. QED
        BY <4>3 DEF place
    <3>. QED
      BY <3>1, <3>2
  <2>4. ASSUME NEW i \in 1 .. Len(pre[n + 1])
        PROVE  \E k \in 1 .. n + 1 : \E j \in 1 .. Len(ss[k]) : i = Len(pre[k - 1]) + j
    <3>1. CASE i <= Len(a)
      <4>1. i \in 1 .. Len(pre[n])
        BY <2>2, <3>1
      <4>2. \E k \in 1 .. n : \E j \in 1 .. Len(ss[k]) : i = Len(pre[k - 1]) + j
        BY <1>3, <4>1
      <4>. QED
        BY <2>0, <4>2
    <3>2. CASE i > Len(a)
      <4>1. i - Len(a) \in 1 .. Len(b) /\ i = Len(a) + (i - Len(a))
        <5> HIDE DEF a, b
        <5>. QED
          BY <2>2, <3>2
      <4>2. i - Len(a) \in 1 .. Len(ss[n + 1]) /\ i = Len(pre[(n + 1) - 1]) + (i - Len(a))
        BY <2>0, <4>1
      <4>3. n + 1 \in 1 .. n + 1
        BY <2>0
      <4> HIDE DEF a, b
      <4>. QED
        BY <4>2, <4>3
    <3>. QED
      BY <2>2, <3>1, <3>2
  <2>. QED
    BY <2>0, <2>3, <2>4
<1>4. Len(ss) \in T
  <2>1. \A n \in 0 .. Len(ss) : n \in T
    <3> HIDE DEF T
    <3>. QED
      BY <1>0, <1>2, <1>3, BoundedInduction
  <2> HIDE DEF T
  <2>. QED
    BY <1>0, <2>1
<1>5. \A k \in 1 .. Len(ss) : k - 1 \in 0 .. Len(ss) /\ pre[k - 1] = FlattenSeq(SubSeq(ss, 1, k - 1))
  <2>1. \A k \in 1 .. Len(ss) : k - 1 \in 0 .. Len(ss)
    BY <1>0
  <2>2. \A n \in 0 .. Len(ss) : pre[n] = FlattenSeq(SubSeq(ss, 1, n))
    BY <1>1
  <2> HIDE DEF T
  <2>. QED
    BY <2>1, <2>2, Zenon
<1>6. /\ \A k \in 1 .. Len(ss) : \A j \in 1 .. Len(ss[k]) :
            /\ Len(pre[k - 1]) + j \in 1 .. Len(pre[Len(ss)])
            /\ pre[Len(ss)][Len(pre[k - 1]) + j] = ss[k][j]
      /\ \A i \in 1 .. Len(pre[Len(ss)]) : \E k \in 1 .. Len(ss) : \E j \in 1 .. Len(ss[k]) :
            i = Len(pre[k - 1]) + j
  BY <1>4
<1> HIDE DEF T
<1>7. FlattenSeq(ss) \in Seq(S)
  <2>1. Len(ss) \in 0 .. Len(ss)
    BY <1>0
  <2>. QED
    BY <1>1, <2>1
<1>8. /\ \A k \in 1 .. Len(ss) : \A j \in 1 .. Len(ss[k]) :
            /\ Len(pre[k - 1]) + j \in 1 .. Len(FlattenSeq(ss))
            /\ FlattenSeq(ss)[Len(pre[k - 1]) + j] = ss[k][j]
      /\ \A i \in 1 .. Len(FlattenSeq(ss)) : \E k \in 1 .. Len(ss) : \E j \in 1 .. Len(ss[k]) :
            i = Len(pre[k - 1]) + j
  <2>1. pre[Len(ss)] = FlattenSeq(ss)
    BY <1>1
  <2>. QED
    BY <1>6, <2>1
<1>9. ASSUME NEW k \in 1 .. Len(ss)
      PROVE  Len(pre[k - 1]) = Len(FlattenSeq(SubSeq(ss, 1, k - 1)))
  BY <1>5
<1>10. \A k \in 1 .. Len(ss) : \A j \in 1 .. Len(ss[k]) :
          LET place == Len(FlattenSeq(SubSeq(ss, 1, k - 1))) + j IN
          /\ place \in 1 .. Len(FlattenSeq(ss))
          /\ FlattenSeq(ss)[place] = ss[k][j]
  BY <1>8, <1>9, Zenon
<1>11. \A i \in 1 .. Len(FlattenSeq(ss)) : \E k \in 1 .. Len(ss) : \E j \in 1 .. Len(ss[k]) :
          i = Len(FlattenSeq(SubSeq(ss, 1, k - 1))) + j
  <2> SUFFICES ASSUME NEW i \in 1 .. Len(FlattenSeq(ss))
               PROVE  \E k \in 1 .. Len(ss) : \E j \in 1 .. Len(ss[k]) :
                         i = Len(FlattenSeq(SubSeq(ss, 1, k - 1))) + j
    OBVIOUS
  <2>1. PICK k \in 1 .. Len(ss) : \E j \in 1 .. Len(ss[k]) : i = Len(pre[k - 1]) + j
    BY <1>8
  <2>2. PICK j \in 1 .. Len(ss[k]) : i = Len(pre[k - 1]) + j
    BY <2>1
  <2>3. i = Len(FlattenSeq(SubSeq(ss, 1, k - 1))) + j
    BY <1>9, <2>2, Zenon
  <2>. QED
    BY <2>3, Zenon
<1>. QED
  BY <1>7, <1>10, <1>11

-----------------------------------------------------------------------------
(* The nodes of a tree, level by level.                                    *)

(* The operands of each of the nodes es.                                   *)
OperandLists(es) == [k \in DOMAIN es |-> Operands(es[k])]

(* Sequences of one and of two elements.                                   *)
LEMMA ShortSeqs ==
    ASSUME NEW S, NEW a \in S, NEW b \in S
    PROVE  /\ <<a>> \in Seq(S) /\ Len(<<a>>) = 1
           /\ <<a, b>> \in Seq(S) /\ Len(<<a, b>>) = 2
OBVIOUS

(* Operands are trees, one level lower in a tree with its leaves at the    *)
(* bottom.                                                                 *)
LEMMA OperandsType ==
    /\ \A e \in Expr : Operands(e) \in Seq(Expr)
    /\ \A h \in 1 .. MaxDepth : \A e \in Full[h] :
          Operands(e) \in Seq(Full[h - 1]) /\ Len(Operands(e)) \in {1, 2}
<1>0. MaxDepth \in Nat
  BY ProgramsAssumption
<1>1. ASSUME NEW e \in Expr PROVE Operands(e) \in Seq(Expr)
  <2>1. CASE IsLeaf(e)
    BY <2>1, EmptySeq DEF Operands
  <2>2. CASE ~IsLeaf(e)
    <3>1. e.l \in Expr /\ e.r \in Expr
      <4>1. /\ MaxDepth \in 0 .. MaxDepth /\ e \in Exprs[MaxDepth]
            /\ \A h \in 0 .. MaxDepth : Exprs[h] \subseteq Expr
        BY <1>0, ExprsGrow DEF Expr
      <4>. QED
        BY <2>2, <4>1, ExprCases
    <3>. QED
      BY <2>2, <3>1 DEF Operands
  <2>. QED
    BY <2>1, <2>2
<1>2. ASSUME NEW h \in 1 .. MaxDepth, NEW e \in Full[h]
      PROVE  Operands(e) \in Seq(Full[h - 1]) /\ Len(Operands(e)) \in {1, 2}
  <2>1. h \in 0 .. MaxDepth /\ h > 0 /\ h # 0
    BY <1>0
  <2>2. /\ ~IsLeaf(e) /\ e.l \in Full[h - 1]
        /\ \/ e.tag \in {"plus", "times", "minus"} /\ e.r \in Full[h - 1]
           \/ e.tag = "pass"
    BY <2>1, FullFacts
  <2>3. CASE e.tag = "pass"
    <3>1. Operands(e) = <<e.l>>
      BY <2>2, <2>3 DEF Operands
    <3>. QED
      BY <2>2, <3>1, ShortSeqs
  <2>4. CASE e.tag # "pass"
    <3>1. Operands(e) = <<e.l, e.r>>
      BY <2>2, <2>4 DEF Operands
    <3>2. e.l \in Full[h - 1] /\ e.r \in Full[h - 1]
      BY <2>2, <2>4
    <3>. QED
      BY <3>1, <3>2, ShortSeqs
  <2>. QED
    BY <2>3, <2>4
<1>. QED
  BY <1>1, <1>2

(* Where the operands of the k-th node are among those of all.             *)
OperandPlace(es, k, j) == Len(OperandsOf(SubSeq(es, 1, k - 1))) + j

(* The operands of es are those of its nodes, each at its place.           *)
OperandPlaces(es) ==
    /\ \A k \in 1 .. Len(es) : \A j \in 1 .. Len(Operands(es[k])) :
          /\ OperandPlace(es, k, j) \in 1 .. Len(OperandsOf(es))
          /\ OperandsOf(es)[OperandPlace(es, k, j)] = Operands(es[k])[j]
    /\ \A i \in 1 .. Len(OperandsOf(es)) :
          \E k \in 1 .. Len(es) : \E j \in 1 .. Len(Operands(es[k])) :
             i = OperandPlace(es, k, j)

(* The operands of a sequence of nodes are the lists of its nodes put      *)
(* together, and so are those of its first nodes.                          *)
LEMMA OperandsAreLists ==
    ASSUME NEW S, NEW U, NEW es \in Seq(U), \A e \in U : Operands(e) \in Seq(S)
    PROVE  LET ss == OperandLists(es) IN
           /\ ss \in Seq(Seq(S)) /\ Len(ss) = Len(es)
           /\ \A k \in 1 .. Len(es) : ss[k] = Operands(es[k])
           /\ OperandsOf(es) = FlattenSeq(ss)
           /\ \A k \in 1 .. Len(es) :
                 OperandsOf(SubSeq(es, 1, k - 1)) = FlattenSeq(SubSeq(ss, 1, k - 1))
<1> DEFINE ss == OperandLists(es)
<1>0. Len(es) \in Nat /\ DOMAIN es = 1 .. Len(es) /\ \A i \in 1 .. Len(es) : es[i] \in U
  OBVIOUS
<1>1. /\ ss \in Seq(Seq(S)) /\ Len(ss) = Len(es)
      /\ \A k \in 1 .. Len(es) : ss[k] = Operands(es[k])
  BY <1>0 DEF OperandLists
<1>2. OperandsOf(es) = FlattenSeq(ss)
  BY DEF OperandsOf, OperandLists
<1>3. ASSUME NEW k \in 1 .. Len(es)
      PROVE  OperandsOf(SubSeq(es, 1, k - 1)) = FlattenSeq(SubSeq(ss, 1, k - 1))
  <2> DEFINE a == SubSeq(es, 1, k - 1)
             b == SubSeq(ss, 1, k - 1)
  <2>0. k - 1 \in Nat /\ k - 1 <= Len(es) /\ 1 .. k - 1 \subseteq 1 .. Len(es)
        /\ \A i \in 1 .. k - 1 : es[i] \in U /\ ss[i] \in Seq(S)
    BY <1>0, <1>1
  <2>1. /\ a \in Seq(U) /\ Len(a) = k - 1
        /\ \A i \in 1 .. k - 1 : a[i] = es[i]
    BY <2>0, SubSeqProperties
  <2>2. /\ b \in Seq(Seq(S)) /\ Len(b) = k - 1
        /\ \A i \in 1 .. k - 1 : b[i] = ss[i]
    <3> HIDE DEF ss
    <3>. QED
      BY <2>0, SubSeqProperties
  <2> HIDE DEF a, b, ss
  <2>3. DOMAIN a = 1 .. k - 1 /\ DOMAIN b = 1 .. k - 1
    BY <2>1, <2>2
  <2>4. b = [i \in 1 .. k - 1 |-> b[i]]
    BY <2>0, <2>2
  <2>5. \A i \in 1 .. k - 1 : b[i] = Operands(a[i])
    BY <2>0, <2>1, <2>2, <1>1
  <2>6. [i \in DOMAIN a |-> Operands(a[i])] = b
    BY <2>3, <2>4, <2>5
  <2>. QED
    BY <2>6 DEF OperandsOf, a, b
<1> HIDE DEF ss
<1>4. /\ ss \in Seq(Seq(S)) /\ Len(ss) = Len(es)
      /\ \A k \in 1 .. Len(es) : ss[k] = Operands(es[k])
      /\ OperandsOf(es) = FlattenSeq(ss)
      /\ \A k \in 1 .. Len(es) :
            OperandsOf(SubSeq(es, 1, k - 1)) = FlattenSeq(SubSeq(ss, 1, k - 1))
  BY <1>1, <1>2, <1>3
<1>. QED
  BY <1>4 DEF ss

(* The operands of a sequence of nodes, in order.                          *)
LEMMA OperandsOfPlaces ==
    ASSUME NEW S, NEW U, NEW es \in Seq(U), \A e \in U : Operands(e) \in Seq(S)
    PROVE  OperandsOf(es) \in Seq(S) /\ OperandPlaces(es)
<1> DEFINE ss == OperandLists(es)
<1> HIDE DEF ss
<1>1. /\ ss \in Seq(Seq(S)) /\ Len(ss) = Len(es)
      /\ \A k \in 1 .. Len(es) : ss[k] = Operands(es[k])
  BY OperandsAreLists DEF ss
<1>2. OperandsOf(es) = FlattenSeq(ss)
  BY OperandsAreLists DEF ss
<1>3. \A k \in 1 .. Len(es) :
         OperandsOf(SubSeq(es, 1, k - 1)) = FlattenSeq(SubSeq(ss, 1, k - 1))
  BY OperandsAreLists DEF ss
<1>. QED
  <2>1. /\ FlattenSeq(ss) \in Seq(S)
        /\ \A k \in 1 .. Len(ss) : \A j \in 1 .. Len(ss[k]) :
                 LET place == Len(FlattenSeq(SubSeq(ss, 1, k - 1))) + j IN
                 /\ place \in 1 .. Len(FlattenSeq(ss))
                 /\ FlattenSeq(ss)[place] = ss[k][j]
        /\ \A i \in 1 .. Len(FlattenSeq(ss)) :
                 \E k \in 1 .. Len(ss) : \E j \in 1 .. Len(ss[k]) :
                    i = Len(FlattenSeq(SubSeq(ss, 1, k - 1))) + j
    BY <1>1, FlattenPlaces
  <2>2. \A k \in 1 .. Len(es) : \A j \in 1 .. Len(Operands(es[k])) :
                 /\ OperandPlace(es, k, j) \in 1 .. Len(OperandsOf(es))
                 /\ OperandsOf(es)[OperandPlace(es, k, j)] = Operands(es[k])[j]
    <3> SUFFICES ASSUME NEW k \in 1 .. Len(es), NEW j \in 1 .. Len(Operands(es[k]))
                 PROVE  /\ OperandPlace(es, k, j) \in 1 .. Len(OperandsOf(es))
                        /\ OperandsOf(es)[OperandPlace(es, k, j)] = Operands(es[k])[j]
      OBVIOUS
    <3>1. k \in 1 .. Len(ss) /\ j \in 1 .. Len(ss[k]) /\ ss[k] = Operands(es[k])
      BY <1>1
    <3>2. OperandsOf(SubSeq(es, 1, k - 1)) = FlattenSeq(SubSeq(ss, 1, k - 1))
      BY <1>3
    <3>. QED
      BY <1>2, <2>1, <3>1, <3>2 DEF OperandPlace
  <2>3. ASSUME NEW i \in 1 .. Len(OperandsOf(es))
        PROVE  \E k \in 1 .. Len(es) : \E j \in 1 .. Len(Operands(es[k])) :
                    i = OperandPlace(es, k, j)
    <3>1. PICK k \in 1 .. Len(ss) : \E j \in 1 .. Len(ss[k]) :
                    i = Len(FlattenSeq(SubSeq(ss, 1, k - 1))) + j
      BY <1>2, <2>1
    <3>2. k \in 1 .. Len(es) /\ ss[k] = Operands(es[k])
      BY <1>1
    <3>3. OperandsOf(SubSeq(es, 1, k - 1)) = FlattenSeq(SubSeq(ss, 1, k - 1))
      BY <1>3, <3>2
    <3>. QED
      BY <3>1, <3>2, <3>3 DEF OperandPlace
  <2>. QED
    BY <1>2, <2>1, <2>2, <2>3 DEF OperandPlaces

(* One level down is the operands of the level above.                      *)
LEMMA LevelUnfold ==
    ASSUME NEW e \in Expr
    PROVE  /\ Level(e, 0) = <<e>>
           /\ \A d \in Nat : Level(e, d + 1) = OperandsOf(Level(e, d))
<1> DEFINE g == [x \in Nat \X Seq(Expr) |-> OperandsOf(x[2])]
           Levels(f) == f = [k \in Nat |-> IF k = 0 THEN <<e>> ELSE OperandsOf(f[k - 1])]
<1>1. g \in [Nat \X Seq(Expr) -> Seq(Expr)]
  BY OperandsType, OperandsOfPlaces
<1>2. \A n \in Nat, v \in Seq(Expr) : g[<<n, v>>] = OperandsOf(v)
  OBVIOUS
<1> HIDE DEF g
<1>3. PICK f : Iterates(Seq(Expr), <<e>>, g, f)
  <2>1. <<e>> \in Seq(Expr)
    OBVIOUS
  <2>. QED
    BY <1>1, <2>1, NatRecursion
<1>4. ASSUME NEW k \in Nat PROVE f[k] = IF k = 0 THEN <<e>> ELSE OperandsOf(f[k - 1])
  <2>1. CASE k = 0
    BY <1>3, <2>1 DEF Iterates
  <2>2. CASE k # 0
    <3>1. k - 1 \in Nat /\ (k - 1) + 1 = k
      BY <2>2
    <3>2. f[k] = g[<<k - 1, f[k - 1]>>] /\ f[k - 1] \in Seq(Expr)
      BY <1>3, <3>1 DEF Iterates
    <3>. QED
      BY <1>2, <2>2, <3>1, <3>2
  <2>. QED
    BY <2>1, <2>2
<1>5. Levels(f)
  <2>1. f = [k \in Nat |-> f[k]]
    BY <1>3 DEF Iterates
  <2>. QED
    BY <1>4, <2>1
<1> DEFINE level == CHOOSE f2 : Levels(f2)
<1>6. Levels(level)
  <2> HIDE DEF Levels
  <2>. QED
    BY <1>5
<1>7. \A d \in Nat : Level(e, d) = level[d]
  BY DEF Level
<1> HIDE DEF level
<1>8. \A d \in Nat : d + 1 \in Nat /\ d + 1 # 0 /\ (d + 1) - 1 = d
  OBVIOUS
<1>. QED
  BY <1>6, <1>7, <1>8

(* All nodes d levels below the root of a tree with its leaves at the      *)
(* bottom are of the same height.                                          *)
LEMMA LevelFull ==
    ASSUME NEW h \in 0 .. MaxDepth, NEW e \in Full[h]
    PROVE  \A d \in 0 .. h : Level(e, d) \in Seq(Full[h - d]) /\ Len(Level(e, d)) > 0
<1>0. MaxDepth \in Nat /\ h \in Nat /\ e \in Expr
  BY ProgramsAssumption, FullFacts
<1> DEFINE T == {d \in 0 .. h : Level(e, d) \in Seq(Full[h - d]) /\ Len(Level(e, d)) > 0}
<1>1. 0 \in T
  <2>1. Level(e, 0) = <<e>> /\ h - 0 = h
    BY <1>0, LevelUnfold
  <2>2. <<e>> \in Seq(Full[h]) /\ Len(<<e>>) > 0
    <3>1. <<e>> \in Seq(Full[h]) /\ Len(<<e>>) = 1
      BY ShortSeqs
    <3>2. \A n : n = 1 => n > 0
      OBVIOUS
    <3>. QED
      BY <3>1, <3>2, Zenon
  <2>3. Level(e, 0) \in Seq(Full[h - 0]) /\ Len(Level(e, 0)) > 0
    BY <2>1, <2>2
  <2>. QED
    BY <1>0, <2>3
<1>2. ASSUME NEW d \in 0 .. h - 1, d \in T PROVE d + 1 \in T
  <2> DEFINE es == Level(e, d)
             k == h - d
  <2>0. /\ d + 1 \in 0 .. h /\ k \in 1 .. MaxDepth /\ h - (d + 1) = k - 1 /\ d \in Nat
    BY <1>0
  <2>1. es \in Seq(Full[k]) /\ Len(es) > 0 /\ Len(es) \in Nat
    BY <1>2
  <2>2. Level(e, d + 1) = OperandsOf(es)
    BY <1>0, <2>0, LevelUnfold
  <2> HIDE DEF es, k
  <2>3. \A x \in Full[k] : Operands(x) \in Seq(Full[k - 1]) /\ Len(Operands(x)) \in {1, 2}
    BY <2>0, OperandsType
  <2>4. OperandsOf(es) \in Seq(Full[k - 1])
    BY <2>1, <2>3, OperandsOfPlaces
  <2>5. Len(OperandsOf(es)) > 0
    <3>1. 1 \in 1 .. Len(es) /\ es[1] \in Full[k]
      BY <2>1
    <3>2. 1 \in 1 .. Len(Operands(es[1]))
      <4>1. Len(Operands(es[1])) \in {1, 2}
        BY <2>3, <3>1
      <4>2. \A n \in {1, 2} : 1 \in 1 .. n
        OBVIOUS
      <4>. QED
        BY <4>1, <4>2, Zenon
    <3>3. \E i : i \in 1 .. Len(OperandsOf(es))
      <4>1. OperandPlaces(es)
        BY <2>1, <2>3, OperandsOfPlaces
      <4>. QED
        BY <3>1, <3>2, <4>1 DEF OperandPlaces
    <3>4. Len(OperandsOf(es)) \in Nat
      BY <2>4
    <3>. QED
      BY <3>3, <3>4
  <2>. QED
    BY <2>0, <2>2, <2>4, <2>5
<1>3. \A d \in 0 .. h : d \in T
  <2> HIDE DEF T
  <2>. QED
    BY <1>0, <1>1, <1>2, BoundedInduction
<1>. QED
  BY <1>3

(* The levels of a tree with its leaves at the bottom, as layers: each is  *)
(* of one height, and the operands of one layer are the next.              *)
LEMMA NodesFull ==
    ASSUME NEW h \in 0 .. MaxDepth, NEW e \in Full[h]
    PROVE  /\ DOMAIN Nodes(e) = -1 .. h - 1
           /\ \A layer \in -1 .. h - 1 : /\ layer + 1 \in 0 .. MaxDepth
                                         /\ Nodes(e)[layer] \in Seq(Full[layer + 1])
                                         /\ Len(Nodes(e)[layer]) > 0
           /\ \A layer \in 0 .. h - 1 : Nodes(e)[layer - 1] = OperandsOf(Nodes(e)[layer])
           /\ Nodes(e)[h - 1] = <<e>>
<1>0. MaxDepth \in Nat /\ h \in Nat /\ e \in Expr /\ GetMaxDepth[e] = h
  BY ProgramsAssumption, FullFacts
<1>1. Nodes(e) = [layer \in -1 .. h - 1 |-> Level(e, (h - 1) - layer)]
  BY <1>0 DEF Nodes
<1>2. ASSUME NEW layer \in -1 .. h - 1
      PROVE  /\ layer + 1 \in 0 .. MaxDepth
             /\ Nodes(e)[layer] \in Seq(Full[layer + 1])
             /\ Len(Nodes(e)[layer]) > 0
  <2>1. /\ (h - 1) - layer \in 0 .. h /\ h - ((h - 1) - layer) = layer + 1
        /\ layer + 1 \in 0 .. MaxDepth
    BY <1>0
  <2>2. Nodes(e)[layer] = Level(e, (h - 1) - layer)
    BY <1>1
  <2>. QED
    BY <2>1, <2>2, LevelFull
<1>3. ASSUME NEW layer \in 0 .. h - 1
      PROVE  Nodes(e)[layer - 1] = OperandsOf(Nodes(e)[layer])
  <2>1. /\ layer \in -1 .. h - 1 /\ layer - 1 \in -1 .. h - 1
        /\ (h - 1) - layer \in Nat
        /\ (h - 1) - (layer - 1) = ((h - 1) - layer) + 1
    BY <1>0
  <2>2. /\ Nodes(e)[layer] = Level(e, (h - 1) - layer)
        /\ Nodes(e)[layer - 1] = Level(e, ((h - 1) - layer) + 1)
    BY <1>1, <2>1
  <2>. QED
    BY <1>0, <2>1, <2>2, LevelUnfold
<1>4. Nodes(e)[h - 1] = <<e>>
  <2>1. h - 1 \in -1 .. h - 1 /\ (h - 1) - (h - 1) = 0
    BY <1>0
  <2>2. Nodes(e)[h - 1] = Level(e, 0)
    BY <1>1, <2>1
  <2>. QED
    BY <1>0, <2>2, LevelUnfold
<1>5. DOMAIN Nodes(e) = -1 .. h - 1
  BY <1>1
<1>. QED
  BY <1>2, <1>3, <1>4, <1>5

(* The transform pass keeps the depth and puts all leaves at the bottom.   *)
LEMMA LevelledFull ==
    ASSUME NEW e \in Expr
    PROVE  /\ GetMaxDepth[e] \in 0 .. MaxDepth
           /\ Levelled(e) \in Full[GetMaxDepth[e]]
           /\ Levelled(e) \in Expr
           /\ GetMaxDepth[Levelled(e)] = GetMaxDepth[e]
<1>1. GetMaxDepth[e] \in 0 .. MaxDepth /\ e \in Exprs[GetMaxDepth[e]]
  BY DepthIsHeight
<1>2. Levelled(e) \in Full[GetMaxDepth[e]]
  BY <1>1, TransformFills DEF Levelled
<1>. QED
  BY <1>1, <1>2, FullFacts

-----------------------------------------------------------------------------
(* How far the compiler got, and what it found on the way.                 *)

(* The allocation succeeded.                                               *)
Allocated == phase \in {"allocated", "cell assert"}

(* Each stage keeps what the stages before it have established.            *)
OutStages ==
    /\ program \in Programs
    /\ phase \in {"parsed", "transformed", "analysed", "exit",
                  "allocated", "unit assert", "cell assert"}
    /\ trees = IF phase = "parsed" THEN program
               ELSE [s \in DOMAIN program |-> Levelled(program[s])]
    /\ literals = IF phase \in {"parsed", "transformed"} THEN <<>> ELSE LiteralsOf(trees)
    /\ phase \in {"analysed", "allocated", "unit assert", "cell assert"}
          => CheckMeetHardwareConstaints(literals)
    /\ Allocated => \A s \in DOMAIN trees : AllocationFits(trees[s])
    /\ phase = "unit assert" => \E s \in DOMAIN trees : ~AllocationFits(trees[s])
    /\ routing = IF Allocated THEN [s \in DOMAIN trees |-> LayerRouting(trees[s])] ELSE <<>>
    /\ ~Allocated => written = 0
    /\ written \in 0 .. Len(trees)

(* The stages hold before the first pass.                                  *)
LEMMA StagesAtStart == OutInit => OutStages
<1> SUFFICES ASSUME OutInit PROVE OutStages
  OBVIOUS
<1>1. program \in Seq(Expr)
  BY ProgramsAssumption DEF OutInit
<1>. QED
  BY <1>1 DEF OutInit, OutStages, Allocated

(* A statement for each program expression.                                *)
LEMMA StagesLength ==
    ASSUME OutStages
    PROVE  program \in Seq(Expr) /\ trees \in Seq(Expr) /\ Len(trees) = Len(program)
<1>1. program \in Seq(Expr)
  BY ProgramsAssumption DEF OutStages
<1>2. CASE phase = "parsed"
  BY <1>1, <1>2 DEF OutStages
<1>3. CASE phase # "parsed"
  <2>1. trees = [s \in 1 .. Len(program) |-> Levelled(program[s])]
    <3>1. DOMAIN program = 1 .. Len(program)
      BY <1>1
    <3>2. trees = [s \in DOMAIN program |-> Levelled(program[s])]
      BY <1>3 DEF OutStages
    <3>. QED
      BY <3>1, <3>2
  <2>2. \A s \in 1 .. Len(program) : Levelled(program[s]) \in Expr
    BY <1>1, LevelledFull
  <2>. QED
    BY <1>1, <2>1, <2>2
<1>. QED
  BY <1>2, <1>3

(* The routing of a tree depends on no variable but the literals.          *)
LEMMA RoutingStays ==
    ASSUME literals' = literals, NEW e
    PROVE  LayerRouting(e)' = LayerRouting(e)
<1>1. \A x : Register(x)' = Register(x)
  BY DEF Register, LiteralRegister
<1>2. \A nodes, layer, k : Mapping(nodes, layer, k)' = Mapping(nodes, layer, k)
  BY <1>1, Zenon DEF Mapping
<1>3. ASSUME NEW nodes, NEW layer PROVE Inputs(nodes, layer)' = Inputs(nodes, layer)
  BY <1>2, Zenon DEF Inputs
<1>4. ASSUME NEW nodes, NEW layer PROVE PassOn(nodes, layer)' = PassOn(nodes, layer)
  BY <1>2, Zenon DEF PassOn
<1>. QED
  BY <1>3, <1>4, Zenon DEF LayerRouting

(* Every pass of the compiler, and every write to the device, keeps them.  *)
LEMMA StagesKept == OutStages /\ [OutNext]_outVars => OutStages'
<1> SUFFICES ASSUME OutStages, [OutNext]_outVars PROVE OutStages'
  OBVIOUS
<1>0. program \in Seq(Expr) /\ trees \in Seq(Expr) /\ Len(trees) = Len(program)
  BY StagesLength
<1>1. CASE TransformPass
  <2>1. /\ program' = program /\ phase' = "transformed" /\ literals' = literals
        /\ routing' = routing /\ written' = written /\ phase = "parsed"
        /\ trees' = [s \in DOMAIN trees |-> Levelled(trees[s])]
    BY <1>1 DEF TransformPass
  <2>2. trees = program /\ literals = <<>> /\ routing = <<>> /\ written = 0
    BY <2>1 DEF OutStages, Allocated
  <2>3. DOMAIN trees' = 1 .. Len(program) /\ Len(trees') \in Nat
    BY <1>0, <2>1, <2>2
  <2>. QED
    BY <2>1, <2>2, <2>3 DEF OutStages, Allocated
<1>2. CASE ResourceAnalysis
  <2>1. /\ program' = program /\ phase = "transformed" /\ literals' = LiteralsOf(trees)
        /\ routing' = routing /\ written' = written /\ trees' = trees
        /\ phase' = IF CheckMeetHardwareConstaints(literals') THEN "analysed" ELSE "exit"
    BY <1>2 DEF ResourceAnalysis
  <2>2. LiteralsOf(trees)' = LiteralsOf(trees)
    BY <2>1
  <2>3. phase' = "analysed" => CheckMeetHardwareConstaints(literals)'
    BY <2>1 DEF CheckMeetHardwareConstaints
  <2>. QED
    BY <2>1, <2>2, <2>3 DEF OutStages, Allocated
<1>3. CASE ResourceAllocation
  <2>1. /\ program' = program /\ phase = "analysed" /\ literals' = literals
        /\ written' = written /\ trees' = trees
    BY <1>3 DEF ResourceAllocation
  <2>2. \/ /\ phase' = "allocated" /\ \A s \in DOMAIN trees : AllocationFits(trees[s])
           /\ routing' = [s \in DOMAIN trees |-> LayerRouting(trees[s])]
        \/ /\ phase' = "unit assert" /\ routing' = routing
           /\ \E s \in DOMAIN trees : ~AllocationFits(trees[s])
    BY <1>3 DEF ResourceAllocation
  <2>3. CheckMeetHardwareConstaints(literals)'
    BY <2>1 DEF CheckMeetHardwareConstaints, OutStages
  <2>4. LiteralsOf(trees)' = LiteralsOf(trees)
    BY <2>1
  <2>5. [s \in DOMAIN trees |-> LayerRouting(trees[s])]'
           = [s \in DOMAIN trees |-> LayerRouting(trees[s])]
    BY <2>1, RoutingStays, Zenon
  <2> DEFINE R == [s \in DOMAIN trees |-> LayerRouting(trees[s])]
  <2>6. routing' = IF Allocated' THEN R' ELSE <<>>
    <3>1. routing = <<>>
      BY <2>1 DEF OutStages, Allocated
    <3> HIDE DEF R
    <3>. QED
      BY <2>2, <2>5, <3>1 DEF Allocated, R
  <2>. QED
    BY <2>1, <2>2, <2>3, <2>4, <2>6 DEF OutStages, Allocated
<1>4. CASE DoControlWrites
  <2>1. /\ program' = program /\ phase = "allocated" /\ literals' = literals
        /\ trees' = trees /\ routing' = routing /\ written < Len(trees)
        /\ \/ phase' = phase /\ written' = written + 1
           \/ phase' = "cell assert" /\ written' = written
    BY <1>4 DEF DoControlWrites
  <2>2. CheckMeetHardwareConstaints(literals)'
    BY <2>1 DEF CheckMeetHardwareConstaints, OutStages
  <2>3. LiteralsOf(trees)' = LiteralsOf(trees)
    BY <2>1
  <2>4. written' \in 0 .. Len(trees')
    <3>0. Len(trees) \in Nat
      BY <1>0
    <3>1. written \in 0 .. Len(trees)
      BY DEF OutStages
    <3>2. (written' = written \/ written' = written + 1) /\ written < Len(trees)
      BY <2>1
    <3>3. Len(trees') = Len(trees)
      BY <2>1
    <3>. QED
      BY <3>0, <3>1, <3>2, <3>3
  <2>5. [s \in DOMAIN trees |-> LayerRouting(trees[s])]'
           = [s \in DOMAIN trees |-> LayerRouting(trees[s])]
    BY <2>1, RoutingStays, Zenon
  <2>. QED
    BY <2>1, <2>2, <2>3, <2>4, <2>5 DEF OutStages, Allocated
<1>5. CASE UNCHANGED outVars
  <2>1. /\ program' = program /\ phase' = phase /\ literals' = literals
        /\ trees' = trees /\ routing' = routing /\ written' = written
    BY <1>5 DEF outVars
  <2>2. CheckMeetHardwareConstaints(literals)' <=> CheckMeetHardwareConstaints(literals)
    BY <2>1 DEF CheckMeetHardwareConstaints
  <2>3. LiteralsOf(trees)' = LiteralsOf(trees)
    BY <2>1
  <2>4. [s \in DOMAIN trees |-> LayerRouting(trees[s])]'
           = [s \in DOMAIN trees |-> LayerRouting(trees[s])]
    BY <2>1, RoutingStays, Zenon
  <2>. QED
    BY <2>1, <2>2, <2>3, <2>4 DEF OutStages, Allocated
<1>. QED
  BY <1>1, <1>2, <1>3, <1>4, <1>5 DEF OutNext

(* In every stage after the transform pass the trees are levelled.         *)
LEMMA StagesLevelled == OutStages => TreesLevelled
<1> SUFFICES ASSUME OutStages, phase # "parsed", NEW s \in DOMAIN trees
             PROVE  LET nodes == Nodes(trees[s]) IN
                    /\ GetMaxDepth[trees[s]] = GetMaxDepth[program[s]]
                    /\ \A layer \in DOMAIN nodes : \A k \in DOMAIN nodes[layer] :
                          IsLeaf(nodes[layer][k]) <=> layer = -1
  BY DEF TreesLevelled
<1>1. program \in Seq(Expr) /\ s \in DOMAIN program /\ trees[s] = Levelled(program[s])
  BY StagesLength DEF OutStages
<1> DEFINE h == GetMaxDepth[program[s]]
           e == trees[s]
<1>2. h \in 0 .. MaxDepth /\ e \in Full[h] /\ GetMaxDepth[e] = h
  <2>1. program[s] \in Expr
    BY <1>1
  <2>. QED
    BY <1>1, <2>1, LevelledFull
<1> HIDE DEF h, e
<1>3. ASSUME NEW layer \in DOMAIN Nodes(e), NEW k \in DOMAIN Nodes(e)[layer]
      PROVE  IsLeaf(Nodes(e)[layer][k]) <=> layer = -1
  <2>1. /\ layer \in -1 .. h - 1 /\ layer + 1 \in 0 .. MaxDepth
        /\ Nodes(e)[layer] \in Seq(Full[layer + 1])
    BY <1>2, NodesFull
  <2>2. Nodes(e)[layer][k] \in Full[layer + 1]
    BY <2>1
  <2>3. IsLeaf(Nodes(e)[layer][k]) <=> layer + 1 = 0
    BY <2>1, <2>2, FullFacts
  <2>4. layer + 1 = 0 <=> layer = -1
    BY <1>2, <2>1
  <2>. QED
    BY <2>3, <2>4
<1>. QED
  BY <1>2, <1>3 DEF h, e

(* For every program, and every stack of layers: the transform pass leaves *)
(* a tree of the depth the expression had, with every operand at the       *)
(* bottom and every operator above.                                        *)
THEOREM TreesAreLevelled == OutSpec => []TreesLevelled
<1>1. OutSpec => []OutStages
  BY StagesAtStart, StagesKept, PTL DEF OutSpec
<1>. QED
  BY <1>1, StagesLevelled, PTL

(* A layer can pass a value on.                                            *)
EveryLayerPasses == \A layer \in 0 .. NLayers : Layers[layer].pass > 0

(* Then units that suffice for the operators suffice for the answer too.   *)
LEMMA PassingSuffices ==
    ASSUME NEW e \in Expr, EveryLayerPasses, UnitsSuffice(e)
    PROVE  AllocationFits(e)
<1>1. GetMaxDepth[e] \in Nat
  BY DepthType
<1>2. ASSUME NEW layer \in GetMaxDepth[e] .. NLayers PROVE layer \in 0 .. NLayers
  <2>1. NLayers \in Nat
    BY HardwareAssumption
  <2>. QED
    BY <1>1, <2>1
<1>. QED
  BY <1>2 DEF AllocationFits, EveryLayerPasses

(* Where every layer can pass a value on, a program that passes the check  *)
(* of the hardware can be given its units: no assert of the allocation     *)
(* fails.                                                                  *)
THEOREM CheckSuffices == EveryLayerPasses => (OutSpec => []CheckCoversUnits)
<1> SUFFICES ASSUME EveryLayerPasses PROVE OutSpec => []CheckCoversUnits
  OBVIOUS
<1>1. OutSpec => []OutStages
  BY StagesAtStart, StagesKept, PTL DEF OutSpec
<1>2. OutStages => CheckCoversUnits
  <2> SUFFICES ASSUME OutStages, phase = "unit assert" PROVE FALSE
    BY DEF CheckCoversUnits
  <2>1. \A s \in DOMAIN trees : trees[s] \in Expr
    <3>1. trees \in Seq(Expr)
      BY StagesLength
    <3>2. DOMAIN trees = 1 .. Len(trees)
      BY <3>1, LenProperties
    <3>. QED
      BY <3>1, <3>2, ElementOfSeq
  <2>2. \A s \in DOMAIN trees : UnitsSuffice(trees[s])
    BY DEF OutStages, CheckMeetHardwareConstaints
  <2>3. \A s \in DOMAIN trees : AllocationFits(trees[s])
    BY <2>1, <2>2, PassingSuffices
  <2>. QED
    BY <2>3 DEF OutStages
<1>. QED
  BY <1>1, <1>2, PTL

-----------------------------------------------------------------------------
(* The leaves of a tree.                                                   *)

(* One level of LeavesOf, those of smaller trees given by f.               *)
LeavesOver(f, e) ==
    IF IsLeaf(e) THEN <<e>>
    ELSE IF e.tag = "pass" THEN f[e.l]
    ELSE f[e.l] \o f[e.r]

(* LeavesOf is what it is defined to be.                                   *)
LEMMA LeavesUnfold ==
    \A e \in Expr : LeavesOf[e] = LeavesOver(LeavesOf, e)
<1>0. MaxDepth \in Nat
  BY ProgramsAssumption
<1> DEFINE Lists(f, h) == f = [e \in Exprs[h] |-> LeavesOver(f, e)]
           T == {h \in 0 .. MaxDepth : \E f : Lists(f, h)}
<1>1. 0 \in T
  <2>1. \A e \in Exprs[0] : IsLeaf(e)
    BY ExprCases, <1>0
  <2>2. Lists([e \in Exprs[0] |-> <<e>>], 0)
    BY <2>1 DEF LeavesOver
  <2> HIDE DEF Lists
  <2>. QED
    BY <1>0, <2>2
<1>2. ASSUME NEW n \in 0 .. MaxDepth - 1, n \in T PROVE n + 1 \in T
  <2>0. /\ n \in 0 .. MaxDepth /\ n + 1 \in 0 .. MaxDepth /\ (n + 1) - 1 = n
        /\ Exprs[n] \subseteq Exprs[n + 1]
    BY <1>0, ExprsGrow
  <2>1. PICK f : Lists(f, n)
    BY <1>2
  <2> DEFINE g == [e \in Exprs[n + 1] |-> LeavesOver(f, e)]
  <2>2. \A e \in Exprs[n] : g[e] = f[e]
    BY <2>0, <2>1
  <2>3. ASSUME NEW e \in Exprs[n + 1]
        PROVE  LeavesOver(f, e) = LeavesOver(g, e)
    <3>1. CASE IsLeaf(e)
      BY <3>1 DEF LeavesOver
    <3>2. CASE e.l \in Exprs[n] /\ e.r \in Exprs[n]
      <4>1. g[e.l] = f[e.l] /\ g[e.r] = f[e.r]
        BY <2>2, <3>2
      <4> HIDE DEF g
      <4>. QED
        BY <4>1 DEF LeavesOver
    <3>. QED
      BY <2>0, <3>1, <3>2, ExprCases
  <2>4. Lists(g, n + 1)
    <3>1. g = [e \in Exprs[n + 1] |-> LeavesOver(f, e)]
      OBVIOUS
    <3> HIDE DEF g
    <3>. QED
      BY <2>3, <3>1
  <2> HIDE DEF Lists, g
  <2>. QED
    BY <2>0, <2>4
<1>3. \A h \in 0 .. MaxDepth : h \in T
  <2> HIDE DEF T
  <2>. QED
    BY <1>0, <1>1, <1>2, BoundedInduction
<1>4. PICK f : Lists(f, MaxDepth)
  BY <1>0, <1>3
<1>5. LeavesOf = [e \in Expr |-> LeavesOver(LeavesOf, e)]
  BY <1>4 DEF LeavesOf, LeavesOver, Expr
<1>. QED
  BY <1>5

(* Leaves and operators make up the trees.                                 *)
LEMMA ExprParts ==
    /\ Leaves \subseteq Expr /\ \A e \in Leaves : IsLeaf(e)
    /\ \A e \in Expr : IF IsLeaf(e) THEN e \in Leaves
                       ELSE /\ e.l \in Expr /\ e.r \in Expr
                            /\ \/ e.tag \in {"plus", "times", "minus"}
                               \/ e.tag = "pass" /\ e.r = Lit(0)
<1>0. MaxDepth \in Nat /\ MaxDepth \in 0 .. MaxDepth
  BY ProgramsAssumption
<1>1. Leaves \subseteq Expr
  BY <1>0, ExprBuilds DEF Expr
<1>2. \A e \in Leaves : IsLeaf(e)
  BY DEF Leaves, IsLeaf, Kinds
<1>3. \A h \in 0 .. MaxDepth : Exprs[h] \subseteq Expr
  BY <1>0, ExprsGrow DEF Expr
<1>4. ASSUME NEW e \in Expr
      PROVE  IF IsLeaf(e) THEN e \in Leaves
             ELSE /\ e.l \in Expr /\ e.r \in Expr
                  /\ \/ e.tag \in {"plus", "times", "minus"}
                     \/ e.tag = "pass" /\ e.r = Lit(0)
  <2>1. e \in Exprs[MaxDepth]
    BY DEF Expr
  <2>. QED
    BY <1>0, <1>3, <2>1, ExprCases
<1>. QED
  BY <1>1, <1>2, <1>4

(* The leaves of a tree are leaves.                                        *)
LEMMA LeavesType == \A e \in Expr : LeavesOf[e] \in Seq(Leaves)
<1> DEFINE T == {e \in Expr : LeavesOf[e] \in Seq(Leaves)}
<1>1. Leaves \subseteq T
  <2> SUFFICES ASSUME NEW e \in Leaves PROVE e \in Expr /\ LeavesOf[e] \in Seq(Leaves)
    OBVIOUS
  <2>1. e \in Expr /\ IsLeaf(e)
    BY ExprParts
  <2>2. LeavesOf[e] = <<e>>
    BY <2>1, LeavesUnfold DEF LeavesOver
  <2>. QED
    BY <2>1, <2>2, ShortSeqs
<1>2. ASSUME NEW e \in Expr, ~IsLeaf(e), e.l \in T, e.r \in T PROVE e \in T
  <2>1. LeavesOf[e.l] \in Seq(Leaves) /\ LeavesOf[e.r] \in Seq(Leaves)
    BY <1>2
  <2>2. LeavesOf[e] = IF e.tag = "pass" THEN LeavesOf[e.l] ELSE LeavesOf[e.l] \o LeavesOf[e.r]
    BY <1>2, LeavesUnfold DEF LeavesOver
  <2>3. LeavesOf[e] \in Seq(Leaves)
    BY <2>1, <2>2, ConcatProperties
  <2>. QED
    BY <2>3
<1>3. Expr \subseteq T
  <2> HIDE DEF T
  <2>. QED
    BY <1>1, <1>2, TreeInduction
<1>. QED
  BY <1>3

(* x is among the elements of the sequence q.                              *)
Among(x, q) == \E i \in 1 .. Len(q) : q[i] = x

(* What is among two sequences is among their concatenation.               *)
LEMMA AmongConcat ==
    ASSUME NEW S, NEW p \in Seq(S), NEW q \in Seq(S), NEW x, Among(x, p) \/ Among(x, q)
    PROVE  Among(x, p \o q)
<1>0. /\ p \o q \in Seq(S) /\ Len(p \o q) = Len(p) + Len(q)
      /\ \A i \in 1 .. Len(p) + Len(q) :
            (p \o q)[i] = IF i <= Len(p) THEN p[i] ELSE q[i - Len(p)]
      /\ Len(p) \in Nat /\ Len(q) \in Nat
  BY ConcatProperties
<1>1. CASE Among(x, p)
  <2>1. PICK i \in 1 .. Len(p) : p[i] = x
    BY <1>1 DEF Among
  <2>2. i \in 1 .. Len(p) + Len(q) /\ i <= Len(p)
    BY <1>0
  <2>3. (p \o q)[i] = x /\ i \in 1 .. Len(p \o q)
    BY <1>0, <2>1, <2>2
  <2>. QED
    BY <2>3 DEF Among
<1>2. CASE Among(x, q)
  <2>1. PICK i \in 1 .. Len(q) : q[i] = x
    BY <1>2 DEF Among
  <2> DEFINE j == Len(p) + i
  <2>2. j \in 1 .. Len(p) + Len(q) /\ ~(j <= Len(p)) /\ j - Len(p) = i
    BY <1>0
  <2>3. (p \o q)[j] = x /\ j \in 1 .. Len(p \o q)
    BY <1>0, <2>1, <2>2
  <2> HIDE DEF j
  <2>. QED
    BY <2>3 DEF Among
<1>. QED
  BY <1>1, <1>2

(* The leaves of every node at a level of a tree are leaves of the tree.   *)
LEMMA LevelLeaves ==
    ASSUME NEW h \in 0 .. MaxDepth, NEW e \in Full[h]
    PROVE  \A d \in 0 .. h : \A k \in 1 .. Len(Level(e, d)) :
              \A x : Among(x, LeavesOf[Level(e, d)[k]]) => Among(x, LeavesOf[e])
<1>0. MaxDepth \in Nat /\ h \in Nat /\ e \in Expr
  BY ProgramsAssumption, FullFacts
<1> DEFINE Below(n) == \A x : Among(x, LeavesOf[n]) => Among(x, LeavesOf[e])
           T == {d \in 0 .. h : \A k \in 1 .. Len(Level(e, d)) : Below(Level(e, d)[k])}
<1>1. 0 \in T
  <2>1. Level(e, 0) = <<e>>
    BY <1>0, LevelUnfold
  <2>2. \A k \in 1 .. Len(<<e>>) : <<e>>[k] = e
    OBVIOUS
  <2>3. Below(e)
    OBVIOUS
  <2> HIDE DEF Below
  <2>4. \A k \in 1 .. Len(Level(e, 0)) : Below(Level(e, 0)[k])
    BY <2>1, <2>2, <2>3
  <2>. QED
    BY <1>0, <2>4
<1>2. ASSUME NEW d \in 0 .. h - 1, d \in T PROVE d + 1 \in T
  <2> DEFINE es == Level(e, d)
             u == h - d
  <2>0. d \in 0 .. h /\ d + 1 \in 0 .. h /\ d \in Nat /\ u \in 1 .. MaxDepth /\ u \in 0 .. MaxDepth
    BY <1>0
  <2>1. es \in Seq(Full[u])
    BY <2>0, LevelFull
  <2>2. Level(e, d + 1) = OperandsOf(es)
    BY <1>0, <2>0, LevelUnfold
  <2>3. \A k \in 1 .. Len(es) : Below(es[k])
    BY <1>2
  <2> HIDE DEF es, u
  <2>4. \A x \in Full[u] : Operands(x) \in Seq(Full[u - 1])
    BY <2>0, OperandsType
  <2>5. ASSUME NEW i \in 1 .. Len(OperandsOf(es)) PROVE Below(OperandsOf(es)[i])
    <3>1. PICK k \in 1 .. Len(es) : \E j \in 1 .. Len(Operands(es[k])) :
                OperandsOf(es)[i] = Operands(es[k])[j]
      <4>1. OperandPlaces(es)
        BY <2>1, <2>4, OperandsOfPlaces
      <4>. QED
        BY <4>1 DEF OperandPlaces
    <3>2. PICK j \in 1 .. Len(Operands(es[k])) : OperandsOf(es)[i] = Operands(es[k])[j]
      BY <3>1
    <3> DEFINE n == es[k]
               x == Operands(n)[j]
    <3>3. n \in Full[u]
      BY <2>1
    <3>4. n \in Expr
      BY <2>0, <3>3, FullFacts
    <3>5. ~IsLeaf(n)
      <4>1. j \in 1 .. Len(Operands(n))
        OBVIOUS
      <4> HIDE DEF n
      <4>. QED
        BY <4>1 DEF Operands
    <3>6. /\ n.l \in Expr /\ n.r \in Expr
          /\ LeavesOf[n.l] \in Seq(Leaves) /\ LeavesOf[n.r] \in Seq(Leaves)
      BY <3>4, <3>5, ExprParts, LeavesType
    <3>7. /\ LeavesOf[n] = IF n.tag = "pass" THEN LeavesOf[n.l] ELSE LeavesOf[n.l] \o LeavesOf[n.r]
      BY <3>4, <3>5, LeavesUnfold DEF LeavesOver
    <3>8. x = n.l \/ (x = n.r /\ n.tag # "pass")
      <4>1. j \in 1 .. Len(Operands(n)) /\ x = Operands(n)[j]
        OBVIOUS
      <4> HIDE DEF n, x
      <4>2. CASE n.tag = "pass"
        <5>1. Operands(n) = <<n.l>>
          BY <3>5, <4>2 DEF Operands
        <5>. QED
          BY <4>1, <5>1
      <4>3. CASE n.tag # "pass"
        <5>1. Operands(n) = <<n.l, n.r>>
          BY <3>5, <4>3 DEF Operands
        <5>. QED
          BY <4>1, <4>3, <5>1
      <4>. QED
        BY <4>2, <4>3
    <3>9. Below(n)
      BY <2>3
    <3>10. OperandsOf(es)[i] = x
      BY <3>2
    <3> HIDE DEF n, x
    <3>11. Below(x)
      <4>1. \A y : Among(y, LeavesOf[x]) => Among(y, LeavesOf[n])
        BY <3>6, <3>7, <3>8, AmongConcat
      <4>. QED
        BY <3>9, <4>1
    <3>. QED
      BY <3>10, <3>11
  <2> HIDE DEF Below
  <2>6. \A k \in 1 .. Len(Level(e, d + 1)) : Below(Level(e, d + 1)[k])
    BY <2>2, <2>5
  <2>. QED
    BY <2>0, <2>6
<1>3. \A d \in 0 .. h : d \in T
  <2> HIDE DEF T
  <2>. QED
    BY <1>0, <1>1, <1>2, BoundedInduction
<1>. QED
  BY <1>3

-----------------------------------------------------------------------------
(* Registers.                                                              *)

(* Among is membership in the range of a sequence.                         *)
LEMMA AmongRange ==
    ASSUME NEW S, NEW q \in Seq(S)
    PROVE  \A x : x \in Range(q) <=> Among(x, q)
<1>1. DOMAIN q = 1 .. Len(q)
  BY LenProperties
<1>. QED
  BY <1>1 DEF Among, Range

(* The position of what is in a sequence.                                  *)
LEMMA PositionFinds ==
    ASSUME NEW S, NEW q \in Seq(S), NEW x, Among(x, q)
    PROVE  Position(q, x) \in 1 .. Len(q) /\ q[Position(q, x)] = x
<1>1. \E k \in DOMAIN q : q[k] = x
  BY LenProperties DEF Among
<1>2. Position(q, x) \in DOMAIN q /\ q[Position(q, x)] = x
  BY <1>1 DEF Position
<1>. QED
  BY <1>2, LenProperties

(* A literal is kept, or found, whatever is mapped after it.               *)
LEMMA MapLiteralsKeeps ==
    ASSUME NEW v \in Seq(Int), NEW e \in Leaves
    PROVE  /\ MapLiterals(v, e) \in Seq(Int)
           /\ e.tag = "int" => Among(e.num, MapLiterals(v, e))
           /\ \A x : Among(x, v) => Among(x, MapLiterals(v, e))
<1>1. CASE e.tag # "int"
  BY <1>1 DEF MapLiterals
<1>2. CASE e.tag = "int" /\ e.num \in Range(v)
  BY <1>2, AmongRange DEF MapLiterals
<1>3. CASE e.tag = "int" /\ e.num \notin Range(v)
  <2> DEFINE m == MapLiterals(v, e)
  <2>1. m = Append(v, e.num)
    BY <1>3 DEF MapLiterals
  <2>2. e.num \in Int
    BY <1>3 DEF Leaves
  <2>3. /\ m \in Seq(Int) /\ Len(m) = Len(v) + 1 /\ Len(v) \in Nat
        /\ \A i \in 1 .. Len(v) : m[i] = v[i]
        /\ m[Len(v) + 1] = e.num
    BY <2>1, <2>2, AppendProperties
  <2> HIDE DEF m
  <2>4. Among(e.num, m)
    <3>1. Len(v) + 1 \in 1 .. Len(m)
      BY <2>3
    <3>. QED
      BY <2>3, <3>1 DEF Among
  <2>5. ASSUME NEW x, Among(x, v) PROVE Among(x, m)
    <3>1. PICK i \in 1 .. Len(v) : v[i] = x
      BY <2>5 DEF Among
    <3>2. i \in 1 .. Len(m) /\ m[i] = x
      BY <2>3, <3>1
    <3>. QED
      BY <3>2 DEF Among
  <2>. QED
    BY <2>3, <2>4, <2>5 DEF m
<1>. QED
  BY <1>1, <1>2, <1>3

(* Every literal of the statements gets a register.                        *)
LEMMA LiteralsFound ==
    ASSUME NEW es \in Seq(Expr)
    PROVE  /\ LiteralsOf(es) \in Seq(Int)
           /\ \A s \in 1 .. Len(es) : \A x :
                 Among(x, LeavesOf[es[s]]) /\ x.tag = "int" => Among(x.num, LiteralsOf(es))
<1> DEFINE ss == [s \in DOMAIN es |-> LeavesOf[es[s]]]
           leaves == FlattenSeq(ss)
           n == Len(leaves)
           Seen(f) == f = [k \in 0 .. n |-> IF k = 0 THEN <<>>
                                            ELSE MapLiterals(f[k - 1], leaves[k])]
           seen == CHOOSE f : Seen(f)
<1>1. /\ ss \in Seq(Seq(Leaves)) /\ Len(ss) = Len(es)
      /\ \A s \in 1 .. Len(es) : ss[s] = LeavesOf[es[s]]
  <2>1. Len(es) \in Nat /\ DOMAIN es = 1 .. Len(es) /\ \A s \in 1 .. Len(es) : es[s] \in Expr
    OBVIOUS
  <2>2. \A s \in 1 .. Len(es) : LeavesOf[es[s]] \in Seq(Leaves)
    BY <2>1, LeavesType
  <2>. QED
    BY <2>1, <2>2
<1>2. LiteralsOf(es) = seen[n]
  BY DEF LiteralsOf
<1> HIDE DEF ss
<1>3. /\ leaves \in Seq(Leaves)
      /\ \A s \in 1 .. Len(ss) : \A x : Among(x, ss[s]) => Among(x, leaves)
  <2>1. /\ leaves \in Seq(Leaves)
        /\ \A k \in 1 .. Len(ss) : \A j \in 1 .. Len(ss[k]) :
              LET place == Len(FlattenSeq(SubSeq(ss, 1, k - 1))) + j IN
              place \in 1 .. Len(leaves) /\ leaves[place] = ss[k][j]
    BY <1>1, FlattenPlaces
  <2>. QED
    BY <2>1 DEF Among
<1> HIDE DEF leaves
<1>4. n \in Nat /\ \A k \in 1 .. n : leaves[k] \in Leaves
  BY <1>3
<1> HIDE DEF n
<1>5. Seen(seen)
  <2> DEFINE g == [x \in (1 .. n) \X Seq(Int) |-> MapLiterals(x[2], leaves[x[1]])]
  <2>1. g \in [(1 .. n) \X Seq(Int) -> Seq(Int)]
    BY <1>4, MapLiteralsKeeps
  <2>2. \A k \in 1 .. n, v \in Seq(Int) : g[<<k, v>>] = MapLiterals(v, leaves[k])
    OBVIOUS
  <2> HIDE DEF g
  <2>3. PICK f : Unfolds(Seq(Int), <<>>, g, n, f)
    <3>1. <<>> \in Seq(Int)
      OBVIOUS
    <3>. QED
      BY <1>4, <2>1, <3>1, BoundedRecursion
  <2>4. ASSUME NEW k \in 0 .. n
        PROVE  f[k] = IF k = 0 THEN <<>> ELSE MapLiterals(f[k - 1], leaves[k])
    <3>1. CASE k = 0
      BY <2>3, <3>1 DEF Unfolds
    <3>2. CASE k # 0
      <4>1. k \in 1 .. n /\ k - 1 \in 0 .. n
        BY <1>4, <3>2
      <4>2. f[k] = g[<<k, f[k - 1]>>] /\ f[k - 1] \in Seq(Int)
        BY <2>3, <3>2, <4>1 DEF Unfolds
      <4>. QED
        BY <2>2, <3>2, <4>1, <4>2
    <3>. QED
      BY <3>1, <3>2
  <2>5. Seen(f)
    <3>1. f = [k \in 0 .. n |-> f[k]]
      BY <2>3 DEF Unfolds
    <3>. QED
      BY <2>4, <3>1
  <2> HIDE DEF Seen
  <2>. QED
    BY <2>5
<1> HIDE DEF seen
<1> DEFINE T == {k \in 0 .. n : /\ seen[k] \in Seq(Int)
                                /\ \A j \in 1 .. k :
                                      leaves[j].tag = "int" => Among(leaves[j].num, seen[k])}
<1>6. 0 \in T
  <2>1. seen[0] = <<>> /\ 0 \in 0 .. n
    BY <1>4, <1>5
  <2>2. seen[0] \in Seq(Int)
    BY <2>1, EmptySeq
  <2>3. \A j \in 1 .. 0 : FALSE
    OBVIOUS
  <2>. QED
    BY <2>1, <2>2, <2>3
<1>7. ASSUME NEW k \in 0 .. n - 1, k \in T PROVE k + 1 \in T
  <2>1. k + 1 \in 0 .. n /\ k + 1 \in 1 .. n /\ k + 1 # 0 /\ (k + 1) - 1 = k
    BY <1>4
  <2>2. seen[k + 1] = MapLiterals(seen[k], leaves[k + 1])
    BY <1>5, <2>1
  <2>3. /\ seen[k] \in Seq(Int)
        /\ \A j \in 1 .. k : leaves[j].tag = "int" => Among(leaves[j].num, seen[k])
    BY <1>7
  <2>4. /\ seen[k + 1] \in Seq(Int)
        /\ leaves[k + 1].tag = "int" => Among(leaves[k + 1].num, seen[k + 1])
        /\ \A x : Among(x, seen[k]) => Among(x, seen[k + 1])
    BY <1>4, <2>1, <2>2, <2>3, MapLiteralsKeeps
  <2>5. \A j \in 1 .. k + 1 : j \in 1 .. k \/ j = k + 1
    BY <2>1
  <2>6. \A j \in 1 .. k + 1 : leaves[j].tag = "int" => Among(leaves[j].num, seen[k + 1])
    BY <2>3, <2>4, <2>5
  <2>. QED
    BY <2>1, <2>4, <2>6
<1>8. n \in T
  <2>1. \A k \in 0 .. n : k \in T
    <3> HIDE DEF T
    <3>. QED
      BY <1>4, <1>6, <1>7, BoundedInduction
  <2>2. n \in 0 .. n
    BY <1>4
  <2>. QED
    BY <2>1, <2>2
<1>9. ASSUME NEW s \in 1 .. Len(es), NEW x, Among(x, LeavesOf[es[s]]), x.tag = "int"
      PROVE  Among(x.num, seen[n])
  <2>1. Among(x, leaves)
    BY <1>1, <1>3, <1>9
  <2>2. PICK j \in 1 .. n : leaves[j] = x
    BY <2>1 DEF Among, n
  <2>. QED
    BY <1>8, <1>9, <2>2
<1>. QED
  BY <1>2, <1>8, <1>9

-----------------------------------------------------------------------------
(* Units.                                                                  *)

(* The units of a layer, kind by kind.                                     *)
LEMMA LayerUnits ==
    ASSUME NEW layer \in 0 .. NLayers
    PROVE  /\ \A kind \in Kinds : /\ FirstUnit(layer, kind) \in Nat
                                  /\ Layers[layer][kind] \in Nat
                                  /\ FirstUnit(layer, kind) + Layers[layer][kind]
                                        <= TotalUnits(layer)
           /\ TotalUnits(layer) \in Nat
<1>1. Layers[layer] \in [Kinds -> Nat]
  BY HardwareAssumption
<1>2. /\ Layers[layer].plus \in Nat /\ Layers[layer].times \in Nat
      /\ Layers[layer].pass \in Nat /\ Layers[layer].minus \in Nat
  BY <1>1 DEF Kinds
<1> DEFINE p == Layers[layer].plus
           t == Layers[layer].times
           a == Layers[layer].pass
           m == Layers[layer].minus
<1>3. /\ FirstUnit(layer, "plus") = 0
      /\ FirstUnit(layer, "times") = p
      /\ FirstUnit(layer, "pass") = p + t
      /\ FirstUnit(layer, "minus") = p + t + a
      /\ TotalUnits(layer) = p + t + a + m
  BY DEF FirstUnit, TotalUnits
<1>4. /\ Layers[layer]["plus"] = p /\ Layers[layer]["times"] = t
      /\ Layers[layer]["pass"] = a /\ Layers[layer]["minus"] = m
  OBVIOUS
<1>5. p \in Nat /\ t \in Nat /\ a \in Nat /\ m \in Nat
  BY <1>2
<1> HIDE DEF p, t, a, m
<1>6. ASSUME NEW kind \in Kinds
      PROVE  /\ FirstUnit(layer, kind) \in Nat
             /\ Layers[layer][kind] \in Nat
             /\ FirstUnit(layer, kind) + Layers[layer][kind] <= TotalUnits(layer)
  <2>1. CASE kind = "plus"
    BY <1>3, <1>4, <1>5, <2>1
  <2>2. CASE kind = "times"
    BY <1>3, <1>4, <1>5, <2>2
  <2>3. CASE kind = "pass"
    BY <1>3, <1>4, <1>5, <2>3
  <2>4. CASE kind = "minus"
    BY <1>3, <1>4, <1>5, <2>4
  <2>. QED
    BY <2>1, <2>2, <2>3, <2>4 DEF Kinds
<1>. QED
  BY <1>3, <1>5, <1>6

(* No layer, and not the registers, are wider than MaxFuncUnits.           *)
LEMMA Widest ==
    /\ MaxFuncUnits \in Nat
    /\ ConstRegisters + ArrayRegisters + LoopRegisters <= MaxFuncUnits
    /\ \A layer \in 0 .. NLayers : TotalUnits(layer) <= MaxFuncUnits
<1> DEFINE R == ConstRegisters + ArrayRegisters + LoopRegisters
           S == {R} \cup {TotalUnits(layer) : layer \in 0 .. NLayers}
           T == {n \in 0 .. NLayers : \E b \in Nat : \A layer \in 0 .. n : TotalUnits(layer) <= b}
<1>0. NLayers \in Nat /\ R \in Nat /\ \A layer \in 0 .. NLayers : TotalUnits(layer) \in Nat
  BY HardwareAssumption, LayerUnits
<1>1. 0 \in T
  <2>1. TotalUnits(0) \in Nat /\ 0 \in 0 .. NLayers
    BY <1>0
  <2>2. \A layer \in 0 .. 0 : TotalUnits(layer) <= TotalUnits(0)
    <3>1. \A layer \in 0 .. 0 : layer = 0
      OBVIOUS
    <3>. QED
      BY <2>1, <3>1
  <2>. QED
    BY <2>1, <2>2
<1>2. ASSUME NEW n \in 0 .. NLayers - 1, n \in T PROVE n + 1 \in T
  <2>1. n + 1 \in 0 .. NLayers /\ \A layer \in 0 .. n + 1 : layer \in 0 .. n \/ layer = n + 1
    BY <1>0
  <2>2. PICK b \in Nat : \A layer \in 0 .. n : TotalUnits(layer) <= b
    BY <1>2
  <2> DEFINE c == b + TotalUnits(n + 1)
  <2>3. TotalUnits(n + 1) \in Nat
    BY <1>0, <2>1
  <2>4. c \in Nat /\ b <= c /\ TotalUnits(n + 1) <= c
    BY <2>3
  <2> HIDE DEF c
  <2>5. ASSUME NEW layer \in 0 .. n + 1 PROVE TotalUnits(layer) <= c
    <3>1. CASE layer \in 0 .. n
      <4>1. TotalUnits(layer) <= b /\ TotalUnits(layer) \in Nat
        BY <1>0, <2>1, <2>2, <3>1
      <4>. QED
        BY <2>4, <4>1
    <3>2. CASE layer = n + 1
      BY <2>4, <3>2
    <3>. QED
      BY <2>1, <3>1, <3>2
  <2>. QED
    BY <2>1, <2>4, <2>5
<1>3. PICK b \in Nat : \A layer \in 0 .. NLayers : TotalUnits(layer) <= b
  <2>1. \A n \in 0 .. NLayers : n \in T
    <3> HIDE DEF T
    <3>. QED
      BY <1>0, <1>1, <1>2, BoundedInduction
  <2>2. NLayers \in 0 .. NLayers
    BY <1>0
  <2>. QED
    BY <2>1, <2>2
<1> DEFINE B == {u \in Nat : \A x \in S : x <= u}
<1>4. S \subseteq Nat /\ R \in S
  BY <1>0
<1>5. b + R \in B
  <2>1. b + R \in Nat /\ R <= b + R /\ \A t \in Nat : t <= b => t <= b + R
    BY <1>0
  <2>2. \A layer \in 0 .. NLayers : TotalUnits(layer) <= b + R
    BY <1>0, <1>3, <2>1
  <2>. QED
    BY <2>1, <2>2
<1>m. MaxFuncUnits = Max(S)
  BY DEF MaxFuncUnits
<1>t. \A layer \in 0 .. NLayers : TotalUnits(layer) \in S
  OBVIOUS
<1> HIDE DEF R, S
<1>6. PICK u \in B : \A v \in B : u <= v
  <2>1. B \subseteq Nat
    OBVIOUS
  <2> HIDE DEF B
  <2>. QED
    BY <1>5, <2>1, NatMinimum
<1>7. u \in Nat /\ \A x \in S : x <= u
  OBVIOUS
<1>8. u \in S
  <2> SUFFICES ASSUME u \notin S PROVE FALSE
    OBVIOUS
  <2>1. \A x \in S : x \in Nat /\ x <= u /\ x # u
    BY <1>4, <1>7
  <2>2. \A x \in S : x <= u - 1
    BY <1>7, <2>1
  <2>3. u - 1 \in Nat
    BY <1>4, <1>7, <2>1
  <2>4. u - 1 \in B
    BY <2>2, <2>3
  <2> HIDE DEF B
  <2>. QED
    BY <1>6, <1>7, <2>4
<1>9. \E x \in S : \A y \in S : x >= y
  BY <1>4, <1>7, <1>8
<1>10. Max(S) \in S /\ \A y \in S : Max(S) >= y
  BY <1>9 DEF Max
<1>11. Max(S) \in Nat /\ \A y \in S : y \in Nat /\ y <= Max(S)
  BY <1>4, <1>10
<1>12. R <= MaxFuncUnits
  BY <1>4, <1>11, <1>m
<1>. QED
  BY <1>m, <1>t, <1>11, <1>12 DEF R

-----------------------------------------------------------------------------
(* Routing.                                                                *)

(* What precedes a place is counted below it, and the place itself too.    *)
LEMMA Earlier ==
    ASSUME NEW n \in Nat, NEW k \in 1 .. n, NEW X
    PROVE  /\ Cardinality({j \in 1 .. k - 1 : j \in X}) \in Nat
           /\ k \in X => Cardinality({j \in 1 .. k - 1 : j \in X})
                            < Cardinality({j \in 1 .. n : j \in X})
<1> DEFINE A == {j \in 1 .. k - 1 : j \in X}
           B == {j \in 1 .. n : j \in X}
<1>1. IsFiniteSet(1 .. n)
  BY FS_Interval
<1>2. A \subseteq B /\ B \subseteq 1 .. n /\ k \notin A /\ (k \in X => k \in B)
  OBVIOUS
<1>3. IsFiniteSet(B) /\ IsFiniteSet(A) /\ Cardinality(A) <= Cardinality(B)
      /\ (Cardinality(B) = Cardinality(A) => B = A)
  <2> HIDE DEF A, B
  <2>1. IsFiniteSet(B)
    BY <1>1, <1>2, FS_Subset
  <2>. QED
    BY <1>2, <2>1, FS_Subset
<1>4. Cardinality(A) \in Nat /\ Cardinality(B) \in Nat
  BY <1>3, FS_CardinalityType
<1>5. k \in X => Cardinality(A) < Cardinality(B)
  <2> HIDE DEF A, B
  <2>. QED
    BY <1>2, <1>3, <1>4
<1>. QED
  BY <1>4, <1>5

(* A statement that passed the check, whose literals have registers.       *)
Routable(h, e) ==
    /\ h \in 0 .. MaxDepth /\ h + 1 <= NLayers
    /\ e \in Full[h]
    /\ AllocationFits(e)
    /\ CheckMeetHardwareConstaints(literals)
    /\ literals \in Seq(Int)
    /\ \A x : Among(x, LeavesOf[e]) /\ x.tag = "int" => Among(x.num, literals)

(* Every leaf is in one of the registers there are.                        *)
LEMMA RegisterBound ==
    ASSUME CheckMeetHardwareConstaints(literals), literals \in Seq(Int),
           NEW x \in Leaves, x.tag = "int" => Among(x.num, literals)
    PROVE  Register(x) \in 0 .. MaxFuncUnits - 1
<1>0. /\ Len(Loops) <= LoopRegisters /\ Len(Arrays) <= ArrayRegisters
      /\ Len(Consts) + Len(literals) <= ConstRegisters
      /\ Len(Loops) \in Nat /\ Len(Arrays) \in Nat /\ Len(Consts) \in Nat /\ Len(literals) \in Nat
  <2>1. /\ Len(Loops) <= LoopRegisters /\ Len(Arrays) <= ArrayRegisters
        /\ Len(Consts) + Len(literals) <= ConstRegisters
    BY DEF CheckMeetHardwareConstaints
  <2>. QED
    BY <2>1, NamesAssumption, LenProperties
<1>1. /\ ConstRegisters \in Nat /\ ArrayRegisters \in Nat /\ LoopRegisters \in Nat
      /\ MaxFuncUnits \in Nat
      /\ ConstRegisters + ArrayRegisters + LoopRegisters <= MaxFuncUnits
  BY HardwareAssumption, Widest
<1>n. /\ \A n \in Range(Consts) : Position(Consts, n) \in 1 .. Len(Consts)
      /\ \A n \in Range(Arrays) : Position(Arrays, n) \in 1 .. Len(Arrays)
      /\ \A n \in Range(Loops) : Position(Loops, n) \in 1 .. Len(Loops)
  BY NamesAssumption, AmongRange, PositionFinds
<1>2. CASE x.tag = "int"
  <2>1. Position(literals, x.num) \in 1 .. Len(literals)
    BY <1>2, PositionFinds
  <2>2. Register(x) = Len(Consts) + Position(literals, x.num) - 1
    BY <1>2 DEF Register, LiteralRegister
  <2>. QED
    BY <1>0, <1>1, <2>1, <2>2
<1>3. CASE x.tag = "array"
  <2>1. x.name \in Range(Arrays)
    BY <1>3 DEF Leaves
  <2>2. Position(Arrays, x.name) \in 1 .. Len(Arrays)
    BY <1>n, <2>1
  <2>3. Register(x) = ConstRegisters + Position(Arrays, x.name) - 1
    BY <1>3 DEF Register
  <2>. QED
    BY <1>0, <1>1, <2>2, <2>3
<1>4. CASE x.tag = "id"
  <2>1. x.name \in Range(Consts) \/ x.name \in Range(Loops)
    BY <1>4 DEF Leaves
  <2>2. CASE x.name \in Range(Consts)
    <3>1. Position(Consts, x.name) \in 1 .. Len(Consts)
      BY <1>n, <2>2
    <3>2. Register(x) = Position(Consts, x.name) - 1
      BY <1>4, <2>2 DEF Register
    <3>. QED
      BY <1>0, <1>1, <3>1, <3>2
  <2>3. CASE x.name \notin Range(Consts)
    <3>1. Position(Loops, x.name) \in 1 .. Len(Loops)
      BY <1>n, <2>1, <2>3
    <3>2. Register(x) = ConstRegisters + ArrayRegisters + Len(Loops) - Position(Loops, x.name)
      BY <1>4, <2>3 DEF Register
    <3>. QED
      BY <1>0, <1>1, <3>1, <3>2
  <2>. QED
    BY <2>2, <2>3
<1>. QED
  BY <1>2, <1>3, <1>4 DEF Leaves

(* How many nodes of its kind precede a node of a layer.                   *)
Before(nodes, layer, k) ==
    Cardinality({j \in 1 .. k - 1 : nodes[layer][j].tag = nodes[layer][k].tag})

(* A leaf of the tree is mapped to its register; a literal has one.        *)
LEMMA LeafMapped ==
    ASSUME NEW h, NEW e, Routable(h, e), NEW k \in 1 .. Len(Nodes(e)[-1])
    PROVE  LET node == Nodes(e)[-1][k] IN
           /\ node \in Leaves /\ IsLeaf(node)
           /\ node.tag = "int" => Among(node.num, literals)
           /\ Mapping(Nodes(e), -1, k) = Register(node)
<1> DEFINE nodes == Nodes(e)
           q == nodes[-1]
           node == q[k]
<1>0. /\ h \in 0 .. MaxDepth /\ h \in Nat /\ h + 1 <= NLayers /\ NLayers \in Nat
      /\ e \in Full[h] /\ MaxDepth \in Nat /\ -1 \in -1 .. h - 1 /\ -1 + 1 = 0
  BY ProgramsAssumption, HardwareAssumption DEF Routable
<1>1. q \in Seq(Full[0]) /\ DOMAIN nodes = -1 .. h - 1
  <2>1. nodes[-1] \in Seq(Full[-1 + 1]) /\ DOMAIN nodes = -1 .. h - 1
    BY <1>0, NodesFull
  <2>. QED
    BY <1>0, <2>1
<1>2. node \in Full[0] /\ IsLeaf(node) /\ node \in Expr
  <2>1. node \in Full[0] /\ 0 \in 0 .. MaxDepth
    BY <1>0, <1>1
  <2> HIDE DEF node
  <2>. QED
    BY <2>1, FullFacts
<1>3. h \in 0 .. h /\ (h - 1) - (-1) = h
  BY <1>0
<1>4. q = Level(e, h)
  <2>1. GetMaxDepth[e] = h
    BY <1>0, FullFacts
  <2>. QED
    BY <1>0, <1>3, <2>1 DEF Nodes
<1>5. node \in Leaves /\ LeavesOf[node] = <<node>>
  BY <1>2, ExprParts, LeavesUnfold DEF LeavesOver
<1>6. Among(node, LeavesOf[node])
  <2>1. \A x : Among(x, <<x>>)
    BY DEF Among
  <2> HIDE DEF node
  <2>. QED
    BY <1>5, <2>1
<1>7. Among(node, LeavesOf[e])
  <2>1. k \in 1 .. Len(Level(e, h)) /\ node = Level(e, h)[k]
    BY <1>4
  <2> HIDE DEF node
  <2>. QED
    BY <1>0, <1>3, <1>6, <2>1, LevelLeaves
<1>8. node.tag = "int" => Among(node.num, literals)
  BY <1>7 DEF Routable
<1>. QED
  BY <1>2, <1>5, <1>8 DEF Mapping

(* An operator is mapped to one of the units of its kind.                  *)
LEMMA UnitMapped ==
    ASSUME NEW h, NEW e, Routable(h, e),
           NEW layer \in 0 .. h - 1, NEW k \in 1 .. Len(Nodes(e)[layer])
    PROVE  LET tag == Nodes(e)[layer][k].tag IN
           /\ layer \in 0 .. NLayers
           /\ tag \in Kinds
           /\ Before(Nodes(e), layer, k) \in Nat
           /\ Before(Nodes(e), layer, k) < Layers[layer][tag]
           /\ Mapping(Nodes(e), layer, k) = FirstUnit(layer, tag) + Before(Nodes(e), layer, k)
<1> DEFINE nodes == Nodes(e)
           q == nodes[layer]
           node == q[k]
<1>0. /\ h \in 0 .. MaxDepth /\ h \in Nat /\ h + 1 <= NLayers /\ NLayers \in Nat
      /\ e \in Full[h] /\ MaxDepth \in Nat /\ layer \in -1 .. h - 1
  BY ProgramsAssumption, HardwareAssumption DEF Routable
<1>1. /\ layer + 1 \in 0 .. MaxDepth /\ q \in Seq(Full[layer + 1])
      /\ DOMAIN nodes = -1 .. h - 1
  BY <1>0, NodesFull
<1>2. ~IsLeaf(node)
  <2>1. node \in Full[layer + 1] /\ layer + 1 # 0
    BY <1>1
  <2> HIDE DEF node
  <2>. QED
    BY <1>1, <2>1, FullFacts
<1> DEFINE X == {j \in 1 .. Len(q) : q[j].tag = node.tag}
           before == Cardinality({j \in 1 .. k - 1 : q[j].tag = node.tag})
<1>3. Len(q) \in Nat /\ DOMAIN q = 1 .. Len(q)
  BY <1>1
<1>4. /\ layer \in 0 .. NLayers /\ layer \in DOMAIN nodes /\ node.tag \in Kinds
      /\ layer \in (0 .. NLayers \cap DOMAIN nodes)
  BY <1>0, <1>1, <1>2 DEF IsLeaf
<1>5. Cardinality(X) <= Layers[layer][node.tag]
  <2>1. UnitsSuffice(e)
    BY DEF Routable, AllocationFits
  <2>2. Cardinality({j \in DOMAIN q : q[j].tag = node.tag}) <= Layers[layer][node.tag]
    BY <1>4, <2>1 DEF UnitsSuffice, UnitsNeeded
  <2>. QED
    BY <1>3, <2>2
<1>6. before \in Nat /\ before < Cardinality(X)
  <2>1. k \in X
    OBVIOUS
  <2>2. /\ {j \in 1 .. k - 1 : q[j].tag = node.tag} = {j \in 1 .. k - 1 : j \in X}
        /\ X = {j \in 1 .. Len(q) : j \in X}
    BY <1>3
  <2>3. k \in 1 .. Len(q)
    OBVIOUS
  <2> HIDE DEF X, q, node
  <2>. QED
    BY <1>3, <2>1, <2>2, <2>3, Earlier
<1>7. Cardinality(X) \in Nat
  <2>1. X \subseteq 1 .. Len(q) /\ IsFiniteSet(1 .. Len(q))
    BY <1>3, FS_Interval
  <2> HIDE DEF X
  <2>. QED
    BY <2>1, FS_Subset, FS_CardinalityType
<1>8. before < Layers[layer][node.tag]
  <2>1. Layers[layer][node.tag] \in Nat
    BY <1>4, HardwareAssumption
  <2> DEFINE units == Layers[layer][node.tag]
             card == Cardinality(X)
  <2>2. units \in Nat /\ card \in Nat /\ before \in Nat /\ before < card /\ card <= units
    BY <1>5, <1>6, <1>7, <2>1
  <2> HIDE DEF units, card, before
  <2>3. before < units
    BY <2>2
  <2>. QED
    BY <2>3 DEF units
<1>9. Mapping(nodes, layer, k) = FirstUnit(layer, node.tag) + before
  BY <1>2 DEF Mapping
<1>10. before = Before(nodes, layer, k)
  BY DEF Before
<1> HIDE DEF before, nodes
<1>. QED
  BY <1>4, <1>6, <1>8, <1>9, <1>10 DEF nodes

(* Every node is mapped to one of the registers or units there are.        *)
LEMMA MappingBound ==
    ASSUME NEW h, NEW e, Routable(h, e),
           NEW layer \in -1 .. h - 1, NEW k \in 1 .. Len(Nodes(e)[layer])
    PROVE  Mapping(Nodes(e), layer, k) \in 0 .. MaxFuncUnits - 1
<1>0. h \in Nat
  BY ProgramsAssumption DEF Routable
<1>1. CASE layer = -1
  <2> DEFINE node == Nodes(e)[-1][k]
  <2>1. /\ node \in Leaves
        /\ node.tag = "int" => Among(node.num, literals)
        /\ Mapping(Nodes(e), layer, k) = Register(node)
    BY <1>1, LeafMapped
  <2>2. CheckMeetHardwareConstaints(literals) /\ literals \in Seq(Int)
    BY DEF Routable
  <2> HIDE DEF node
  <2>3. Register(node) \in 0 .. MaxFuncUnits - 1
    BY <2>1, <2>2, RegisterBound
  <2>. QED
    BY <2>1, <2>3
<1>2. CASE layer \in 0 .. h - 1
  <2> DEFINE tag == Nodes(e)[layer][k].tag
             before == Before(Nodes(e), layer, k)
             first == FirstUnit(layer, tag)
             units == Layers[layer][tag]
             total == TotalUnits(layer)
             m == MaxFuncUnits
  <2>1. /\ layer \in 0 .. NLayers /\ tag \in Kinds /\ before \in Nat /\ before < units
        /\ Mapping(Nodes(e), layer, k) = first + before
    BY <1>2, UnitMapped
  <2>2. /\ first \in Nat /\ units \in Nat /\ first + units <= total /\ total \in Nat
        /\ total <= m /\ m \in Nat
    BY <2>1, LayerUnits, Widest
  <2> HIDE DEF first, units, total, m, before
  <2>3. first + before \in 0 .. m - 1
    BY <2>1, <2>2
  <2>. QED
    BY <2>1, <2>3 DEF m
<1>. QED
  BY <1>0, <1>1, <1>2

(* A connection between units or registers there are.                      *)
Links == [from : 0 .. MaxFuncUnits - 1, to : 0 .. MaxFuncUnits - 1]

(* inputRouting of a layer, unit by unit.                                  *)
UnitInputs(nodes, layer) ==
    [k \in DOMAIN nodes[layer] |->
        [j \in DOMAIN Operands(nodes[layer][k]) |->
            [from |-> Mapping(nodes, layer - 1, OperandPlace(nodes[layer], k, j)),
             to   |-> Mapping(nodes, layer, k)]]]

(* Each unit has one input for each operand of its node.                   *)
UnitInputsTyped(nodes, layer) ==
    LET units == UnitInputs(nodes, layer)
        q     == nodes[layer] IN
    /\ units \in Seq(Seq(Links)) /\ Len(units) = Len(q)
    /\ \A k \in 1 .. Len(q) :
          /\ Len(units[k]) = Len(Operands(q[k]))
          /\ \A j \in 1 .. Len(Operands(q[k])) :
                units[k][j] = [from |-> Mapping(nodes, layer - 1, OperandPlace(q, k, j)),
                               to   |-> Mapping(nodes, layer, k)]

(* So it is in every layer of a tree that can be routed.                    *)
LEMMA UnitInputsType ==
    ASSUME NEW h, NEW e, Routable(h, e), NEW layer \in 0 .. h - 1
    PROVE  UnitInputsTyped(Nodes(e), layer)
<1> DEFINE nodes == Nodes(e)
           q == nodes[layer]
           place(k, j) == OperandPlace(q, k, j)
           unit(k) == [j \in DOMAIN Operands(q[k]) |->
                          [from |-> Mapping(nodes, layer - 1, place(k, j)),
                           to   |-> Mapping(nodes, layer, k)]]
           units == [k \in DOMAIN q |-> unit(k)]
<1>0. /\ h \in 0 .. MaxDepth /\ h \in Nat /\ e \in Full[h] /\ MaxDepth \in Nat
      /\ layer \in -1 .. h - 1 /\ layer - 1 \in -1 .. h - 1
      /\ layer + 1 \in 1 .. MaxDepth /\ (layer + 1) - 1 = layer
  BY ProgramsAssumption DEF Routable
<1>1. /\ q \in Seq(Full[layer + 1]) /\ nodes[layer - 1] = OperandsOf(q)
      /\ DOMAIN q = 1 .. Len(q) /\ Len(q) \in Nat
  <2>1. q \in Seq(Full[layer + 1]) /\ nodes[layer - 1] = OperandsOf(q)
    BY <1>0, NodesFull
  <2> HIDE DEF q
  <2>. QED
    BY <2>1, LenProperties
<1>2. \A n \in Full[layer + 1] : Operands(n) \in Seq(Full[layer])
  BY <1>0, OperandsType
<1>3. OperandPlaces(q)
  <2> HIDE DEF q
  <2>. QED
    BY <1>1, <1>2, OperandsOfPlaces
<1>5. ASSUME NEW k \in 1 .. Len(q)
      PROVE  /\ unit(k) \in Seq(Links)
             /\ Len(unit(k)) = Len(Operands(q[k]))
             /\ \A j \in 1 .. Len(Operands(q[k])) :
                   unit(k)[j] = [from |-> Mapping(nodes, layer - 1, place(k, j)),
                                 to   |-> Mapping(nodes, layer, k)]
  <2> DEFINE ops == Operands(q[k])
  <2>1. ops \in Seq(Full[layer]) /\ DOMAIN ops = 1 .. Len(ops) /\ Len(ops) \in Nat
    <3>1. q[k] \in Full[layer + 1]
      BY <1>1
    <3>2. ops \in Seq(Full[layer])
      BY <1>2, <3>1
    <3> HIDE DEF ops
    <3>. QED
      BY <3>2
  <2>2. Mapping(nodes, layer, k) \in 0 .. MaxFuncUnits - 1
    BY <1>0, MappingBound
  <2>3. ASSUME NEW j \in 1 .. Len(ops)
        PROVE  Mapping(nodes, layer - 1, place(k, j)) \in 0 .. MaxFuncUnits - 1
    <3>1. place(k, j) \in 1 .. Len(OperandsOf(q))
      BY <1>3 DEF OperandPlaces
    <3>2. place(k, j) \in 1 .. Len(nodes[layer - 1])
      BY <1>1, <3>1
    <3> HIDE DEF place, ops
    <3>. QED
      BY <1>0, <3>2, MappingBound
  <2> DEFINE M == Mapping(nodes, layer, k)
             F(j) == Mapping(nodes, layer - 1, place(k, j))
  <2>4. unit(k) = [j \in 1 .. Len(ops) |-> [from |-> F(j), to |-> M]]
    BY <2>1
  <2>5. M \in 0 .. MaxFuncUnits - 1 /\ \A j \in 1 .. Len(ops) : F(j) \in 0 .. MaxFuncUnits - 1
    BY <2>2, <2>3
  <2> HIDE DEF M, F, unit, ops
  <2>6. \A j \in 1 .. Len(ops) : [from |-> F(j), to |-> M] \in Links
    BY <2>5 DEF Links
  <2>7. unit(k) \in Seq(Links) /\ Len(unit(k)) = Len(ops)
    BY <2>1, <2>4, <2>6
  <2>8. \A j \in 1 .. Len(ops) : unit(k)[j] = [from |-> F(j), to |-> M]
    BY <2>4
  <2>. QED
    BY <2>7, <2>8 DEF F, M, ops
<1>6. units \in Seq(Seq(Links))
  <2>1. units = [k \in 1 .. Len(q) |-> unit(k)]
    BY <1>1
  <2> HIDE DEF unit, units, q
  <2>. QED
    BY <1>1, <1>5, <2>1
<1>7. /\ Len(units) = Len(q)
      /\ \A k \in 1 .. Len(q) : units[k] = unit(k)
  <2>1. units = [k \in 1 .. Len(q) |-> unit(k)]
    BY <1>1
  <2> HIDE DEF unit, units, q
  <2>. QED
    BY <1>1, <2>1
<1>8. units = UnitInputs(nodes, layer)
  BY DEF UnitInputs
<1> HIDE DEF unit, units, place
<1>9. \A k \in 1 .. Len(q) :
         /\ Len(units[k]) = Len(Operands(q[k]))
         /\ \A j \in 1 .. Len(Operands(q[k])) :
               units[k][j] = [from |-> Mapping(nodes, layer - 1, OperandPlace(q, k, j)),
                              to   |-> Mapping(nodes, layer, k)]
  BY <1>5, <1>7 DEF place
<1>. QED
  BY <1>6, <1>7, <1>8, <1>9 DEF UnitInputsTyped

(* A layer of a tree connects each of its operands.                        *)
LEMMA InputsType ==
    ASSUME NEW h, NEW e, Routable(h, e), NEW layer \in 0 .. h - 1
    PROVE  Inputs(Nodes(e), layer) \in Seq(Links)
<1>1. UnitInputs(Nodes(e), layer) \in Seq(Seq(Links))
  BY UnitInputsType DEF UnitInputsTyped
<1>2. Inputs(Nodes(e), layer) = FlattenSeq(UnitInputs(Nodes(e), layer))
  BY DEF Inputs, UnitInputs, OperandPlace
<1>. QED
  BY <1>1, <1>2, FlattenPlaces

(* The layers above the tree pass its value on.                            *)
LEMMA PassOnLink ==
    ASSUME NEW h, NEW e, Routable(h, e), NEW layer \in h .. NLayers
    PROVE  LET from == IF layer = h THEN Mapping(Nodes(e), h - 1, 1)
                       ELSE FirstUnit(layer - 1, "pass")
               to == FirstUnit(layer, "pass") IN
           /\ layer \in 0 .. NLayers /\ Layers[layer].pass > 0
           /\ PassOn(Nodes(e), layer) = <<[from |-> from, to |-> to]>>
           /\ from \in 0 .. MaxFuncUnits - 1
           /\ to \in 0 .. MaxFuncUnits - 1
<1> DEFINE nodes == Nodes(e)
<1>0. /\ h \in 0 .. MaxDepth /\ h \in Nat /\ e \in Full[h] /\ MaxDepth \in Nat
      /\ NLayers \in Nat /\ GetMaxDepth[e] = h /\ layer \in 0 .. NLayers
  <2>1. h \in 0 .. MaxDepth /\ h + 1 <= NLayers /\ e \in Full[h]
    BY DEF Routable
  <2>2. MaxDepth \in Nat /\ NLayers \in Nat
    BY ProgramsAssumption, HardwareAssumption
  <2>3. GetMaxDepth[e] = h
    BY <2>1, FullFacts
  <2>. QED
    BY <2>1, <2>2, <2>3
<1>1. Cardinality(DOMAIN nodes) - 1 = h
  <2>1. DOMAIN nodes = -1 .. h - 1
    BY <1>0, NodesFull
  <2>2. Cardinality(-1 .. h - 1) = (h - 1) - (-1) + 1
    BY <1>0, FS_Interval
  <2>. QED
    BY <1>0, <2>1, <2>2
<1>2. ASSUME NEW up \in h .. NLayers
      PROVE  up \in 0 .. NLayers /\ Layers[up].pass > 0 /\ FirstUnit(up, "pass") \in 0 .. MaxFuncUnits - 1
  <2>1. up \in 0 .. NLayers
    BY <1>0
  <2>2. Layers[up].pass > 0
    BY <1>0 DEF Routable, AllocationFits
  <2>3. /\ FirstUnit(up, "pass") \in Nat /\ Layers[up]["pass"] \in Nat
        /\ FirstUnit(up, "pass") + Layers[up]["pass"] <= TotalUnits(up)
        /\ TotalUnits(up) \in Nat /\ TotalUnits(up) <= MaxFuncUnits /\ MaxFuncUnits \in Nat
    BY <2>1, LayerUnits, Widest DEF Kinds
  <2> DEFINE a == FirstUnit(up, "pass")
             b == Layers[up]["pass"]
             t == TotalUnits(up)
             m == MaxFuncUnits
  <2>4. b > 0 /\ a \in Nat /\ b \in Nat /\ a + b <= t /\ t \in Nat /\ t <= m /\ m \in Nat
    BY <2>2, <2>3
  <2> HIDE DEF a, b, t, m
  <2>5. a \in 0 .. m - 1
    BY <2>4
  <2>. QED
    BY <2>1, <2>2, <2>5 DEF a, m
<1> DEFINE from == IF layer = h THEN Mapping(nodes, h - 1, 1) ELSE FirstUnit(layer - 1, "pass")
<1>3. PassOn(nodes, layer) = <<[from |-> from, to |-> FirstUnit(layer, "pass")]>>
  BY <1>1 DEF PassOn
<1>4. CASE layer = h
  <2>1. h - 1 \in -1 .. h - 1 /\ Nodes(e)[h - 1] = <<e>>
    BY <1>0, NodesFull
  <2>2. 1 \in 1 .. Len(Nodes(e)[h - 1])
    BY <2>1
  <2>3. from \in 0 .. MaxFuncUnits - 1
    BY <1>4, <2>1, <2>2, MappingBound
  <2>. QED
    BY <1>2, <1>3, <2>3
<1>5. CASE layer # h
  <2>1. layer - 1 \in h .. NLayers
    BY <1>0, <1>5
  <2>2. from \in 0 .. MaxFuncUnits - 1
    BY <1>2, <1>5, <2>1
  <2>. QED
    BY <1>2, <1>3, <2>2
<1>. QED
  BY <1>4, <1>5

(* What a layer above the tree passes on is a connection too.               *)
LEMMA PassOnType ==
    ASSUME NEW h, NEW e, Routable(h, e), NEW layer \in h .. NLayers
    PROVE  PassOn(Nodes(e), layer) \in Seq(Links)
<1> DEFINE from == IF layer = h THEN Mapping(Nodes(e), h - 1, 1)
                   ELSE FirstUnit(layer - 1, "pass")
           to == FirstUnit(layer, "pass")
           link == [from |-> from, to |-> to]
<1>1. /\ PassOn(Nodes(e), layer) = <<link>>
      /\ from \in 0 .. MaxFuncUnits - 1 /\ to \in 0 .. MaxFuncUnits - 1
  BY PassOnLink
<1> HIDE DEF from, to
<1>2. link \in Links
  BY <1>1 DEF Links
<1> HIDE DEF link
<1>. QED
  BY <1>1, <1>2, ShortSeqs

(* The routing of a statement connects what there is.                      *)
LEMMA RoutingType ==
    ASSUME NEW h, NEW e, Routable(h, e)
    PROVE  LayerRouting(e) \in [0 .. NLayers -> Seq(Links)]
<1>0. /\ h \in 0 .. MaxDepth /\ h \in Nat /\ e \in Full[h] /\ MaxDepth \in Nat
      /\ h + 1 <= NLayers /\ NLayers \in Nat
  BY HardwareAssumption, ProgramsAssumption DEF Routable
<1>1. DOMAIN Nodes(e) = -1 .. h - 1
  <2>1. h \in 0 .. MaxDepth /\ e \in Full[h]
    BY <1>0
  <2>. QED
    BY <2>1, NodesFull, Zenon
<1>2. ASSUME NEW layer \in 0 .. NLayers
      PROVE  (IF layer \in DOMAIN Nodes(e) THEN Inputs(Nodes(e), layer)
              ELSE PassOn(Nodes(e), layer)) \in Seq(Links)
  <2>1. CASE layer \in 0 .. h - 1
    <3>1. layer \in DOMAIN Nodes(e)
      BY <1>0, <1>1, <2>1
    <3>2. Inputs(Nodes(e), layer) \in Seq(Links)
      BY <2>1, InputsType
    <3>. QED
      BY <3>1, <3>2
  <2>2. CASE layer \in h .. NLayers
    <3>1. layer \notin DOMAIN Nodes(e)
      BY <1>0, <1>1, <2>2
    <3>2. PassOn(Nodes(e), layer) \in Seq(Links)
      BY <2>2, PassOnType
    <3>. QED
      BY <3>1, <3>2
  <2>. QED
    BY <1>0, <2>1, <2>2
<1>. QED
  BY <1>2 DEF LayerRouting

-----------------------------------------------------------------------------
(* Cells.                                                                  *)

(* The connections of one source in one layer are numbered one by one.     *)
LEMMA VarOutGrows ==
    ASSUME NEW inputs \in Seq(Links), NEW k \in 1 .. Len(inputs)
    PROVE  /\ VarOut(inputs, k) \in Nat
           /\ \A j \in 1 .. k - 1 : inputs[j].from = inputs[k].from
                                       => VarOut(inputs, j) < VarOut(inputs, k)
<1> DEFINE f == inputs[k].from
           X == {i \in 1 .. Len(inputs) : inputs[i].from = f}
<1>0. Len(inputs) \in Nat
  OBVIOUS
<1>1. ASSUME NEW j \in 1 .. k, inputs[j].from = f
      PROVE  VarOut(inputs, j) = Cardinality({i \in 1 .. j - 1 : i \in X})
  <2>1. {i \in 1 .. j - 1 : inputs[i].from = inputs[j].from} = {i \in 1 .. j - 1 : i \in X}
    <3>1. \A i \in 1 .. j - 1 : i \in 1 .. Len(inputs)
      BY <1>0
    <3> HIDE DEF f
    <3>. QED
      BY <1>1, <3>1
  <2>. QED
    BY <2>1 DEF VarOut
<1>2. VarOut(inputs, k) = Cardinality({i \in 1 .. k - 1 : i \in X})
  <2>1. k \in 1 .. k /\ inputs[k].from = f
    BY <1>0
  <2>. QED
    BY <1>1, <2>1
<1> HIDE DEF X
<1>3. VarOut(inputs, k) \in Nat
  BY <1>0, <1>2, Earlier
<1>4. ASSUME NEW j \in 1 .. k - 1, inputs[j].from = f
      PROVE  VarOut(inputs, j) < VarOut(inputs, k)
  <2>1. j \in 1 .. k /\ j \in 1 .. Len(inputs) /\ k - 1 \in Nat
    BY <1>0
  <2>2. j \in X
    BY <1>4, <2>1 DEF X
  <2>3. Cardinality({i \in 1 .. j - 1 : i \in X}) < Cardinality({i \in 1 .. k - 1 : i \in X})
    BY <2>1, <2>2, Earlier
  <2>. QED
    BY <1>1, <1>2, <1>4, <2>1, <2>3
<1>. QED
  BY <1>3, <1>4

(* The routing of every statement, once there is one.                      *)
RoutingTyped ==
    /\ routing \in Seq([0 .. NLayers -> Seq(Links)])
    /\ Len(routing) = IF Allocated THEN Len(trees) ELSE 0

(* A connection of a statement.                                            *)
IsConnection(c) ==
    /\ c = <<c[1], c[2], c[3]>>
    /\ c[1] \in 1 .. Len(routing)
    /\ c[2] \in 0 .. NLayers
    /\ c[3] \in 1 .. Len(routing[c[1]][c[2]])
    /\ VarOut(routing[c[1]][c[2]], c[3]) < BytesCell

(* What Connections(s) enumerates are connections of the statement s, when *)
(* they fit its cells.                                                     *)
LEMMA ConnectionFacts ==
    ASSUME RoutingTyped, NEW s \in 1 .. Len(routing), CellsFit(s), NEW c \in Connections(s)
    PROVE  IsConnection(c) /\ c[1] = s
<1>1. PICK layer \in 0 .. NLayers : \E k \in DOMAIN routing[s][layer] : c = <<s, layer, k>>
  BY DEF Connections
<1>2. PICK k \in DOMAIN routing[s][layer] : c = <<s, layer, k>>
  BY <1>1
<1>3. routing[s] \in [0 .. NLayers -> Seq(Links)]
  BY DEF RoutingTyped
<1>4. routing[s][layer] \in Seq(Links)
  BY <1>3
<1>5. k \in 1 .. Len(routing[s][layer])
  BY <1>4
<1>6. VarOut(routing[s][layer], k) < BytesCell
  BY DEF CellsFit
<1>7. c[1] = s /\ c[2] = layer /\ c[3] = k
  BY <1>2
<1>. QED
  BY <1>2, <1>5, <1>6, <1>7 DEF IsConnection

(* An offset is a place in the row of its layer and source, in the page of *)
(* its statement.                                                          *)
LEMMA OffsetParts ==
    ASSUME NEW s \in Nat \ {0}, NEW layer \in 0 .. NLayers,
           NEW from \in 0 .. MaxFuncUnits - 1, NEW slot \in 0 .. BytesCell - 1
    PROVE  LET place == from * BytesCell + slot
               row == layer * BytesLayer + place IN
           /\ place \in Nat /\ place < BytesLayer
           /\ row \in Nat /\ row < BytesOutStatement
           /\ Offset(s, layer, from, slot) = (s - 1) * BytesOutStatement + row
           /\ Offset(s, layer, from, slot) \in Nat
           /\ \A n \in Nat : s <= n => Offset(s, layer, from, slot) < n * BytesOutStatement
           /\ BytesLayer \in Nat /\ BytesOutStatement \in Nat
<1> DEFINE place == from * BytesCell + slot
           row == layer * BytesLayer + place
           m == MaxFuncUnits
           bos == BytesOutStatement
<1>0. /\ BytesCell \in Nat /\ m \in Nat /\ NLayers \in Nat /\ s - 1 \in Nat
      /\ NLayers + 1 \in Nat /\ layer \in Nat /\ layer < NLayers + 1
      /\ from \in Nat /\ from < m /\ slot \in Nat /\ slot < BytesCell
  <2>1. BytesCell \in Nat /\ m \in Nat /\ NLayers \in Nat
    BY HardwareAssumption, Widest
  <2>2. from \in 0 .. m - 1
    OBVIOUS
  <2> HIDE DEF m
  <2>. QED
    BY <2>1, <2>2
<1> HIDE DEF m
<1>1. place \in Nat /\ place < m * BytesCell
  BY <1>0, PlaceBound
<1>2. BytesLayer = m * BytesCell /\ BytesLayer \in Nat
  <2>1. \A x, y \in Nat : x * y = y * x
    OBVIOUS
  <2>. QED
    BY <1>0, <2>1, TimesNat DEF BytesLayer, m
<1> HIDE DEF place
<1>3. place < BytesLayer
  BY <1>1, <1>2
<1>4. row \in Nat /\ row < bos
  <2> HIDE DEF row
  <2>1. row \in Nat /\ row < (NLayers + 1) * BytesLayer
    BY <1>0, <1>1, <1>2, <1>3, PlaceBound DEF row
  <2>. QED
    BY <2>1 DEF BytesOutStatement
<1>5. bos \in Nat
  BY <1>0, <1>2, TimesNat DEF BytesOutStatement
<1>6. Offset(s, layer, from, slot) = (s - 1) * bos + row
      /\ Offset(s, layer, from, slot) \in Nat
  <2> DEFINE p == layer * BytesLayer
             q == from * BytesCell
             u == (s - 1) * bos
  <2>1. p \in Nat /\ q \in Nat /\ u \in Nat
    BY <1>0, <1>2, <1>5, TimesNat
  <2>2. Offset(s, layer, from, slot) = p + q + u + slot
    BY DEF Offset
  <2>3. row = p + (q + slot)
    BY DEF place
  <2> HIDE DEF p, q, u, row
  <2>4. Offset(s, layer, from, slot) = u + row /\ Offset(s, layer, from, slot) \in Nat
    BY <1>0, <2>1, <2>2, <2>3
  <2>. QED
    BY <2>4 DEF u
<1>7. ASSUME NEW n \in Nat, s <= n PROVE Offset(s, layer, from, slot) < n * bos
  <2>1. s - 1 < n
    BY <1>7
  <2> HIDE DEF row, bos
  <2>2. (s - 1) * bos + row < n * bos
    BY <1>0, <1>4, <1>5, <2>1, PlaceBound
  <2>. QED
    BY <1>6, <2>2
<1>. QED
  BY <1>1, <1>2, <1>3, <1>4, <1>5, <1>6, <1>7 DEF place

(* An offset is that of one statement, layer, source and slot only.        *)
LEMMA OffsetsApart ==
    ASSUME NEW s \in Nat \ {0}, NEW layer \in 0 .. NLayers,
           NEW from \in 0 .. MaxFuncUnits - 1, NEW slot \in 0 .. BytesCell - 1,
           NEW t \in Nat \ {0}, NEW high \in 0 .. NLayers,
           NEW source \in 0 .. MaxFuncUnits - 1, NEW gap \in 0 .. BytesCell - 1,
           Offset(s, layer, from, slot) = Offset(t, high, source, gap)
    PROVE  s = t /\ layer = high /\ from = source /\ slot = gap
<1> DEFINE place == from * BytesCell + slot
           row == layer * BytesLayer + place
           other == source * BytesCell + gap
           line == high * BytesLayer + other
<1>1. /\ place \in Nat /\ place < BytesLayer
      /\ row \in Nat /\ row < BytesOutStatement
      /\ Offset(s, layer, from, slot) = (s - 1) * BytesOutStatement + row
      /\ BytesLayer \in Nat /\ BytesOutStatement \in Nat
  BY OffsetParts
<1>2. /\ other \in Nat /\ other < BytesLayer
      /\ line \in Nat /\ line < BytesOutStatement
      /\ Offset(t, high, source, gap) = (t - 1) * BytesOutStatement + line
  BY OffsetParts
<1>3. /\ BytesCell \in Nat /\ s - 1 \in Nat /\ t - 1 \in Nat
      /\ layer \in Nat /\ high \in Nat
      /\ from \in Nat /\ source \in Nat /\ slot \in Nat /\ gap \in Nat
      /\ slot < BytesCell /\ gap < BytesCell
  BY HardwareAssumption, Widest
<1>4. s - 1 = t - 1 /\ row = line
  <2> DEFINE a == s - 1
             b == t - 1
             n == BytesOutStatement
  <2>1. /\ a \in Nat /\ b \in Nat /\ n \in Nat /\ row \in Nat /\ line \in Nat
        /\ row < n /\ line < n /\ a * n + row = b * n + line
    BY <1>1, <1>2, <1>3
  <2> HIDE DEF row, line, a, b, n
  <2>2. a = b /\ row = line
    BY <2>1, PlaceUnique
  <2>. QED
    BY <2>2 DEF a, b
<1>5. layer = high /\ place = other
  <2>1. layer * BytesLayer + place = high * BytesLayer + other
    BY <1>4
  <2> HIDE DEF place, other
  <2>. QED
    BY <1>1, <1>2, <1>3, <2>1, PlaceUnique
<1>6. from = source /\ slot = gap
  <2>1. from * BytesCell + slot = source * BytesCell + gap
    BY <1>5
  <2>. QED
    BY <1>3, <2>1, PlaceUnique
<1>7. s = t
  BY <1>4
<1>. QED
  BY <1>5, <1>6, <1>7

(* What a connection reads, and where it is written.                       *)
LEMMA CellFacts ==
    ASSUME RoutingTyped, NEW c, IsConnection(c)
    PROVE  LET inputs == routing[c[1]][c[2]]
               from == inputs[c[3]].from
               slot == VarOut(inputs, c[3]) IN
           /\ inputs \in Seq(Links)
           /\ c[1] \in Nat \ {0} /\ c[2] \in 0 .. NLayers
           /\ from \in 0 .. MaxFuncUnits - 1
           /\ slot \in 0 .. BytesCell - 1
           /\ CellOf(c) = Offset(c[1], c[2], from, slot)
           /\ CellOf(c) \in Nat /\ CellOf(c) < Len(routing) * BytesOutStatement
<1> DEFINE inputs == routing[c[1]][c[2]]
           from == inputs[c[3]].from
           slot == VarOut(inputs, c[3])
<1>0. /\ BytesCell \in Nat /\ Len(routing) \in Nat
      /\ c[1] \in 1 .. Len(routing) /\ c[2] \in 0 .. NLayers
      /\ c[3] \in 1 .. Len(inputs) /\ slot < BytesCell
  <2>1. Len(routing) \in Nat
    BY DEF RoutingTyped
  <2>. QED
    BY <2>1, HardwareAssumption DEF IsConnection
<1>1. inputs \in Seq(Links)
  <2>1. routing[c[1]] \in [0 .. NLayers -> Seq(Links)]
    BY <1>0 DEF RoutingTyped
  <2>. QED
    BY <1>0, <2>1
<1>2. from \in 0 .. MaxFuncUnits - 1 /\ slot \in Nat
  <2> HIDE DEF inputs
  <2>1. inputs[c[3]] \in Links
    BY <1>0, <1>1
  <2>2. slot \in Nat
    BY <1>0, <1>1, VarOutGrows
  <2>. QED
    BY <2>1, <2>2 DEF Links
<1>3. CellOf(c) = Offset(c[1], c[2], from, slot)
  BY DEF CellOf
<1> HIDE DEF from, slot, inputs
<1>4. slot \in 0 .. BytesCell - 1 /\ c[1] \in Nat \ {0}
  BY <1>0, <1>2
<1>5. CellOf(c) \in Nat /\ CellOf(c) < Len(routing) * BytesOutStatement
  <2>1. c[1] <= Len(routing)
    BY <1>0
  <2>. QED
    BY <1>0, <1>2, <1>3, <1>4, <2>1, OffsetParts
<1>. QED
  BY <1>0, <1>1, <1>2, <1>3, <1>4, <1>5 DEF from, slot, inputs

(* No two connections share a cell.                                        *)
LEMMA CellsApart ==
    ASSUME RoutingTyped, NEW c, IsConnection(c), NEW d, IsConnection(d), CellOf(c) = CellOf(d)
    PROVE  c = d
<1> DEFINE inputs(x) == routing[x[1]][x[2]]
           from(x) == inputs(x)[x[3]].from
           slot(x) == VarOut(inputs(x), x[3])
           Fine(x) == /\ inputs(x) \in Seq(Links)
                      /\ x[1] \in Nat \ {0} /\ x[2] \in 0 .. NLayers
                      /\ from(x) \in 0 .. MaxFuncUnits - 1
                      /\ slot(x) \in 0 .. BytesCell - 1
                      /\ CellOf(x) = Offset(x[1], x[2], from(x), slot(x))
<1>1. Fine(c) /\ Fine(d)
  BY CellFacts
<1>2. \A x \in {c, d} : x = <<x[1], x[2], x[3]>> /\ x[3] \in 1 .. Len(inputs(x))
  BY DEF IsConnection
<1>4. c[1] = d[1] /\ c[2] = d[2] /\ from(c) = from(d) /\ slot(c) = slot(d)
  <2>1. Offset(c[1], c[2], from(c), slot(c)) = Offset(d[1], d[2], from(d), slot(d))
    BY <1>1
  <2> DEFINE s == c[1]
             t == d[1]
             layer == c[2]
             high == d[2]
             f == from(c)
             g == from(d)
             x == slot(c)
             y == slot(d)
  <2>2. /\ s \in Nat \ {0} /\ layer \in 0 .. NLayers
        /\ f \in 0 .. MaxFuncUnits - 1 /\ x \in 0 .. BytesCell - 1
        /\ t \in Nat \ {0} /\ high \in 0 .. NLayers
        /\ g \in 0 .. MaxFuncUnits - 1 /\ y \in 0 .. BytesCell - 1
        /\ Offset(s, layer, f, x) = Offset(t, high, g, y)
    BY <1>1, <2>1
  <2> HIDE DEF s, t, layer, high, f, g, x, y
  <2>3. s = t /\ layer = high /\ f = g /\ x = y
    BY <2>2, OffsetsApart
  <2>. QED
    BY <2>3 DEF s, t, layer, high, f, g, x, y
<1>5. c[3] = d[3]
  <2> DEFINE q == inputs(c)
             j == c[3]
             k == d[3]
  <2>1. q \in Seq(Links) /\ inputs(d) = q /\ Len(q) \in Nat
    <3>1. q \in Seq(Links) /\ inputs(d) = q
      BY <1>1, <1>4
    <3>. QED
      BY <3>1, LenProperties
  <2>2. j \in 1 .. Len(q) /\ k \in 1 .. Len(q)
    BY <1>2, <2>1
  <2>3. q[j].from = q[k].from /\ VarOut(q, j) = VarOut(q, k)
    BY <1>4, <2>1
  <2> HIDE DEF q, j, k
  <2>4. VarOut(q, j) \in Nat /\ VarOut(q, k) \in Nat
    BY <2>1, <2>2, VarOutGrows
  <2>5. CASE j < k
    <3>1. j \in 1 .. k - 1
      BY <2>1, <2>2, <2>5
    <3>2. VarOut(q, j) < VarOut(q, k)
      BY <2>1, <2>2, <2>3, <3>1, VarOutGrows
    <3>. QED
      BY <2>3, <2>4, <3>2
  <2>6. CASE k < j
    <3>1. k \in 1 .. j - 1
      BY <2>1, <2>2, <2>6
    <3>2. VarOut(q, k) < VarOut(q, j)
      BY <2>1, <2>2, <2>3, <3>1, VarOutGrows
    <3>. QED
      BY <2>3, <2>4, <3>2
  <2>7. CASE j = k
    BY <2>7 DEF j, k
  <2>8. j < k \/ k < j \/ j = k
    BY <2>1, <2>2
  <2>. QED
    BY <2>5, <2>6, <2>7, <2>8
<1>. QED
  BY <1>2, <1>4, <1>5

(* Powers of two.                                                          *)
LEMMA ShiftedFacts ==
    /\ Shifted[0] = 1
    /\ \A n \in Nat : Shifted[n + 1] = 2 * Shifted[n]
    /\ \A n \in Nat : Shifted[n] \in Nat /\ Shifted[n] >= n + 1
<1> DEFINE g == [x \in Nat \X Nat |-> 2 * x[2]]
           Doubles(f) == f = [n \in Nat |-> IF n = 0 THEN 1 ELSE 2 * f[n - 1]]
<1>1. g \in [Nat \X Nat -> Nat] /\ \A n, v \in Nat : g[<<n, v>>] = 2 * v
  OBVIOUS
<1> HIDE DEF g
<1>2. PICK f : Iterates(Nat, 1, g, f)
  BY <1>1, NatRecursion
<1>3. ASSUME NEW n \in Nat PROVE f[n] = IF n = 0 THEN 1 ELSE 2 * f[n - 1]
  <2>1. CASE n = 0
    BY <1>2, <2>1 DEF Iterates
  <2>2. CASE n # 0
    <3>1. n - 1 \in Nat /\ (n - 1) + 1 = n
      BY <2>2
    <3>2. f[n] = g[<<n - 1, f[n - 1]>>] /\ f[n - 1] \in Nat
      BY <1>2, <3>1 DEF Iterates
    <3>. QED
      BY <1>1, <2>2, <3>1, <3>2
  <2>. QED
    BY <2>1, <2>2
<1>4. Doubles(f)
  <2>1. f = [n \in Nat |-> f[n]]
    BY <1>2 DEF Iterates
  <2>. QED
    BY <1>3, <2>1
<1>5. Shifted = [n \in Nat |-> IF n = 0 THEN 1 ELSE 2 * Shifted[n - 1]]
  BY <1>4 DEF Shifted
<1>6. Shifted[0] = 1 /\ \A n \in Nat : Shifted[n + 1] = 2 * Shifted[n]
  <2>1. \A n \in Nat : n + 1 \in Nat /\ n + 1 # 0 /\ (n + 1) - 1 = n
    OBVIOUS
  <2>. QED
    BY <1>5, <2>1
<1> DEFINE T == {n \in Nat : Shifted[n] \in Nat /\ Shifted[n] >= n + 1}
<1>7. 0 \in T
  BY <1>6
<1>8. ASSUME NEW n \in Nat, n \in T PROVE n + 1 \in T
  BY <1>6, <1>8
<1>9. \A n \in Nat : n \in T
  <2> HIDE DEF T
  <2>. QED
    BY <1>7, <1>8, SetInduction
<1>. QED
  BY <1>6, <1>9

(* The number of bits that hold every unit.                                *)
LEMMA IdxBitFacts ==
    IdxBit \in 0 .. MaxFuncUnits /\ Shifted[IdxBit] >= MaxFuncUnits + 1
<1> DEFINE m == MaxFuncUnits
           B == {b \in Nat : Shifted[b] >= m + 1}
<1>0. m \in Nat
  BY Widest
<1>1. m \in B
  BY <1>0, ShiftedFacts
<1>2. PICK b \in B : \A c \in B : b <= c
  <2>1. B \subseteq Nat
    OBVIOUS
  <2> HIDE DEF B
  <2>. QED
    BY <1>1, <2>1, NatMinimum
<1>3. /\ b \in 0 .. m /\ Shifted[b] >= m + 1
      /\ \A c \in 0 .. b - 1 : Shifted[c] < m + 1
  <2>1. b \in Nat /\ Shifted[b] >= m + 1 /\ b <= m
    BY <1>0, <1>1, <1>2
  <2>2. ASSUME NEW c \in 0 .. b - 1 PROVE Shifted[c] < m + 1
    <3>1. c \in Nat /\ ~(b <= c)
      BY <2>1
    <3>2. c \notin B
      BY <1>2, <3>1
    <3>. QED
      BY <1>0, <3>1, <3>2, ShiftedFacts
  <2>. QED
    BY <1>0, <2>1, <2>2
<1>. QED
  BY <1>3 DEF IdxBit

(* Every byte that is written fits the cell.                               *)
LEMMA ByteBound ==
    ASSUME RoutingTyped, NEW c, IsConnection(c)
    PROVE  ByteOf(c) \in 0 .. Shifted[CellBits] - 1
<1> DEFINE inputs == routing[c[1]][c[2]]
           to == inputs[c[3]].to
           idx == IdxOut(inputs, c[3])
           w == Shifted[IdxBit]
           b == Shifted[CellBits]
<1>0. inputs \in Seq(Links) /\ c[3] \in 1 .. Len(inputs)
  BY CellFacts DEF IsConnection
<1>1. to \in Nat
  <2> HIDE DEF inputs
  <2>1. inputs[c[3]] \in Links
    BY <1>0
  <2>2. MaxFuncUnits \in Nat
    BY Widest
  <2>. QED
    BY <2>1, <2>2 DEF Links
<1>2. idx \in Nat
  <2> DEFINE k == c[3]
             X == {j \in 1 .. Len(inputs) : inputs[j].to = to}
  <2> HIDE DEF inputs
  <2>1. Len(inputs) \in Nat /\ k \in 1 .. Len(inputs)
    BY <1>0
  <2> HIDE DEF k, to
  <2>2. {j \in 1 .. k - 1 : inputs[j].to = to} = {j \in 1 .. k - 1 : j \in X}
    BY <2>1
  <2>3. Cardinality({j \in 1 .. k - 1 : j \in X}) \in Nat
    <3> HIDE DEF X
    <3>. QED
      BY <2>1, Earlier
  <2>4. idx = Cardinality({j \in 1 .. k - 1 : inputs[j].to = to})
    BY DEF IdxOut, k, to
  <2>. QED
    BY <2>2, <2>3, <2>4
<1>3. w \in Nat /\ b \in Nat \ {0}
  <2>1. IdxBit \in Nat /\ CellBits \in Nat
    BY IdxBitFacts, Widest, HardwareAssumption
  <2>2. w \in Nat /\ b \in Nat /\ b >= CellBits + 1
    BY <2>1, ShiftedFacts
  <2> HIDE DEF w, b
  <2>. QED
    BY <2>1, <2>2
<1>4. ByteOf(c) = (to + idx * w) % b
  BY DEF ByteOf, CellValue
<1> HIDE DEF to, idx, w, b
<1>5. idx * w \in Nat
  BY <1>2, <1>3, TimesNat
<1>6. (to + idx * w) % b \in Nat /\ (to + idx * w) % b < b
  <2> DEFINE p == idx * w
  <2>1. to + p \in Nat
    BY <1>1, <1>5
  <2> HIDE DEF p
  <2>2. (to + p) % b \in Nat /\ (to + p) % b < b
    BY <1>3, <2>1, DivFacts
  <2>. QED
    BY <2>2 DEF p
<1> DEFINE v == ByteOf(c)
<1>7. v \in Nat /\ v < b /\ b \in Nat
  BY <1>3, <1>4, <1>6
<1> HIDE DEF v
<1>8. v \in 0 .. b - 1
  BY <1>7
<1>. QED
  BY <1>8 DEF v, b

(* What is written to the device.                                          *)
CellsHeld ==
    /\ \A s \in 1 .. written : CellsFit(s)
    /\ DOMAIN cells = {CellOf(c) : c \in Written}
    /\ \A c \in Written : cells[CellOf(c)] = ByteOf(c)

(* What has been written are connections.                                  *)
LEMMA WrittenConnects ==
    ASSUME OutStages, RoutingTyped, \A s \in 1 .. written : CellsFit(s)
    PROVE  \A c \in Written : IsConnection(c) /\ c[1] \in 1 .. written
<1>1. written \in 0 .. Len(trees) /\ (written = 0 \/ Allocated)
  BY DEF OutStages
<1>2. Len(trees) \in Nat
  <2>1. trees \in Seq(Expr)
    BY StagesLength
  <2>. QED
    BY <2>1, LenProperties
<1>3. 1 .. written \subseteq 1 .. Len(routing)
  <2>1. Allocated => Len(routing) = Len(trees)
    BY DEF RoutingTyped
  <2> HIDE DEF OutStages, RoutingTyped, Allocated
  <2>. QED
    BY <1>1, <1>2, <2>1
<1>4. ASSUME NEW c \in Written PROVE IsConnection(c) /\ c[1] \in 1 .. written
  <2>1. PICK s \in 1 .. written : c \in Connections(s)
    BY DEF Written
  <2>2. IsConnection(c) /\ c[1] = s
    BY <1>3, <2>1, ConnectionFacts
  <2>. QED
    BY <2>2
<1>. QED
  BY <1>4

-----------------------------------------------------------------------------
(* The invariant.                                                          *)

(* The stage, what it routed, and what of that was written.                *)
OutInv == OutStages /\ CellsHeld

(* What passed the check can be routed.                                    *)
LEMMA TreesRoutable ==
    ASSUME OutStages, phase = "analysed" \/ Allocated,
           \A s \in DOMAIN trees : AllocationFits(trees[s])
    PROVE  \A s \in 1 .. Len(trees) : /\ s \in DOMAIN program /\ program[s] \in Expr
                                      /\ trees[s] = Levelled(program[s])
                                      /\ Routable(GetMaxDepth[program[s]], trees[s])
<1>0. program \in Seq(Expr) /\ trees \in Seq(Expr) /\ Len(trees) = Len(program)
  BY StagesLength
<1>1. /\ trees = [s \in DOMAIN program |-> Levelled(program[s])]
      /\ literals = LiteralsOf(trees)
      /\ CheckMeetHardwareConstaints(literals)
  BY DEF OutStages, Allocated
<1>2. ASSUME NEW s \in 1 .. Len(trees)
      PROVE  /\ s \in DOMAIN program /\ program[s] \in Expr
             /\ trees[s] = Levelled(program[s])
             /\ Routable(GetMaxDepth[program[s]], trees[s])
  <2> DEFINE e == program[s]
             h == GetMaxDepth[e]
             tree == trees[s]
  <2>1. s \in DOMAIN program /\ s \in DOMAIN trees /\ e \in Expr /\ tree = Levelled(e)
    BY <1>0, <1>1
  <2>2. h \in 0 .. MaxDepth /\ tree \in Full[h] /\ GetMaxDepth[tree] = h
    <3> HIDE DEF e, tree
    <3>. QED
      BY <2>1, LevelledFull
  <2>3. GetMaxDepth[tree] + 1 <= NLayers /\ AllocationFits(tree)
    BY <1>1, <2>1 DEF CheckMeetHardwareConstaints
  <2>4. /\ literals \in Seq(Int)
        /\ \A x : Among(x, LeavesOf[tree]) /\ x.tag = "int" => Among(x.num, literals)
    BY <1>0, <1>1, LiteralsFound
  <2>5. Routable(h, tree)
    <3> HIDE DEF h, tree
    <3>. QED
      BY <1>1, <2>2, <2>3, <2>4 DEF Routable
  <2>. QED
    BY <2>1, <2>5
<1>. QED
  BY <1>2

(* What passed the check and can be allocated is routed within bounds.     *)
LEMMA AllocationRoutes ==
    ASSUME OutStages, phase = "analysed" \/ Allocated,
           \A s \in DOMAIN trees : AllocationFits(trees[s])
    PROVE  [s \in DOMAIN trees |-> LayerRouting(trees[s])]
              \in Seq([0 .. NLayers -> Seq(Links)])
<1>0. trees \in Seq(Expr)
  BY StagesLength
<1>2. ASSUME NEW s \in 1 .. Len(trees)
      PROVE  LayerRouting(trees[s]) \in [0 .. NLayers -> Seq(Links)]
  BY TreesRoutable, RoutingType
<1>3. DOMAIN trees = 1 .. Len(trees) /\ Len(trees) \in Nat
  BY <1>0, LenProperties
<1> DEFINE R(s) == LayerRouting(trees[s])
           U == [0 .. NLayers -> Seq(Links)]
<1>4. \A s \in 1 .. Len(trees) : R(s) \in U
  BY <1>2
<1> HIDE DEF R, U
<1>5. [s \in 1 .. Len(trees) |-> R(s)] \in Seq(U)
  BY <1>3, <1>4
<1>. QED
  BY <1>3, <1>5 DEF R, U

(* The routing of the statements that are allocated is within bounds.      *)
LEMMA RoutingHolds == OutStages => RoutingTyped
<1> SUFFICES ASSUME OutStages PROVE RoutingTyped
  OBVIOUS
<1>1. CASE Allocated
  <2>1. /\ \A s \in DOMAIN trees : AllocationFits(trees[s])
        /\ routing = [s \in DOMAIN trees |-> LayerRouting(trees[s])]
    BY <1>1 DEF OutStages
  <2>2. routing \in Seq([0 .. NLayers -> Seq(Links)])
    BY <1>1, <2>1, AllocationRoutes
  <2>3. Len(routing) = Len(trees)
    <3>1. trees \in Seq(Expr)
      BY StagesLength
    <3>2. DOMAIN trees = 1 .. Len(trees) /\ Len(trees) \in Nat
      BY <3>1, LenProperties
    <3>3. DOMAIN routing = 1 .. Len(trees)
      BY <2>1, <3>2
    <3>4. DOMAIN routing = 1 .. Len(routing) /\ Len(routing) \in Nat
      BY <2>2, LenProperties
    <3> DEFINE a == Len(trees)
               b == Len(routing)
    <3>5. 1 .. a = 1 .. b /\ a \in Nat /\ b \in Nat
      BY <3>2, <3>3, <3>4
    <3> HIDE DEF a, b
    <3>6. a = b
      BY <3>5
    <3>. QED
      BY <3>6 DEF a, b
  <2>. QED
    BY <1>1, <2>2, <2>3 DEF RoutingTyped
<1>2. CASE ~Allocated
  <2>1. routing = <<>>
    BY <1>2 DEF OutStages
  <2>2. <<>> \in Seq([0 .. NLayers -> Seq(Links)]) /\ Len(<<>>) = 0
    BY EmptySeq
  <2>. QED
    BY <1>2, <2>1, <2>2 DEF RoutingTyped
<1>. QED
  BY <1>1, <1>2

(* The device holds nothing before the first write.                        *)
LEMMA CellsAtStart == OutInit => CellsHeld
<1> SUFFICES ASSUME OutInit PROVE CellsHeld
  OBVIOUS
<1>1. written = 0 /\ DOMAIN cells = {}
  BY DEF OutInit
<1>2. Written = {}
  BY <1>1 DEF Written
<1>. QED
  BY <1>1, <1>2 DEF CellsHeld

(* Writing a statement adds its connections and disturbs no other.         *)
LEMMA CellsWritten ==
    ASSUME OutStages, RoutingTyped, CellsHeld, DoControlWrites, written' = written + 1
    PROVE  CellsHeld'
<1> DEFINE s == written + 1
           writes == CellWrites(s)
           new == {w[1] : w \in writes}
<1>0. /\ phase = "allocated" /\ written < Len(trees) /\ routing' = routing
      /\ CellsFit(s)
      /\ cells' = [a \in DOMAIN cells \cup new |->
                      IF a \in new THEN (CHOOSE w \in writes : w[1] = a)[2] ELSE cells[a]]
  <2>1. /\ phase = "allocated" /\ written < Len(trees) /\ routing' = routing
        /\ IF CellsFit(s)
           THEN cells' = [a \in DOMAIN cells \cup new |->
                      IF a \in new THEN (CHOOSE w \in writes : w[1] = a)[2] ELSE cells[a]]
           ELSE written' = written
    BY DEF DoControlWrites
  <2>2. written' # written
    <3>1. written \in 0 .. Len(trees)
      BY DEF OutStages
    <3>2. written \in Int
      BY <3>1
    <3>. QED
      BY <3>2
  <2>. QED
    BY <2>1, <2>2
<1>1. /\ s \in 1 .. Len(routing) /\ written \in Nat
      /\ \A t \in 1 .. s : t \in 1 .. written \/ t = s
      /\ \A t \in 1 .. written : t \in 1 .. s /\ t # s
      /\ s \in 1 .. s
  <2>1. trees \in Seq(Expr)
    BY StagesLength
  <2>2. Len(trees) \in Nat
    BY <2>1, LenProperties
  <2>3. Len(routing) = Len(trees) /\ written \in 0 .. Len(trees)
    BY <1>0 DEF RoutingTyped, Allocated, OutStages
  <2>4. written < Len(trees)
    BY <1>0
  <2> HIDE DEF OutStages, RoutingTyped, CellsHeld, DoControlWrites
  <2>. QED
    BY <2>2, <2>3, <2>4
<1>2. \A c \in Connections(s) : IsConnection(c) /\ c[1] = s
  BY <1>0, <1>1, ConnectionFacts
<1>3. /\ \A c \in Written : IsConnection(c) /\ c[1] \in 1 .. written
      /\ DOMAIN cells = {CellOf(c) : c \in Written}
      /\ \A c \in Written : cells[CellOf(c)] = ByteOf(c)
      /\ \A t \in 1 .. written : CellsFit(t)
  BY WrittenConnects DEF CellsHeld
<1>4. Written' = Written \cup Connections(s)
  <2>1. \A t : Connections(t)' = Connections(t)
    BY <1>0 DEF Connections
  <2>2. Written' = UNION {Connections(t) : t \in 1 .. s}
    BY <2>1 DEF Written
  <2>3. UNION {Connections(t) : t \in 1 .. s} = (UNION {Connections(t) : t \in 1 .. written}) \cup Connections(s)
    BY <1>1
  <2>. QED
    BY <2>2, <2>3 DEF Written
<1>5. /\ \A c : CellOf(c)' = CellOf(c) /\ ByteOf(c)' = ByteOf(c)
      /\ \A t : CellsFit(t)' = CellsFit(t)
  BY <1>0 DEF CellOf, ByteOf, CellsFit
<1>6. new = {CellOf(c) : c \in Connections(s)}
  <2>1. writes = {<<CellOf(c), ByteOf(c)>> : c \in Connections(s)}
    BY DEF CellWrites
  <2>2. \A c : <<CellOf(c), ByteOf(c)>>[1] = CellOf(c)
    OBVIOUS
  <2> HIDE DEF writes
  <2>3. ASSUME NEW a \in new PROVE a \in {CellOf(c) : c \in Connections(s)}
    <3>1. PICK w \in writes : a = w[1]
      OBVIOUS
    <3>2. PICK c \in Connections(s) : w = <<CellOf(c), ByteOf(c)>>
      BY <2>1
    <3>3. a = CellOf(c)
      BY <2>2, <3>1, <3>2
    <3>. QED
      BY <3>3
  <2>4. ASSUME NEW c \in Connections(s) PROVE CellOf(c) \in new
    <3>1. <<CellOf(c), ByteOf(c)>> \in writes
      BY <2>1
    <3>. QED
      BY <2>2, <3>1
  <2>. QED
    BY <2>3, <2>4
<1>7. ASSUME NEW c \in Connections(s)
      PROVE  (CHOOSE w \in writes : w[1] = CellOf(c))[2] = ByteOf(c)
  <2>0. writes = {<<CellOf(d), ByteOf(d)>> : d \in Connections(s)}
    BY DEF CellWrites
  <2> DEFINE w == CHOOSE x \in writes : x[1] = CellOf(c)
             w0 == <<CellOf(c), ByteOf(c)>>
  <2>1. w0 \in writes /\ w0[1] = CellOf(c)
    BY <2>0
  <2>2. w \in writes /\ w[1] = CellOf(c)
    <3> HIDE DEF w0, writes
    <3>. QED
      BY <2>1
  <2> HIDE DEF w, w0
  <2>3. PICK d \in Connections(s) : w = <<CellOf(d), ByteOf(d)>>
    <3> HIDE DEF writes
    <3>. QED
      BY <2>0, <2>2
  <2>4. CellOf(d) = CellOf(c) /\ w[2] = ByteOf(d)
    BY <2>2, <2>3
  <2>5. d = c
    BY <1>2, <2>4, CellsApart
  <2>6. w[2] = ByteOf(c)
    BY <2>4, <2>5
  <2>. QED
    BY <2>6 DEF w
<1>8. ASSUME NEW c \in Written PROVE CellOf(c) \notin new /\ CellOf(c) \in DOMAIN cells
  <2>1. ASSUME NEW d \in Connections(s), CellOf(c) = CellOf(d) PROVE FALSE
    <3>1. c = d
      BY <1>2, <1>3, <2>1, CellsApart
    <3>. QED
      BY <1>1, <1>2, <1>3, <3>1
  <2>. QED
    BY <1>3, <1>6, <2>1
<1> DEFINE val(a) == (CHOOSE w \in writes : w[1] = a)[2]
<1>9. /\ DOMAIN cells' = DOMAIN cells \cup new
      /\ \A a \in new : cells'[a] = val(a)
      /\ \A a \in DOMAIN cells : a \notin new => cells'[a] = cells[a]
  <2> HIDE DEF val, new, writes
  <2>. QED
    BY <1>0 DEF val, new, writes
<1>10. DOMAIN cells' = {CellOf(c) : c \in Written'}
  <2>1. \A S, T : {CellOf(c) : c \in S \cup T}
                    = {CellOf(c) : c \in S} \cup {CellOf(c) : c \in T}
    OBVIOUS
  <2>2. {CellOf(c) : c \in Written'}
           = {CellOf(c) : c \in Written} \cup {CellOf(c) : c \in Connections(s)}
    BY <1>4, <2>1
  <2> HIDE DEF val, new, writes
  <2>. QED
    BY <1>3, <1>6, <1>9, <2>2
<1>11. ASSUME NEW c \in Written' PROVE cells'[CellOf(c)] = ByteOf(c)
  <2>1. CASE c \in Written
    <3> HIDE DEF val, new, writes
    <3>. QED
      BY <1>3, <1>8, <1>9, <2>1
  <2>2. CASE c \in Connections(s)
    <3>1. CellOf(c) \in new /\ val(CellOf(c)) = ByteOf(c)
      BY <1>6, <1>7, <2>2
    <3> HIDE DEF val, new, writes
    <3>. QED
      BY <1>9, <3>1
  <2>. QED
    BY <1>4, <2>1, <2>2
<1>12. \A t \in 1 .. written' : CellsFit(t)
  BY <1>0, <1>1, <1>3
<1> HIDE DEF val, new, writes
<1>. QED
  BY <1>5, <1>10, <1>11, <1>12 DEF CellsHeld

(* Only a write changes what the device holds.                             *)
LEMMA CellsKept == OutStages /\ RoutingTyped /\ CellsHeld /\ [OutNext]_outVars => CellsHeld'
<1> SUFFICES ASSUME OutStages, RoutingTyped, CellsHeld, [OutNext]_outVars PROVE CellsHeld'
  OBVIOUS
<1>1. CASE DoControlWrites /\ written' = written + 1
  BY <1>1, CellsWritten
<1>2. CASE written = 0 /\ written' = 0 /\ cells' = cells
  <2>1. Written = {} /\ Written' = {}
    BY <1>2 DEF Written
  <2>. QED
    BY <1>2, <2>1 DEF CellsHeld
<1>3. CASE written' = written /\ cells' = cells /\ routing' = routing
  <2>1. Written' = Written
    BY <1>3 DEF Written, Connections
  <2>2. /\ \A c : CellOf(c)' = CellOf(c) /\ ByteOf(c)' = ByteOf(c)
        /\ \A t : CellsFit(t)' = CellsFit(t)
    BY <1>3 DEF CellOf, ByteOf, CellsFit
  <2>. QED
    BY <1>3, <2>1, <2>2 DEF CellsHeld
<1>4. \/ DoControlWrites /\ written' = written + 1
      \/ written = 0 /\ written' = 0 /\ cells' = cells
      \/ written' = written /\ cells' = cells /\ routing' = routing
  <2>1. CASE TransformPass
    BY <2>1 DEF TransformPass
  <2>2. CASE ResourceAnalysis
    BY <2>2 DEF ResourceAnalysis
  <2>3. CASE ResourceAllocation
    BY <2>3 DEF ResourceAllocation, OutStages, Allocated
  <2>4. CASE DoControlWrites
    BY <2>4 DEF DoControlWrites
  <2>5. CASE UNCHANGED outVars
    BY <2>5 DEF outVars
  <2>. QED
    BY <2>1, <2>2, <2>3, <2>4, <2>5 DEF OutNext
<1>. QED
  BY <1>1, <1>2, <1>3, <1>4

(* The invariant holds in every reachable state.                           *)
THEOREM OutInvariant == OutSpec => []OutInv
<1>1. OutInit => OutInv
  BY StagesAtStart, CellsAtStart DEF OutInv
<1>2. OutInv /\ [OutNext]_outVars => OutInv'
  BY StagesKept, RoutingHolds, CellsKept DEF OutInv
<1>. QED
  BY <1>1, <1>2, PTL DEF OutSpec

(* Expressions stay trees of bounded depth, every connection stays within  *)
(* numbers, and every byte fits its cell.                                  *)
THEOREM OutTypes == OutSpec => []OutTypeOK
<1>1. OutInv => OutTypeOK
  <2> SUFFICES ASSUME OutInv PROVE OutTypeOK
    OBVIOUS
  <2>0. OutStages /\ RoutingTyped /\ CellsHeld
    BY RoutingHolds DEF OutInv
  <2>1. program \in Seq(Expr) /\ trees \in Seq(Expr) /\ Len(trees) = Len(program)
    BY <2>0, StagesLength
  <2>2. literals \in Seq(Int)
    <3>1. literals = <<>> \/ literals = LiteralsOf(trees)
      BY <2>0 DEF OutStages
    <3>. QED
      BY <2>1, <3>1, LiteralsFound, EmptySeq
  <2>3. routing \in Seq([0 .. NLayers -> Seq([from : Nat, to : Nat])])
    <3>1. Links \subseteq [from : Nat, to : Nat]
      <4>1. MaxFuncUnits \in Nat
        BY Widest
      <4>. QED
        BY <4>1 DEF Links
    <3>2. Seq(Links) \subseteq Seq([from : Nat, to : Nat])
      BY <3>1, SeqMonotonic
    <3>3. [0 .. NLayers -> Seq(Links)] \subseteq [0 .. NLayers -> Seq([from : Nat, to : Nat])]
      BY <3>2
    <3>4. routing \in Seq([0 .. NLayers -> Seq(Links)])
      BY <2>0 DEF RoutingTyped
    <3>. QED
      BY <3>3, <3>4, SeqMonotonic
  <2>4. Len(routing) \in {0, Len(trees)}
    BY <2>0 DEF RoutingTyped
  <2>5. /\ phase \in {"parsed", "transformed", "analysed", "exit",
                      "allocated", "unit assert", "cell assert"}
        /\ written \in 0 .. Len(trees)
    BY <2>0 DEF OutStages
  <2>6. \A c \in Written : IsConnection(c)
    BY <2>0, WrittenConnects DEF CellsHeld
  <2>7. DOMAIN cells \subseteq Nat
    <3>1. \A c \in Written : CellOf(c) \in Nat
      BY <2>0, <2>6, CellFacts
    <3>. QED
      BY <2>0, <3>1 DEF CellsHeld
  <2>8. \A a \in DOMAIN cells : cells[a] \in 0 .. Shifted[CellBits] - 1
    <3>1. \A c \in Written : ByteOf(c) \in 0 .. Shifted[CellBits] - 1
      BY <2>0, <2>6, ByteBound
    <3>. QED
      BY <2>0, <3>1 DEF CellsHeld
  <2>. QED
    BY <2>1, <2>2, <2>3, <2>4, <2>5, <2>7, <2>8 DEF OutTypeOK
<1>. QED
  BY <1>1, OutInvariant, PTL

(* For every program, stack of layers and geometry of the cells: every     *)
(* connection written so far has a cell of its own, and the device holds   *)
(* its byte.                                                               *)
THEOREM CellsAreNeverShared == OutSpec => []CellsNeverShared
<1>1. OutInv => CellsNeverShared
  <2> SUFFICES ASSUME OutInv PROVE CellsNeverShared
    OBVIOUS
  <2>0. OutStages /\ RoutingTyped /\ CellsHeld
    BY RoutingHolds DEF OutInv
  <2>1. \A c \in Written : IsConnection(c)
    BY <2>0, WrittenConnects DEF CellsHeld
  <2>2. /\ DOMAIN cells = {CellOf(c) : c \in Written}
        /\ \A c \in Written : cells[CellOf(c)] = ByteOf(c)
    BY <2>0 DEF CellsHeld
  <2> DEFINE f == [c \in Written |-> CellOf(c)]
             bound == Len(routing) * BytesOutStatement
  <2>3. \A c, d \in Written : CellOf(c) = CellOf(d) => c = d
    BY <2>0, <2>1, CellsApart
  <2>4. f \in Injection(Written, DOMAIN cells) /\ f \in Surjection(Written, DOMAIN cells)
    <3>1. \A c \in Written : f[c] = CellOf(c) /\ f[c] \in DOMAIN cells
      BY <2>2
    <3>2. f \in [Written -> DOMAIN cells]
      BY <3>1
    <3>3. \A a \in DOMAIN cells : \E c \in Written : f[c] = a
      BY <2>2, <3>1
    <3>4. \A c, d \in Written : f[c] = f[d] => c = d
      BY <2>3, <3>1
    <3> HIDE DEF f
    <3>. QED
      BY <3>2, <3>3, <3>4 DEF Injection, Surjection, IsInjective
  <2>5. IsFiniteSet(DOMAIN cells)
    <3>1. bound \in Nat
      <4>1. Len(routing) \in Nat /\ MaxFuncUnits \in Nat /\ BytesCell \in Nat /\ NLayers + 1 \in Nat
        BY <2>0, Widest, HardwareAssumption DEF RoutingTyped
      <4>2. BytesLayer \in Nat
        BY <4>1, TimesNat DEF BytesLayer
      <4>3. BytesOutStatement \in Nat
        BY <4>1, <4>2, TimesNat DEF BytesOutStatement
      <4>. QED
        BY <4>1, <4>3, TimesNat
    <3>2. \A c \in Written : CellOf(c) \in Nat /\ CellOf(c) < bound
      BY <2>0, <2>1, CellFacts
    <3> HIDE DEF bound
    <3>3. DOMAIN cells \subseteq 0 .. bound
      BY <2>2, <3>1, <3>2
    <3>4. IsFiniteSet(0 .. bound)
      BY <3>1, FS_Interval
    <3>. QED
      BY <3>3, <3>4, FS_Subset
  <2>6. Cardinality(DOMAIN cells) = Cardinality(Written)
    <3> HIDE DEF f
    <3>. QED
      BY <2>4, <2>5, FS_Injection
  <2>. QED
    BY <2>2, <2>6 DEF CellsNeverShared
<1>. QED
  BY <1>1, OutInvariant, PTL
=============================================================================
