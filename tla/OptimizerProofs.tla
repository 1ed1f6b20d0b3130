---------------------------- MODULE OptimizerProofs ----------------------------
(***************************************************************************)
(* Proofs about Optimizer, for every set of programs, depth of expressions *)
(* and width of int: the passes keep the tree well formed (OptTypes), no   *)
(* name is left without a declaration (NamesStayResolved), no OUT          *)
(* statement changes its value (ValuesStay), no two registers end up with  *)
(* one generated value (RegistersStayMinimal), and nothing is left to fold *)
(* (NothingStaysToFold).                                                   *)
(*                                                                         *)
(* The invariant is OptInv.  Its parts hold at different stages: until     *)
(* coalescing all names are those of the program (Written), and when       *)
(* coalescing begins a name that is left is one propagation does not know  *)
(* (Settled), because every coalescing follows a propagation.  That is     *)
(* what makes deleting the declarations of coalesced values safe; the      *)
(* exception is KeptApart, which the run optimizer_nopt violates.          *)
(*                                                                         *)
(* The last two are about what is left when the passes are done, so their  *)
(* invariants go by how many passes are left: MinimalInv follows the       *)
(* places that hold a value from coalescing on, FoldInv says after each    *)
(* pass which leaves of a bound are numbers and which trees are folded.    *)
(*                                                                         *)
(* Trees, and the walks over them, are recursive functions.  TreeRecursion *)
(* shows once that a walk is a function; each walk of the optimiser is     *)
(* then shown to satisfy its equation (LeavesUnfold, FoldUnfold, ...), and *)
(* what it does by TreeInduction.                                          *)
(***************************************************************************)
EXTENDS Optimizer, FiniteSetTheorems, SequenceTheorems, Induction

-----------------------------------------------------------------------------
(* Trees.                                                                  *)

(* The trees one level higher than the trees below.                        *)
Above(below) == Leaf \cup [tag : {"binary"}, op : Ops, left : below, right : below]

(* The families of trees by height exist, as they are defined level by     *)
(* level.                                                                  *)
LEMMA ExprsUnfold ==
    /\ Exprs[0] = Leaf
    /\ \A h \in 1 .. MaxDepth : Exprs[h] = Above(Exprs[h - 1])
<1> DEFINE Family(f, n) == f = [h \in 0 .. n |-> IF h = 0 THEN Leaf ELSE Above(f[h - 1])]
           T == {n \in 0 .. MaxDepth : \E f : Family(f, n)}
<1>0. MaxDepth \in Nat
  BY DepthAssumption
<1>1. 0 \in T
  <2>1. Family([h \in 0 .. 0 |-> Leaf], 0)
    BY <1>0
  <2> HIDE DEF Family
  <2>. QED
    BY <1>0, <2>1
<1>2. ASSUME NEW n \in 0 .. MaxDepth - 1, n \in T PROVE n + 1 \in T
  <2>1. PICK f : Family(f, n)
    BY <1>2
  <2> DEFINE g == [h \in 0 .. n + 1 |-> IF h = n + 1 THEN Above(f[n]) ELSE f[h]]
  <2>2. ASSUME NEW h \in 0 .. n + 1
        PROVE  g[h] = IF h = 0 THEN Leaf ELSE Above(g[h - 1])
    <3>1. CASE h = n + 1
      <4>1. h # 0 /\ h - 1 = n /\ n \in 0 .. n + 1 /\ n # n + 1
        BY <3>1
      <4>. QED
        BY <3>1, <4>1
    <3>2. CASE h # n + 1
      <4>1. h \in 0 .. n
        BY <3>2
      <4>2. f[h] = IF h = 0 THEN Leaf ELSE Above(f[h - 1])
        BY <2>1, <4>1
      <4>3. h # 0 => h - 1 \in 0 .. n + 1 /\ h - 1 # n + 1
        BY <4>1
      <4>. QED
        BY <3>2, <4>1, <4>2, <4>3
    <3>. QED
      BY <3>1, <3>2
  <2>3. Family(g, n + 1)
    <3>1. g = [h \in 0 .. n + 1 |-> g[h]]
      OBVIOUS
    <3> HIDE DEF g
    <3>. QED
      BY <2>2, <3>1
  <2>. QED
    <3> HIDE DEF g, Family
    <3>. QED
      BY <1>0, <2>3
<1>3. \A n \in 0 .. MaxDepth : n \in T
  <2> HIDE DEF T
  <2>. QED
    BY <1>0, <1>1, <1>2, BoundedInduction
<1>4. PICK f : Family(f, MaxDepth)
  BY <1>0, <1>3
<1>5. Exprs = [h \in 0 .. MaxDepth |-> IF h = 0 THEN Leaf ELSE Above(Exprs[h - 1])]
  BY <1>4 DEF Exprs, Above
<1>. QED
  BY <1>0, <1>5

(* A tree of a height is one of the next, and one of the greatest.         *)
LEMMA ExprsGrow ==
    /\ \A h \in 0 .. MaxDepth - 1 : Exprs[h] \subseteq Exprs[h + 1]
    /\ \A h \in 0 .. MaxDepth : Exprs[h] \subseteq Expr
<1>0. MaxDepth \in Nat
  BY DepthAssumption
<1>1. \A n \in 0 .. MaxDepth - 1 : Exprs[n] \subseteq Exprs[n + 1]
  <2> DEFINE T == {n \in 0 .. MaxDepth : n < MaxDepth => Exprs[n] \subseteq Exprs[n + 1]}
  <2>1. 0 \in T
    <3>1. MaxDepth > 0 => 1 \in 1 .. MaxDepth /\ 1 - 1 = 0
      BY <1>0
    <3>. QED
      BY <1>0, <3>1, ExprsUnfold DEF Above
  <2>2. ASSUME NEW n \in 0 .. MaxDepth - 1, n \in T PROVE n + 1 \in T
    <3> SUFFICES ASSUME n + 1 < MaxDepth PROVE Exprs[n + 1] \subseteq Exprs[(n + 1) + 1]
      BY <1>0
    <3>1. /\ n + 1 \in 1 .. MaxDepth /\ (n + 1) - 1 = n
          /\ (n + 1) + 1 \in 1 .. MaxDepth /\ ((n + 1) + 1) - 1 = n + 1
      BY <1>0
    <3>2. Exprs[n + 1] = Above(Exprs[n]) /\ Exprs[(n + 1) + 1] = Above(Exprs[n + 1])
      BY <3>1, ExprsUnfold
    <3>3. Exprs[n] \subseteq Exprs[n + 1]
      BY <1>0, <2>2
    <3>4. \A S, U : S \subseteq U => Above(S) \subseteq Above(U)
      BY DEF Above
    <3>. QED
      BY <3>2, <3>3, <3>4
  <2>3. \A n \in 0 .. MaxDepth : n \in T
    <3> HIDE DEF T
    <3>. QED
      BY <1>0, <2>1, <2>2, BoundedInduction
  <2>4. \A n \in 0 .. MaxDepth - 1 : n \in 0 .. MaxDepth /\ n < MaxDepth
    BY <1>0
  <2>. QED
    BY <2>3, <2>4
<1> DEFINE U == {n \in 0 .. MaxDepth : Exprs[MaxDepth - n] \subseteq Expr}
<1>2. 0 \in U
  BY <1>0 DEF Expr
<1>3. ASSUME NEW n \in 0 .. MaxDepth - 1, n \in U PROVE n + 1 \in U
  <2>1. /\ MaxDepth - (n + 1) \in 0 .. MaxDepth - 1
        /\ (MaxDepth - (n + 1)) + 1 = MaxDepth - n
    BY <1>0
  <2>2. Exprs[MaxDepth - (n + 1)] \subseteq Exprs[MaxDepth - n]
    BY <1>1, <2>1
  <2>. QED
    BY <1>0, <1>3, <2>2
<1>4. \A n \in 0 .. MaxDepth : n \in U
  <2> HIDE DEF U
  <2>. QED
    BY <1>0, <1>2, <1>3, BoundedInduction
<1>5. ASSUME NEW h \in 0 .. MaxDepth PROVE Exprs[h] \subseteq Expr
  <2>1. MaxDepth - h \in 0 .. MaxDepth /\ MaxDepth - (MaxDepth - h) = h
    BY <1>0
  <2>. QED
    BY <1>4, <2>1
<1>. QED
  BY <1>1, <1>5

(* A node with two operands that are trees of the height below.            *)
Node(e, below) == /\ IsBinary(e)
                  /\ e.op \in Ops
                  /\ e.left \in below /\ e.right \in below
                  /\ e = Binary(e.op, e.left, e.right)

(* A leaf, or an operator over two trees of the height below.              *)
LEMMA ExprCases ==
    /\ \A e \in Leaf : ~IsBinary(e)
    /\ \A e \in Exprs[0] : e \in Leaf
    /\ \A h \in 0 .. MaxDepth - 1 : \A e \in Exprs[h + 1] : e \in Leaf \/ Node(e, Exprs[h])
<1>0. MaxDepth \in Nat
  BY DepthAssumption
<1>1. ASSUME NEW h \in 0 .. MaxDepth - 1, NEW e \in Exprs[h + 1]
      PROVE  e \in Leaf \/ Node(e, Exprs[h])
  <2>1. h + 1 \in 1 .. MaxDepth /\ (h + 1) - 1 = h
    BY <1>0
  <2>2. e \in Above(Exprs[h])
    BY <2>1, ExprsUnfold
  <2>3. \A S, x : x \in [tag : {"binary"}, op : Ops, left : S, right : S] => Node(x, S)
    BY DEF Node, Binary, IsBinary
  <2>. QED
    BY <2>2, <2>3 DEF Above
<1>2. ASSUME NEW e \in Leaf PROVE ~IsBinary(e)
  BY DEF Leaf, IsBinary
<1>. QED
  BY <1>1, <1>2, ExprsUnfold

(* Leaves and operators are trees.                                         *)
LEMMA ExprBuilds ==
    /\ Leaf \subseteq Expr
    /\ \A h \in 0 .. MaxDepth : Leaf \subseteq Exprs[h]
    /\ \A h \in 0 .. MaxDepth - 1, op \in Ops : \A l, r \in Exprs[h] :
          Binary(op, l, r) \in Exprs[h + 1]
<1>0. MaxDepth \in Nat
  BY DepthAssumption
<1>1. ASSUME NEW h \in 0 .. MaxDepth PROVE Leaf \subseteq Exprs[h]
  <2>1. h = 0 \/ h \in 1 .. MaxDepth
    BY <1>0
  <2>. QED
    BY <2>1, ExprsUnfold DEF Above
<1>2. ASSUME NEW h \in 0 .. MaxDepth - 1, NEW op \in Ops, NEW l \in Exprs[h], NEW r \in Exprs[h]
      PROVE  Binary(op, l, r) \in Exprs[h + 1]
  <2>1. h + 1 \in 1 .. MaxDepth /\ (h + 1) - 1 = h
    BY <1>0
  <2>. QED
    BY <2>1, ExprsUnfold DEF Above, Binary
<1>. QED
  BY <1>0, <1>1, <1>2 DEF Expr

(* What holds of the leaves, and of an operator when it holds of both its  *)
(* operands, holds of every tree.                                          *)
LEMMA TreeInduction ==
    ASSUME NEW T, Leaf \subseteq T,
           \A e \in Expr : Node(e, Expr) /\ e.left \in T /\ e.right \in T => e \in T
    PROVE  Expr \subseteq T
<1>0. MaxDepth \in Nat
  BY DepthAssumption
<1> DEFINE U == {h \in 0 .. MaxDepth : Exprs[h] \subseteq T}
<1>1. 0 \in U
  BY <1>0, ExprsUnfold
<1>2. ASSUME NEW n \in 0 .. MaxDepth - 1, n \in U PROVE n + 1 \in U
  <2>1. n + 1 \in 0 .. MaxDepth /\ n \in 0 .. MaxDepth
    BY <1>0
  <2>2. ASSUME NEW e \in Exprs[n + 1], Node(e, Exprs[n]) PROVE e \in T
    <3>1. Exprs[n] \subseteq Expr /\ Exprs[n + 1] \subseteq Expr
      BY <2>1, ExprsGrow
    <3>2. Node(e, Expr)
      BY <2>2, <3>1 DEF Node
    <3>. QED
      BY <1>2, <2>2, <3>1, <3>2 DEF Node
  <2>. QED
    BY <2>1, <2>2, ExprCases
<1>3. \A h \in 0 .. MaxDepth : h \in U
  <2> HIDE DEF U
  <2>. QED
    BY <1>0, <1>1, <1>2, BoundedInduction
<1>. QED
  BY <1>0, <1>3 DEF Expr

(* One level of a walk over a tree: a value for each leaf, and a function  *)
(* of an operator's node and the values of both operands.                  *)
Over(a, b, f, e) == IF IsBinary(e) THEN b[<<e, f[e.left], f[e.right]>>] ELSE a[e]

Walk(a, b, f) == f = [e \in Expr |-> Over(a, b, f, e)]

(* A walk is a function: the values are determined by those of the leaves. *)
LEMMA TreeRecursion ==
    ASSUME NEW a, NEW b
    PROVE  \E f : Walk(a, b, f)
<1>0. MaxDepth \in Nat
  BY DepthAssumption
<1> DEFINE Walks(f, h) == f = [e \in Exprs[h] |-> Over(a, b, f, e)]
           T == {h \in 0 .. MaxDepth : \E f : Walks(f, h)}
<1>1. 0 \in T
  <2>1. Walks([e \in Exprs[0] |-> a[e]], 0)
    BY ExprCases DEF Over
  <2> HIDE DEF Walks
  <2>. QED
    BY <1>0, <2>1
<1>2. ASSUME NEW n \in 0 .. MaxDepth - 1, n \in T PROVE n + 1 \in T
  <2>0. n + 1 \in 0 .. MaxDepth /\ Exprs[n] \subseteq Exprs[n + 1]
    BY <1>0, ExprsGrow
  <2>1. PICK f : Walks(f, n)
    BY <1>2
  <2> DEFINE g == [e \in Exprs[n + 1] |-> Over(a, b, f, e)]
  <2>2. \A e \in Exprs[n] : g[e] = f[e]
    BY <2>0, <2>1
  <2>3. ASSUME NEW e \in Exprs[n + 1]
        PROVE  Over(a, b, f, e) = Over(a, b, g, e)
    <3>1. CASE ~IsBinary(e)
      BY <3>1 DEF Over
    <3>2. CASE Node(e, Exprs[n])
      <4>1. g[e.left] = f[e.left] /\ g[e.right] = f[e.right]
        BY <2>2, <3>2 DEF Node
      <4> HIDE DEF g
      <4>. QED
        BY <4>1 DEF Over
    <3>. QED
      BY <3>1, <3>2, ExprCases
  <2>4. Walks(g, n + 1)
    <3>1. g = [e \in Exprs[n + 1] |-> Over(a, b, f, e)]
      OBVIOUS
    <3> HIDE DEF g
    <3>. QED
      BY <2>3, <3>1
  <2> HIDE DEF Walks, g
  <2>. QED
    BY <2>0, <2>4
<1>3. \A h \in 0 .. MaxDepth : h \in T
  <2> HIDE DEF T
  <2>. QED
    BY <1>0, <1>1, <1>2, BoundedInduction
<1>. QED
  BY <1>0, <1>3 DEF Walk, Expr

(* Its values are of the type of the leaves' values.                       *)
LEMMA WalkType ==
    ASSUME NEW S, NEW a, NEW b, NEW f, Walk(a, b, f),
           \A l \in Leaf : a[l] \in S,
           \A e \in Expr, x, y \in S : Node(e, Expr) => b[<<e, x, y>>] \in S
    PROVE  /\ f = [e \in Expr |-> Over(a, b, f, e)]
           /\ f \in [Expr -> S]
<1> DEFINE T == {e \in Expr : f[e] \in S}
<1>1. \A e \in Expr : f[e] = Over(a, b, f, e)
  BY DEF Walk
<1>2. Leaf \subseteq T
  BY <1>1, ExprBuilds, ExprCases DEF Over
<1>3. \A e \in Expr : Node(e, Expr) /\ e.left \in T /\ e.right \in T => e \in T
  BY <1>1 DEF Over, Node
<1>4. Expr \subseteq T
  <2> HIDE DEF T
  <2>. QED
    BY <1>2, <1>3, TreeInduction
<1>. QED
  BY <1>4 DEF Walk
(* The same for the trees of all heights.                                  *)
LEMMA TreeCases ==
    \A e \in Expr : (e \in Leaf /\ ~IsBinary(e)) \/ Node(e, Expr)
<1>0. MaxDepth \in Nat
  BY DepthAssumption
<1> SUFFICES ASSUME NEW e \in Expr PROVE e \in Leaf \/ Node(e, Expr)
  BY ExprCases
<1>1. CASE MaxDepth = 0
  BY <1>1, ExprCases DEF Expr
<1>2. CASE MaxDepth # 0
  <2>1. MaxDepth - 1 \in 0 .. MaxDepth - 1 /\ (MaxDepth - 1) + 1 = MaxDepth
        /\ MaxDepth - 1 \in 0 .. MaxDepth
    BY <1>0, <1>2
  <2>2. e \in Exprs[(MaxDepth - 1) + 1]
    BY <2>1 DEF Expr
  <2>3. Exprs[MaxDepth - 1] \subseteq Expr
    BY <2>1, ExprsGrow
  <2>4. e \in Leaf \/ Node(e, Exprs[MaxDepth - 1])
    BY <2>1, <2>2, ExprCases
  <2>. QED
    BY <2>3, <2>4 DEF Node
<1>. QED
  BY <1>1, <1>2

-----------------------------------------------------------------------------
(* Leaves.                                                                 *)

LeavesOver(f, e) == IF IsBinary(e) THEN f[e.left] \o f[e.right] ELSE <<e>>

(* LeavesOf is what it is defined to be.                                   *)
LEMMA LeavesUnfold ==
    \A e \in Expr : LeavesOf[e] = LeavesOver(LeavesOf, e)
<1> DEFINE S == Seq(Leaf)
           a == [l \in Leaf |-> <<l>>]
           b == [x \in Expr \X S \X S |-> x[2] \o x[3]]
<1>1. \A l \in Leaf : a[l] = <<l>> /\ a[l] \in S
  OBVIOUS
<1>2. ASSUME NEW e \in Expr, NEW x \in S, NEW y \in S
      PROVE  b[<<e, x, y>>] = x \o y /\ b[<<e, x, y>>] \in S
  <2>1. b[<<e, x, y>>] = x \o y
    OBVIOUS
  <2>2. x \o y \in S
    BY ConcatProperties
  <2>. QED
    BY <2>1, <2>2
<1> HIDE DEF a, b, S
<1>3. PICK f : Walk(a, b, f)
  BY TreeRecursion
<1>4. f = [e \in Expr |-> Over(a, b, f, e)] /\ f \in [Expr -> S]
  BY <1>1, <1>2, <1>3, WalkType
<1>5. ASSUME NEW e \in Expr PROVE Over(a, b, f, e) = LeavesOver(f, e)
  <2>1. CASE e \in Leaf /\ ~IsBinary(e)
    BY <1>1, <2>1 DEF Over, LeavesOver
  <2>2. CASE Node(e, Expr)
    <3>1. IsBinary(e) /\ e.op \in Ops /\ f[e.left] \in S /\ f[e.right] \in S
      BY <1>4, <2>2 DEF Node
    <3>2. b[<<e, f[e.left], f[e.right]>>] = f[e.left] \o f[e.right]
      BY <1>2, <3>1
    <3>. QED
      BY <3>1, <3>2 DEF Over, LeavesOver
  <2>. QED
    BY <2>1, <2>2, TreeCases
<1>6. f = [e \in Expr |-> LeavesOver(f, e)]
  BY <1>4, <1>5
<1>7. LeavesOf = [e \in Expr |-> LeavesOver(LeavesOf, e)]
  BY <1>6 DEF LeavesOf, LeavesOver
<1>. QED
  BY <1>7

(* A leaf of a tree.                                                       *)
LeafSet(e) == Range(LeavesOf[e])

(* The leaves of an operator are those of its operands.                    *)
LEMMA LeavesFacts ==
    ASSUME NEW e \in Expr
    PROVE  /\ LeavesOf[e] \in Seq(Leaf)
           /\ LeafSet(e) \subseteq Leaf
           /\ e \in Leaf => LeafSet(e) = {e}
           /\ Node(e, Expr) => LeafSet(e) = LeafSet(e.left) \cup LeafSet(e.right)
<1> DEFINE T == {x \in Expr : LeavesOf[x] \in Seq(Leaf)}
<1>1. Leaf \subseteq T
  <2> SUFFICES ASSUME NEW x \in Leaf PROVE x \in Expr /\ LeavesOf[x] \in Seq(Leaf)
    OBVIOUS
  <2>1. x \in Expr /\ ~IsBinary(x)
    BY ExprBuilds, ExprCases
  <2>2. LeavesOf[x] = <<x>>
    BY <2>1, LeavesUnfold DEF LeavesOver
  <2>. QED
    BY <2>1, <2>2
<1>2. ASSUME NEW x \in Expr, Node(x, Expr), x.left \in T, x.right \in T PROVE x \in T
  <2>1. LeavesOf[x] = LeavesOf[x.left] \o LeavesOf[x.right]
    BY <1>2, LeavesUnfold DEF LeavesOver, Node
  <2>. QED
    BY <1>2, <2>1, ConcatProperties
<1>3. Expr \subseteq T
  <2> HIDE DEF T
  <2>. QED
    BY <1>1, <1>2, TreeInduction
<1>4. \A x \in Expr : LeavesOf[x] \in Seq(Leaf)
  BY <1>3
<1>5. LeafSet(e) \subseteq Leaf
  BY <1>4, RangeOfSeq DEF LeafSet
<1>6. ASSUME e \in Leaf PROVE LeafSet(e) = {e}
  <2>1. LeavesOf[e] = <<e>>
    BY <1>6, ExprCases, LeavesUnfold DEF LeavesOver
  <2>. QED
    BY <2>1 DEF LeafSet, Range
<1>7. ASSUME Node(e, Expr) PROVE LeafSet(e) = LeafSet(e.left) \cup LeafSet(e.right)
  <2>1. LeavesOf[e] = LeavesOf[e.left] \o LeavesOf[e.right]
    BY <1>7, LeavesUnfold DEF LeavesOver, Node
  <2>2. LeavesOf[e.left] \in Seq(Leaf) /\ LeavesOf[e.right] \in Seq(Leaf)
    BY <1>4, <1>7 DEF Node
  <2>. QED
    BY <2>1, <2>2, RangeConcatenation DEF LeafSet
<1>. QED
  BY <1>4, <1>5, <1>6, <1>7
(* A function on trees that keeps leaves leaves, and operators over trees  *)
(* of a height trees of the next, keeps the height of every tree.          *)
LEMMA KeepsHeights ==
    ASSUME NEW f,
           \A e \in Leaf : f[e] \in Leaf,
           \A h \in 0 .. MaxDepth - 1 : \A e \in Exprs[h + 1] :
              Node(e, Exprs[h]) /\ f[e.left] \in Exprs[h] /\ f[e.right] \in Exprs[h]
                 => f[e] \in Exprs[h + 1]
    PROVE  /\ \A h \in 0 .. MaxDepth : \A e \in Exprs[h] : f[e] \in Exprs[h]
           /\ \A e \in Expr : f[e] \in Expr
<1>0. MaxDepth \in Nat
  BY DepthAssumption
<1> DEFINE T == {h \in 0 .. MaxDepth : \A e \in Exprs[h] : f[e] \in Exprs[h]}
<1>1. 0 \in T
  BY <1>0, ExprCases, ExprsUnfold
<1>2. ASSUME NEW n \in 0 .. MaxDepth - 1, n \in T PROVE n + 1 \in T
  <2>1. n + 1 \in 0 .. MaxDepth
    BY <1>0
  <2>2. ASSUME NEW e \in Exprs[n + 1] PROVE f[e] \in Exprs[n + 1]
    <3>1. CASE e \in Leaf
      BY <2>1, <3>1, ExprBuilds
    <3>2. CASE Node(e, Exprs[n])
      BY <1>2, <3>2 DEF Node
    <3>. QED
      BY <3>1, <3>2, ExprCases
  <2>. QED
    BY <2>1, <2>2
<1>3. \A h \in 0 .. MaxDepth : h \in T
  <2> HIDE DEF T
  <2>. QED
    BY <1>0, <1>1, <1>2, BoundedInduction
<1>. QED
  BY <1>0, <1>3 DEF Expr

-----------------------------------------------------------------------------
(* Folding.                                                                *)

(* Remainders are values of int.                                           *)
LEMMA WordsFacts ==
    /\ Word \in Nat /\ Word >= 4
    /\ \A x \in Int : x % Word \in Words
    /\ NotFound \in Words
<1>1. Word \in Nat /\ Word >= 4
  BY WordAssumption
<1>2. ASSUME NEW x \in Int PROVE x % Word \in Words
  BY <1>1 DEF Words
<1>. QED
  BY <1>1, <1>2 DEF Words, NotFound

(* An operation on words is folded to its value, which is a word.          *)
LEMMA CalculatedFacts ==
    ASSUME NEW op \in Ops, NEW a \in Words, NEW b \in Words
    PROVE  /\ Calculated(op, a, b) \in Words
           /\ FoldValue(op, a, b) = Calculated(op, a, b)
<1>0. a \in Nat /\ b \in Nat
  BY WordsFacts DEF Words
<1>1. CASE op = "+"
  <2>1. a + b \in Int
    BY <1>0
  <2>. QED
    BY <1>1, <2>1, WordsFacts DEF Calculated, FoldValue
<1>2. CASE op = "-"
  <2>1. a - b \in Int
    BY <1>0
  <2>. QED
    BY <1>2, <2>1, WordsFacts DEF Calculated, FoldValue
<1>3. CASE op = "*"
  <2>1. a * b \in Int
    BY <1>0, TimesNat
  <2> DEFINE ab == a * b
  <2>2. ab \in Int /\ FoldValue(op, a, b) = ab % Word /\ Calculated(op, a, b) = ab % Word
    BY <1>3, <2>1 DEF Calculated, FoldValue
  <2> HIDE DEF ab
  <2>. QED
    BY <2>2, WordsFacts
<1>. QED
  BY <1>1, <1>2, <1>3 DEF Ops

(* Literals are leaves that hold a word.                                   *)
LEMMA IntLeaves ==
    /\ \A e \in Expr : IsInt(e) => e \in Leaf /\ e.val \in Words
    /\ \A v \in Words : IntLit(v) \in Leaf /\ IsInt(IntLit(v)) /\ IntLit(v).val = v
<1>1. ASSUME NEW e \in Expr, IsInt(e) PROVE e \in Leaf /\ e.val \in Words
  <2>1. ~IsBinary(e)
    BY <1>1 DEF IsInt, IsBinary
  <2>2. e \in Leaf
    BY <2>1, TreeCases DEF Node
  <2>. QED
    BY <1>1, <2>2 DEF Leaf, IsInt
<1>2. ASSUME NEW v \in Words
      PROVE IntLit(v) \in Leaf /\ IsInt(IntLit(v)) /\ IntLit(v).val = v
  BY DEF Leaf, IntLit, IsInt
<1>. QED
  BY <1>1, <1>2

(* The fold of an operator with folded operands.                           *)
Folded(op, l, r) ==
    IF IsInt(l) /\ IsInt(r) THEN IntLit(FoldValue(op, l.val, r.val)) ELSE Binary(op, l, r)

FoldOver(f, e) == IF ~IsBinary(e) THEN e ELSE Folded(e.op, f[e.left], f[e.right])

(* The fold of two trees of a height is one of the next.                   *)
LEMMA FoldedType ==
    ASSUME NEW h \in 0 .. MaxDepth - 1, NEW op \in Ops, NEW l \in Exprs[h], NEW r \in Exprs[h]
    PROVE  Folded(op, l, r) \in Exprs[h + 1]
<1>0. h \in 0 .. MaxDepth /\ h + 1 \in 0 .. MaxDepth
  BY DepthAssumption
<1>1. CASE IsInt(l) /\ IsInt(r)
  <2>1. l.val \in Words /\ r.val \in Words
    BY <1>0, <1>1, ExprsGrow, IntLeaves
  <2>2. FoldValue(op, l.val, r.val) \in Words
    BY <2>1, CalculatedFacts
  <2>3. IntLit(FoldValue(op, l.val, r.val)) \in Exprs[h + 1]
    BY <1>0, <2>2, IntLeaves, ExprBuilds
  <2>. QED
    BY <1>1, <2>3 DEF Folded
<1>2. CASE ~(IsInt(l) /\ IsInt(r))
  BY <1>2, ExprBuilds DEF Folded
<1>. QED
  BY <1>1, <1>2

(* ConstFold is what it is defined to be.                                  *)
LEMMA FoldUnfold ==
    \A e \in Expr : ConstFold[e] = FoldOver(ConstFold, e)
<1> DEFINE a == [l \in Leaf |-> l]
           b == [x \in Expr \X Expr \X Expr |-> Folded(x[1].op, x[2], x[3])]
<1>1. \A l \in Leaf : a[l] = l
  OBVIOUS
<1>2. \A e, x, y \in Expr : b[<<e, x, y>>] = Folded(e.op, x, y)
  OBVIOUS
<1> HIDE DEF a, b
<1>3. PICK f : Walk(a, b, f)
  BY TreeRecursion
<1>4. f = [e \in Expr |-> Over(a, b, f, e)]
  BY <1>3 DEF Walk
<1>5. \A e \in Expr : f[e] \in Expr
  <2>0. \A h \in 0 .. MaxDepth - 1 : h \in 0 .. MaxDepth /\ h + 1 \in 0 .. MaxDepth
    BY DepthAssumption
  <2>1. ASSUME NEW e \in Leaf PROVE f[e] \in Leaf
    BY <1>1, <1>4, ExprBuilds, ExprCases DEF Over
  <2>2. ASSUME NEW h \in 0 .. MaxDepth - 1, NEW e \in Exprs[h + 1],
               Node(e, Exprs[h]), f[e.left] \in Exprs[h], f[e.right] \in Exprs[h]
        PROVE  f[e] \in Exprs[h + 1]
    <3>1. Exprs[h] \subseteq Expr /\ e \in Expr
      BY <2>0, ExprsGrow
    <3>2. f[e] = b[<<e, f[e.left], f[e.right]>>]
      BY <1>4, <2>2, <3>1 DEF Over, Node
    <3>3. b[<<e, f[e.left], f[e.right]>>] = Folded(e.op, f[e.left], f[e.right])
      BY <1>2, <2>2, <3>1 DEF Node
    <3>. QED
      BY <2>2, <3>2, <3>3, FoldedType DEF Node
  <2>. QED
    BY <2>1, <2>2, KeepsHeights
<1>6. ASSUME NEW e \in Expr PROVE Over(a, b, f, e) = FoldOver(f, e)
  <2>1. CASE e \in Leaf /\ ~IsBinary(e)
    BY <1>1, <2>1 DEF Over, FoldOver
  <2>2. CASE Node(e, Expr)
    <3>1. IsBinary(e) /\ e.op \in Ops /\ f[e.left] \in Expr /\ f[e.right] \in Expr
      BY <1>5, <2>2 DEF Node
    <3>2. b[<<e, f[e.left], f[e.right]>>] = Folded(e.op, f[e.left], f[e.right])
      BY <1>2, <3>1
    <3>. QED
      BY <3>1, <3>2 DEF Over, FoldOver
  <2>. QED
    BY <2>1, <2>2, TreeCases
<1>7. f = [e \in Expr |-> FoldOver(f, e)]
  BY <1>4, <1>6
<1>8. ConstFold = [e \in Expr |-> FoldOver(ConstFold, e)]
  BY <1>7 DEF ConstFold, FoldOver, Folded
<1>. QED
  BY <1>8

(* A leaf is not folded, an operator is folded after its operands, and a   *)
(* folded tree is a tree.                                                  *)
LEMMA FoldFacts ==
    /\ \A e \in Leaf : ConstFold[e] = e
    /\ \A e \in Expr : Node(e, Expr) =>
          ConstFold[e] = Folded(e.op, ConstFold[e.left], ConstFold[e.right])
    /\ \A e \in Expr : ConstFold[e] \in Expr
<1>1. \A e \in Leaf : ConstFold[e] = e
  BY FoldUnfold, ExprBuilds, ExprCases DEF FoldOver
<1>2. \A e \in Expr : Node(e, Expr) =>
          ConstFold[e] = Folded(e.op, ConstFold[e.left], ConstFold[e.right])
  BY FoldUnfold DEF FoldOver, Node
<1>3. ASSUME NEW h \in 0 .. MaxDepth - 1, NEW e \in Exprs[h + 1], Node(e, Exprs[h]),
             ConstFold[e.left] \in Exprs[h], ConstFold[e.right] \in Exprs[h]
      PROVE  ConstFold[e] \in Exprs[h + 1]
  <2>0. h \in 0 .. MaxDepth /\ h + 1 \in 0 .. MaxDepth
    BY DepthAssumption
  <2>1. e \in Expr /\ Node(e, Expr)
    BY <1>3, <2>0, ExprsGrow DEF Node
  <2>. QED
    BY <1>2, <1>3, <2>1, FoldedType DEF Node
<1>. QED
  BY <1>1, <1>2, <1>3, KeepsHeights

(* Folding brings no name into a tree.                                     *)
LEMMA FoldLeaves ==
    \A e \in Expr : \A l \in LeafSet(ConstFold[e]) : IsInt(l) \/ l \in LeafSet(e)
<1> DEFINE T == {e \in Expr : \A l \in LeafSet(ConstFold[e]) : IsInt(l) \/ l \in LeafSet(e)}
<1>1. Leaf \subseteq T
  BY FoldFacts, ExprBuilds
<1>2. ASSUME NEW e \in Expr, Node(e, Expr), e.left \in T, e.right \in T PROVE e \in T
  <2>0. e.left \in Expr /\ e.right \in Expr /\ e.op \in Ops
    BY <1>2 DEF Node
  <2> DEFINE l == ConstFold[e.left]
             r == ConstFold[e.right]
  <2>1. l \in Expr /\ r \in Expr /\ ConstFold[e] = Folded(e.op, l, r) /\ ConstFold[e] \in Expr
    BY <1>2, <2>0, FoldFacts
  <2>2. LeafSet(e) = LeafSet(e.left) \cup LeafSet(e.right)
    BY <1>2, LeavesFacts
  <2>3. /\ \A x \in LeafSet(l) : IsInt(x) \/ x \in LeafSet(e)
        /\ \A x \in LeafSet(r) : IsInt(x) \/ x \in LeafSet(e)
    BY <1>2, <2>2
  <2> HIDE DEF l, r
  <2>4. CASE IsInt(l) /\ IsInt(r)
    <3>1. l.val \in Words /\ r.val \in Words
      BY <2>1, <2>4, IntLeaves
    <3>2. FoldValue(e.op, l.val, r.val) \in Words
      BY <2>0, <3>1, CalculatedFacts
    <3>3. ConstFold[e] \in Leaf /\ IsInt(ConstFold[e])
      BY <2>1, <2>4, <3>2, IntLeaves DEF Folded
    <3>4. LeafSet(ConstFold[e]) = {ConstFold[e]}
      BY <2>1, <3>3, LeavesFacts
    <3>. QED
      BY <3>3, <3>4
  <2>5. CASE ~(IsInt(l) /\ IsInt(r))
    <3>1. ConstFold[e] = Binary(e.op, l, r)
      BY <2>1, <2>5 DEF Folded
    <3>2. /\ Node(ConstFold[e], Expr)
          /\ ConstFold[e].left = l /\ ConstFold[e].right = r
      BY <2>0, <2>1, <3>1 DEF Node, Binary, IsBinary
    <3>3. LeafSet(ConstFold[e]) = LeafSet(l) \cup LeafSet(r)
      BY <2>1, <3>2, LeavesFacts
    <3>. QED
      BY <2>3, <3>3
  <2>. QED
    BY <2>4, <2>5
<1>3. Expr \subseteq T
  <2> HIDE DEF T
  <2>. QED
    BY <1>1, <1>2, TreeInduction
<1>. QED
  BY <1>3

-----------------------------------------------------------------------------
(* Rewriting leaves.                                                       *)

RewriteOver(f, r, e) == IF IsBinary(e) THEN Binary(e.op, r[e.left], r[e.right]) ELSE f[e]

(* Rewritten is what it is defined to be: there is a function with its     *)
(* equation.                                                               *)
LEMMA RewriteUnfold ==
    ASSUME NEW f, \A l \in Leaf : f[l] \in Leaf
    PROVE  \E r : /\ r = [x \in Expr |-> RewriteOver(f, r, x)]
                  /\ \A e : Rewritten(f, e) = r[e]
<1> DEFINE b == [x \in Expr \X Expr \X Expr |-> Binary(x[1].op, x[2], x[3])]
<1>1. \A e, x, y \in Expr : b[<<e, x, y>>] = Binary(e.op, x, y)
  OBVIOUS
<1> HIDE DEF b
<1>2. PICK g : Walk(f, b, g)
  BY TreeRecursion
<1>3. g = [e \in Expr |-> Over(f, b, g, e)]
  BY <1>2 DEF Walk
<1>4. \A e \in Expr : g[e] \in Expr
  <2>0. \A h \in 0 .. MaxDepth - 1 : h \in 0 .. MaxDepth /\ h + 1 \in 0 .. MaxDepth
    BY DepthAssumption
  <2>1. ASSUME NEW e \in Leaf PROVE g[e] \in Leaf
    BY <1>3, ExprBuilds, ExprCases DEF Over
  <2>2. ASSUME NEW h \in 0 .. MaxDepth - 1, NEW e \in Exprs[h + 1],
               Node(e, Exprs[h]), g[e.left] \in Exprs[h], g[e.right] \in Exprs[h]
        PROVE  g[e] \in Exprs[h + 1]
    <3>1. Exprs[h] \subseteq Expr /\ e \in Expr
      BY <2>0, ExprsGrow
    <3>2. g[e] = b[<<e, g[e.left], g[e.right]>>]
      BY <1>3, <2>2, <3>1 DEF Over, Node
    <3>3. b[<<e, g[e.left], g[e.right]>>] = Binary(e.op, g[e.left], g[e.right])
      BY <1>1, <2>2, <3>1 DEF Node
    <3>. QED
      BY <2>2, <3>2, <3>3, ExprBuilds DEF Node
  <2>. QED
    BY <2>1, <2>2, KeepsHeights
<1>5. ASSUME NEW e \in Expr PROVE Over(f, b, g, e) = RewriteOver(f, g, e)
  <2>1. CASE ~IsBinary(e)
    BY <2>1 DEF Over, RewriteOver
  <2>2. CASE Node(e, Expr)
    <3>1. IsBinary(e) /\ e.op \in Ops /\ g[e.left] \in Expr /\ g[e.right] \in Expr
      BY <1>4, <2>2 DEF Node
    <3>2. b[<<e, g[e.left], g[e.right]>>] = Binary(e.op, g[e.left], g[e.right])
      BY <1>1, <3>1
    <3>. QED
      BY <3>1, <3>2 DEF Over, RewriteOver
  <2>. QED
    BY <2>1, <2>2, TreeCases
<1> DEFINE Total(r) == r = [x \in Expr |-> RewriteOver(f, r, x)]
           rewritten == CHOOSE r : Total(r)
<1>6. Total(g)
  BY <1>3, <1>5
<1>7. Total(rewritten)
  <2> HIDE DEF Total
  <2>. QED
    BY <1>6
<1>8. \A e : Rewritten(f, e) = rewritten[e]
  BY DEF Rewritten, RewriteOver
<1> HIDE DEF rewritten
<1>. QED
  BY <1>7, <1>8

(* A leaf becomes its replacement, an operator keeps its operator, and the *)
(* result is a tree.                                                       *)
LEMMA RewriteFacts ==
    ASSUME NEW f, \A l \in Leaf : f[l] \in Leaf
    PROVE  /\ \A e \in Leaf : Rewritten(f, e) = f[e]
           /\ \A e \in Expr : Node(e, Expr) =>
                 Rewritten(f, e) = Binary(e.op, Rewritten(f, e.left), Rewritten(f, e.right))
           /\ \A e \in Expr : Rewritten(f, e) \in Expr
<1>1. PICK r : /\ r = [x \in Expr |-> RewriteOver(f, r, x)]
               /\ \A e : Rewritten(f, e) = r[e]
  BY RewriteUnfold
<1>2. \A e \in Expr : r[e] = RewriteOver(f, r, e)
  BY <1>1
<1>3. \A e \in Leaf : r[e] = f[e]
  BY <1>2, ExprBuilds, ExprCases DEF RewriteOver
<1>4. \A e \in Expr : Node(e, Expr) => r[e] = Binary(e.op, r[e.left], r[e.right])
  BY <1>2 DEF RewriteOver, Node
<1>5. ASSUME NEW h \in 0 .. MaxDepth - 1, NEW e \in Exprs[h + 1], Node(e, Exprs[h]),
             r[e.left] \in Exprs[h], r[e.right] \in Exprs[h]
      PROVE  r[e] \in Exprs[h + 1]
  <2>0. h \in 0 .. MaxDepth /\ h + 1 \in 0 .. MaxDepth
    BY DepthAssumption
  <2>1. e \in Expr /\ Node(e, Expr)
    BY <1>5, <2>0, ExprsGrow DEF Node
  <2>. QED
    BY <1>4, <1>5, <2>1, ExprBuilds DEF Node
<1>6. \A e \in Expr : r[e] \in Expr
  BY <1>3, <1>5, KeepsHeights
<1>7. \A e \in Leaf : Rewritten(f, e) = f[e]
  BY <1>1, <1>3
<1>8. \A e \in Expr : Rewritten(f, e) \in Expr
  BY <1>1, <1>6
<1>9. \A e \in Expr : Node(e, Expr) =>
         Rewritten(f, e) = Binary(e.op, Rewritten(f, e.left), Rewritten(f, e.right))
  BY <1>1, <1>4
<1>. QED
  BY <1>7, <1>8, <1>9

(* The leaves of the result are the replacements of the leaves.            *)
LEMMA RewriteLeaves ==
    ASSUME NEW f, \A l \in Leaf : f[l] \in Leaf
    PROVE  \A e \in Expr : \A m \in LeafSet(Rewritten(f, e)) : \E l \in LeafSet(e) : m = f[l]
<1> DEFINE T == {e \in Expr : \A m \in LeafSet(Rewritten(f, e)) : \E l \in LeafSet(e) : m = f[l]}
<1>1. ASSUME NEW e \in Leaf PROVE e \in T
  <2>1. e \in Expr /\ f[e] \in Expr /\ f[e] \in Leaf /\ Rewritten(f, e) = f[e]
    BY RewriteFacts, ExprBuilds
  <2>2. LeafSet(e) = {e} /\ LeafSet(f[e]) = {f[e]}
    BY <2>1, LeavesFacts
  <2>. QED
    BY <2>1, <2>2
<1>2. ASSUME NEW e \in Expr, Node(e, Expr), e.left \in T, e.right \in T PROVE e \in T
  <2>0. e.left \in Expr /\ e.right \in Expr /\ e.op \in Ops
    BY <1>2 DEF Node
  <2> DEFINE l == Rewritten(f, e.left)
             r == Rewritten(f, e.right)
             new == Rewritten(f, e)
  <2>1. l \in Expr /\ r \in Expr /\ new = Binary(e.op, l, r) /\ new \in Expr
    BY <1>2, <2>0, RewriteFacts
  <2>2. LeafSet(e) = LeafSet(e.left) \cup LeafSet(e.right)
    BY <1>2, LeavesFacts
  <2>3. /\ \A m \in LeafSet(l) : \E x \in LeafSet(e) : m = f[x]
        /\ \A m \in LeafSet(r) : \E x \in LeafSet(e) : m = f[x]
    BY <1>2, <2>2
  <2> HIDE DEF l, r, new
  <2>4. Node(new, Expr) /\ new.left = l /\ new.right = r
    BY <2>0, <2>1 DEF Node, Binary, IsBinary
  <2>5. LeafSet(new) = LeafSet(l) \cup LeafSet(r)
    BY <2>1, <2>4, LeavesFacts
  <2>. QED
    BY <2>3, <2>5 DEF new
<1>3. Expr \subseteq T
  <2>1. Leaf \subseteq T
    BY <1>1
  <2> HIDE DEF T
  <2>. QED
    BY <1>2, <2>1, TreeInduction
<1>. QED
  BY <1>3

-----------------------------------------------------------------------------
(* Values.                                                                 *)

ValueOver(ds, env, f, e) ==
    IF IsBinary(e) THEN Calculated(e.op, f[e.left], f[e.right]) ELSE LeafValue(ds, env, e)

(* Leaves have words for values, with these declarations and counters.     *)
Valued(ds, env) == \A l \in Leaf : LeafValue(ds, env, l) \in Words

(* Value is what it is defined to be: there is a function with its         *)
(* equation.                                                               *)
LEMMA ValueUnfold ==
    ASSUME NEW ds, NEW env, Valued(ds, env)
    PROVE  \E f : /\ f = [x \in Expr |-> ValueOver(ds, env, f, x)]
                  /\ \A e : Value(ds, env, e) = f[e]
<1> DEFINE a == [l \in Leaf |-> LeafValue(ds, env, l)]
           b == [x \in Expr \X Words \X Words |-> Calculated(x[1].op, x[2], x[3])]
<1>1. \A l \in Leaf : a[l] = LeafValue(ds, env, l) /\ a[l] \in Words
  BY DEF Valued
<1>2. ASSUME NEW e \in Expr, Node(e, Expr), NEW x \in Words, NEW y \in Words
      PROVE  b[<<e, x, y>>] = Calculated(e.op, x, y) /\ b[<<e, x, y>>] \in Words
  <2>1. b[<<e, x, y>>] = Calculated(e.op, x, y)
    OBVIOUS
  <2>. QED
    BY <1>2, <2>1, CalculatedFacts DEF Node
<1> HIDE DEF a, b
<1>3. PICK f : Walk(a, b, f)
  BY TreeRecursion
<1>4. f = [e \in Expr |-> Over(a, b, f, e)] /\ f \in [Expr -> Words]
  BY <1>1, <1>2, <1>3, WalkType
<1>5. ASSUME NEW e \in Expr PROVE Over(a, b, f, e) = ValueOver(ds, env, f, e)
  <2>1. CASE e \in Leaf /\ ~IsBinary(e)
    BY <1>1, <2>1 DEF Over, ValueOver
  <2>2. CASE Node(e, Expr)
    <3>1. IsBinary(e) /\ e.op \in Ops /\ f[e.left] \in Words /\ f[e.right] \in Words
      BY <1>4, <2>2 DEF Node, IsBinary
    <3>2. b[<<e, f[e.left], f[e.right]>>] = Calculated(e.op, f[e.left], f[e.right])
      BY <1>2, <2>2, <3>1
    <3>. QED
      BY <3>1, <3>2 DEF Over, ValueOver
  <2>. QED
    BY <2>1, <2>2, TreeCases
<1> DEFINE Total(g) == g = [x \in Expr |-> ValueOver(ds, env, g, x)]
           value == CHOOSE g : Total(g)
<1>6. Total(f)
  BY <1>4, <1>5
<1>7. Total(value)
  <2> HIDE DEF Total
  <2>. QED
    BY <1>6
<1>8. \A e : Value(ds, env, e) = value[e]
  BY DEF Value, ValueOver
<1> HIDE DEF value
<1>. QED
  BY <1>7, <1>8

(* The value of a leaf, and of an operator over the values of its          *)
(* operands; all are words.                                                *)
LEMMA ValueFacts ==
    ASSUME NEW ds, NEW env, Valued(ds, env)
    PROVE  /\ \A e \in Leaf : Value(ds, env, e) = LeafValue(ds, env, e)
           /\ \A e \in Expr : Node(e, Expr) =>
                 Value(ds, env, e) =
                    Calculated(e.op, Value(ds, env, e.left), Value(ds, env, e.right))
           /\ \A e \in Expr : Value(ds, env, e) \in Words
<1>1. PICK f : /\ f = [x \in Expr |-> ValueOver(ds, env, f, x)]
               /\ \A e : Value(ds, env, e) = f[e]
  BY ValueUnfold
<1>2. \A e \in Expr : f[e] = ValueOver(ds, env, f, e)
  BY <1>1
<1>3. \A e \in Leaf : f[e] = LeafValue(ds, env, e)
  BY <1>2, ExprBuilds, ExprCases DEF ValueOver
<1>4. ASSUME NEW e \in Expr, Node(e, Expr) PROVE f[e] = Calculated(e.op, f[e.left], f[e.right])
  BY <1>2, <1>4 DEF ValueOver, Node
<1> DEFINE T == {e \in Expr : f[e] \in Words}
<1>5. Leaf \subseteq T
  BY <1>3, ExprBuilds DEF Valued
<1>6. ASSUME NEW e \in Expr, Node(e, Expr), e.left \in T, e.right \in T PROVE e \in T
  BY <1>4, <1>6, CalculatedFacts DEF Node
<1>7. Expr \subseteq T
  <2> HIDE DEF T
  <2>. QED
    BY <1>5, <1>6, TreeInduction
<1>. QED
  BY <1>1, <1>3, <1>4, <1>7

(* Folding keeps the value of a tree.                                      *)
LEMMA FoldKeepsValue ==
    ASSUME NEW ds, NEW env, Valued(ds, env)
    PROVE  \A e \in Expr : Value(ds, env, ConstFold[e]) = Value(ds, env, e)
<1> DEFINE V(e) == Value(ds, env, e)
           T == {e \in Expr : V(ConstFold[e]) = V(e)}
<1>0. \A e \in Expr : V(e) \in Words
  BY ValueFacts
<1>1. Leaf \subseteq T
  BY FoldFacts, ExprBuilds
<1>2. ASSUME NEW e \in Expr, Node(e, Expr), e.left \in T, e.right \in T PROVE e \in T
  <2>0. e.left \in Expr /\ e.right \in Expr /\ e.op \in Ops
    BY <1>2 DEF Node
  <2> DEFINE l == ConstFold[e.left]
             r == ConstFold[e.right]
             new == ConstFold[e]
  <2>1. l \in Expr /\ r \in Expr /\ new = Folded(e.op, l, r) /\ new \in Expr
    BY <1>2, <2>0, FoldFacts
  <2>2. V(e) = Calculated(e.op, V(l), V(r))
    BY <1>2, ValueFacts
  <2>3. new \in Leaf => V(new) = LeafValue(ds, env, new)
    BY ValueFacts
  <2>4. Node(new, Expr) => V(new) = Calculated(new.op, V(new.left), V(new.right))
    BY <2>1, ValueFacts
  <2>5. /\ l \in Leaf => V(l) = LeafValue(ds, env, l)
        /\ r \in Leaf => V(r) = LeafValue(ds, env, r)
    BY ValueFacts
  <2> HIDE DEF l, r, new, V
  <2>6. CASE IsInt(l) /\ IsInt(r)
    <3>1. l.val \in Words /\ r.val \in Words /\ l \in Leaf /\ r \in Leaf
      BY <2>1, <2>6, IntLeaves
    <3>2. V(l) = l.val /\ V(r) = r.val
      BY <2>5, <2>6, <3>1 DEF LeafValue, IsInt
    <3>3. /\ FoldValue(e.op, l.val, r.val) \in Words
          /\ FoldValue(e.op, l.val, r.val) = Calculated(e.op, l.val, r.val)
      BY <2>0, <3>1, CalculatedFacts
    <3>4. new \in Leaf /\ IsInt(new) /\ new.val = Calculated(e.op, l.val, r.val)
      BY <2>1, <2>6, <3>3, IntLeaves DEF Folded
    <3>5. V(new) = new.val
      BY <2>3, <3>4 DEF LeafValue, IsInt
    <3>6. V(new) = V(e)
      BY <2>2, <3>2, <3>4, <3>5
    <3>. QED
      BY <3>6 DEF V, new
  <2>7. CASE ~(IsInt(l) /\ IsInt(r))
    <3>1. Node(new, Expr) /\ new.op = e.op /\ new.left = l /\ new.right = r
      BY <2>0, <2>1, <2>7 DEF Folded, Node, Binary, IsBinary
    <3>2. V(new) = V(e)
      BY <2>2, <2>4, <3>1
    <3>. QED
      BY <3>2 DEF V, new
  <2>. QED
    BY <2>6, <2>7
<1>3. Expr \subseteq T
  <2> HIDE DEF T
  <2>. QED
    BY <1>1, <1>2, TreeInduction
<1>. QED
  BY <1>3

(* Rewriting keeps the value of a tree when it keeps that of its leaves,   *)
(* with other declarations.                                                *)
LEMMA RewriteKeepsValue ==
    ASSUME NEW ds, NEW es, NEW env, Valued(ds, env), Valued(es, env),
           NEW f, \A l \in Leaf : f[l] \in Leaf,
           NEW e \in Expr,
           \A l \in LeafSet(e) : LeafValue(es, env, f[l]) = LeafValue(ds, env, l)
    PROVE  Value(es, env, Rewritten(f, e)) = Value(ds, env, e)
<1> DEFINE V(x) == Value(ds, env, x)
           W(x) == Value(es, env, x)
           Kind(x) == \A l \in LeafSet(x) : LeafValue(es, env, f[l]) = LeafValue(ds, env, l)
           T == {x \in Expr : Kind(x) => W(Rewritten(f, x)) = V(x)}
<1>1. ASSUME NEW x \in Leaf PROVE x \in T
  <2>1. x \in Expr /\ f[x] \in Leaf /\ Rewritten(f, x) = f[x]
    BY RewriteFacts, ExprBuilds
  <2>2. LeafSet(x) = {x}
    BY <2>1, LeavesFacts
  <2>3. V(x) = LeafValue(ds, env, x) /\ W(f[x]) = LeafValue(es, env, f[x])
    BY <2>1, ValueFacts
  <2>. QED
    BY <2>1, <2>2, <2>3
<1>2. ASSUME NEW x \in Expr, Node(x, Expr), x.left \in T, x.right \in T PROVE x \in T
  <2>0. x.left \in Expr /\ x.right \in Expr /\ x.op \in Ops
    BY <1>2 DEF Node
  <2> DEFINE l == Rewritten(f, x.left)
             r == Rewritten(f, x.right)
             new == Rewritten(f, x)
  <2>1. l \in Expr /\ r \in Expr /\ new = Binary(x.op, l, r) /\ new \in Expr
    BY <1>2, <2>0, RewriteFacts
  <2>2. LeafSet(x) = LeafSet(x.left) \cup LeafSet(x.right)
    BY <1>2, LeavesFacts
  <2>3. Kind(x) => W(l) = V(x.left) /\ W(r) = V(x.right)
    BY <1>2, <2>2
  <2>4. V(x) = Calculated(x.op, V(x.left), V(x.right))
    BY <1>2, ValueFacts
  <2>5. Node(new, Expr) => W(new) = Calculated(new.op, W(new.left), W(new.right))
    BY <2>1, ValueFacts
  <2> HIDE DEF l, r, new, V, W, Kind
  <2>6. Node(new, Expr) /\ new.op = x.op /\ new.left = l /\ new.right = r
    BY <2>0, <2>1 DEF Node, Binary, IsBinary
  <2>7. Kind(x) => W(new) = V(x)
    BY <2>3, <2>4, <2>5, <2>6
  <2>. QED
    BY <2>7 DEF new
<1>3. Expr \subseteq T
  <2>1. Leaf \subseteq T
    BY <1>1
  <2> HIDE DEF T
  <2>. QED
    BY <1>2, <2>1, TreeInduction
<1>4. Kind(e)
  OBVIOUS
<1>. QED
  BY <1>3, <1>4

(* A tree keeps its value when its leaves do, with other declarations.     *)
LEMMA SameLeavesSameValue ==
    ASSUME NEW ds, NEW es, NEW env, Valued(ds, env), Valued(es, env), NEW e \in Expr,
           \A l \in LeafSet(e) : LeafValue(es, env, l) = LeafValue(ds, env, l)
    PROVE  Value(es, env, e) = Value(ds, env, e)
<1> DEFINE V(x) == Value(ds, env, x)
           W(x) == Value(es, env, x)
           Kind(x) == \A l \in LeafSet(x) : LeafValue(es, env, l) = LeafValue(ds, env, l)
           T == {x \in Expr : Kind(x) => W(x) = V(x)}
<1>1. ASSUME NEW x \in Leaf PROVE x \in T
  <2>1. x \in Expr /\ LeafSet(x) = {x}
    BY LeavesFacts, ExprBuilds
  <2>2. V(x) = LeafValue(ds, env, x) /\ W(x) = LeafValue(es, env, x)
    BY ValueFacts
  <2>. QED
    BY <2>1, <2>2
<1>2. ASSUME NEW x \in Expr, Node(x, Expr), x.left \in T, x.right \in T PROVE x \in T
  <2>1. LeafSet(x) = LeafSet(x.left) \cup LeafSet(x.right)
    BY <1>2, LeavesFacts
  <2>2. Kind(x) => W(x.left) = V(x.left) /\ W(x.right) = V(x.right)
    BY <1>2, <2>1
  <2>3. /\ V(x) = Calculated(x.op, V(x.left), V(x.right))
        /\ W(x) = Calculated(x.op, W(x.left), W(x.right))
    BY <1>2, ValueFacts
  <2> HIDE DEF V, W, Kind
  <2>. QED
    BY <2>2, <2>3
<1>3. Expr \subseteq T
  <2>1. Leaf \subseteq T
    BY <1>1
  <2> HIDE DEF T
  <2>. QED
    BY <1>2, <2>1, TreeInduction
<1>4. Kind(e)
  OBVIOUS
<1>. QED
  BY <1>3, <1>4

-----------------------------------------------------------------------------
(* Declarations.                                                           *)

(* Names are declared once.                                                *)
Unique(ds) == \A c, d \in Range(ds) : c.name = d.name => c = d

(* The constant a name stands for.                                         *)
ConstantOf(ds, n) == {d \in Range(ds) : IsConst(d) /\ d.name = n}

(* The first of a set of places is one of them.                            *)
LEMMA FirstPlace ==
    ASSUME NEW T, T \subseteq Nat, T # {}
    PROVE  (CHOOSE k \in T : \A j \in T : k <= j) \in T
BY NatMinimum

(* The register of a constant holds its value; other names are counters.   *)
LEMMA RegisterFacts ==
    ASSUME NEW S, NEW ds \in Seq(S), Unique(ds), NEW env, NEW n
    PROVE  /\ \A d \in ConstantOf(ds, n) : Register(ds, env, n) = d.val
           /\ ConstantOf(ds, n) = {} =>
                 Register(ds, env, n) = IF n \in DOMAIN env THEN env[n] ELSE 0
<1> DEFINE declared == {k \in DOMAIN ds : IsConst(ds[k]) /\ ds[k].name = n}
           k1 == CHOOSE k \in declared : \A j \in declared : k <= j
<1>1. declared \subseteq Nat
  OBVIOUS
<1>2. Register(ds, env, n) = IF declared # {} THEN ds[k1].val
                             ELSE IF n \in DOMAIN env THEN env[n] ELSE 0
  BY DEF Register
<1>3. \A d \in ConstantOf(ds, n) : declared # {}
  BY DEF ConstantOf, Range
<1>4. declared # {} => k1 \in declared
  <2> HIDE DEF declared
  <2>. QED
    BY <1>1, FirstPlace
<1>5. declared # {} => ds[k1] \in ConstantOf(ds, n)
  <2> HIDE DEF k1
  <2>. QED
    BY <1>4 DEF ConstantOf, Range
<1>6. \A c, d \in ConstantOf(ds, n) : c = d
  BY DEF Unique, ConstantOf
<1> HIDE DEF declared, k1
<1>. QED
  BY <1>2, <1>3, <1>5, <1>6

(* FindConstant knows the constants that are not marked nopt.              *)
LEMMA FindConstantFacts ==
    ASSUME NEW S, NEW ds \in Seq(S), Unique(ds), NEW n
    PROVE  /\ \A d \in ConstantOf(ds, n) : FindConstant(ds, n) = IF d.opt THEN d.val ELSE NotFound
           /\ ConstantOf(ds, n) = {} => FindConstant(ds, n) = NotFound
<1> DEFINE known == {k \in DOMAIN ds : IsConst(ds[k]) /\ ds[k].name = n /\ ds[k].opt}
           k1 == CHOOSE k \in known : \A j \in known : k <= j
<1>1. known \subseteq Nat
  OBVIOUS
<1>2. FindConstant(ds, n) = IF known = {} THEN NotFound ELSE ds[k1].val
  BY DEF FindConstant
<1>3. \A d \in ConstantOf(ds, n) : d.opt => known # {}
  BY DEF ConstantOf, Range
<1>4. known # {} => k1 \in known
  <2> HIDE DEF known
  <2>. QED
    BY <1>1, FirstPlace
<1>5. known # {} => ds[k1] \in ConstantOf(ds, n) /\ ds[k1].opt
  <2> HIDE DEF k1
  <2>. QED
    BY <1>4 DEF ConstantOf, Range
<1>6. \A c, d \in ConstantOf(ds, n) : c = d
  BY DEF Unique, ConstantOf
<1> HIDE DEF known, k1
<1>. QED
  BY <1>2, <1>3, <1>5, <1>6

(* Declarations and counters give every leaf a word.                       *)
LEMMA ValuedFacts ==
    ASSUME NEW ds \in Seq(Decl(AllNames)), Unique(ds), NEW X, NEW env \in [X -> Words]
    PROVE  Valued(ds, env)
<1>0. 0 \in Words
  BY WordsFacts DEF Words
<1>1. ASSUME NEW n PROVE Register(ds, env, n) \in Words
  <2>1. \A d \in ConstantOf(ds, n) : d.val \in Words
    <3>1. Range(ds) \subseteq Decl(AllNames)
      BY RangeOfSeq
    <3>. QED
      BY <3>1 DEF ConstantOf, Decl, IsConst
  <2>2. CASE ConstantOf(ds, n) = {}
    BY <1>0, <2>2, RegisterFacts
  <2>3. CASE ConstantOf(ds, n) # {}
    BY <2>1, <2>3, RegisterFacts
  <2>. QED
    BY <2>2, <2>3
<1>2. ASSUME NEW l \in Leaf PROVE LeafValue(ds, env, l) \in Words
  <2>1. CASE l \in [tag : {"int"}, val : Words]
    BY <2>1 DEF LeafValue
  <2>2. CASE l \in [tag : {"id"}, name : AllNames]
    BY <1>1, <2>2 DEF LeafValue
  <2>3. CASE l \in [tag : {"index"}, name : Names, var : Names]
    <3>1. l.name \in Names /\ Register(ds, env, l.var) \in Words
      BY <1>1, <2>3
    <3>2. Element(l.name, Register(ds, env, l.var)) \in Words
      BY <3>1, NumbersAssumption DEF Words
    <3>. QED
      BY <2>3, <3>2 DEF LeafValue
  <2>. QED
    BY <2>1, <2>2, <2>3 DEF Leaf
<1>. QED
  BY <1>2 DEF Valued

(* What is kept of the first elements of a sequence, by their number.      *)
KeptSoFar(S, s, T, kept) ==
    /\ kept \in [0 .. Len(s) -> Seq(S)]
    /\ kept[0] = <<>>
    /\ \A n \in 0 .. Len(s) - 1 :
          kept[n + 1] = IF s[n + 1] \in T THEN Append(kept[n], s[n + 1]) ELSE kept[n]
    /\ Kept(s, T) = kept[Len(s)]

(* The walk over the declarations is a function of their number.           *)
LEMMA KeptUnfold ==
    ASSUME NEW S, NEW s \in Seq(S), NEW T
    PROVE  \E kept : KeptSoFar(S, s, T, kept)
<1> DEFINE N == Len(s)
           One(n, q) == IF s[n] \in T THEN Append(q, s[n]) ELSE q
           g == [x \in (1 .. N) \X Seq(S) |-> One(x[1], x[2])]
           Total(k) == k = [n \in 0 .. N |-> IF n = 0 THEN <<>> ELSE One(n, k[n - 1])]
           kept == CHOOSE k : Total(k)
<1>0. N \in Nat /\ \A n \in 1 .. N : s[n] \in S
  OBVIOUS
<1>1. \A n \in 1 .. N, q \in Seq(S) : One(n, q) \in Seq(S) /\ g[<<n, q>>] = One(n, q)
  BY <1>0
<1>2. g \in [(1 .. N) \X Seq(S) -> Seq(S)] /\ <<>> \in Seq(S)
  BY <1>0
<1>3. Kept(s, T) = kept[N]
  BY DEF Kept
<1> HIDE DEF g, N, One, kept
<1>4. PICK f : Unfolds(Seq(S), <<>>, g, N, f)
  BY <1>0, <1>2, BoundedRecursion
<1>5. Total(f)
  <2>1. f = [n \in 0 .. N |-> IF n = 0 THEN <<>> ELSE g[<<n, f[n - 1]>>]]
        /\ f \in [0 .. N -> Seq(S)]
    BY <1>4 DEF Unfolds
  <2>2. ASSUME NEW n \in 0 .. N, n # 0 PROVE g[<<n, f[n - 1]>>] = One(n, f[n - 1])
    <3>1. n \in 1 .. N /\ n - 1 \in 0 .. N
      BY <1>0, <2>2
    <3>. QED
      BY <1>1, <2>1, <3>1
  <2>. QED
    BY <2>1, <2>2
<1>6. Total(kept)
  <2> HIDE DEF Total
  <2>. QED
    BY <1>5 DEF kept
<1>7. kept[0] = <<>> /\ \A n \in 0 .. N - 1 : kept[n + 1] = One(n + 1, kept[n])
  <2>1. \A n \in 0 .. N - 1 : n + 1 \in 0 .. N /\ n + 1 # 0 /\ (n + 1) - 1 = n
    BY <1>0
  <2>. QED
    BY <1>0, <1>6, <2>1
<1>8. kept \in [0 .. N -> Seq(S)]
  <2> DEFINE U == {n \in 0 .. N : kept[n] \in Seq(S)}
  <2>1. 0 \in U
    <3>1. 0 \in 0 .. N /\ kept[0] = <<>>
      BY <1>0, <1>7
    <3>. QED
      BY <1>2, <3>1
  <2>2. ASSUME NEW n \in 0 .. N - 1, n \in U PROVE n + 1 \in U
    <3>1. n + 1 \in 1 .. N /\ n + 1 \in 0 .. N
      BY <1>0
    <3>. QED
      BY <1>1, <1>7, <2>2, <3>1
  <2>3. \A n \in 0 .. N : n \in U
    <3> HIDE DEF U
    <3>. QED
      BY <1>0, <2>1, <2>2, BoundedInduction
  <2>4. kept = [n \in 0 .. N |-> kept[n]]
    BY <1>6
  <2>. QED
    BY <2>3, <2>4
<1>. QED
  BY <1>3, <1>7, <1>8 DEF N, One, KeptSoFar

(* The elements of a sequence that are kept are those of the set.          *)
LEMMA KeptFacts ==
    ASSUME NEW S, NEW s \in Seq(S), NEW T
    PROVE  /\ Kept(s, T) \in Seq(S)
           /\ Range(Kept(s, T)) = Range(s) \cap T
<1> DEFINE N == Len(s)
           One(n, q) == IF s[n] \in T THEN Append(q, s[n]) ELSE q
<1>0. N \in Nat /\ \A n \in 1 .. N : s[n] \in S
  OBVIOUS
<1>1. PICK kept : KeptSoFar(S, s, T, kept)
  BY KeptUnfold
<1>2. /\ kept \in [0 .. N -> Seq(S)]
      /\ kept[0] = <<>>
      /\ \A n \in 0 .. N - 1 : kept[n + 1] = One(n + 1, kept[n])
      /\ Kept(s, T) = kept[N]
  BY <1>1 DEF KeptSoFar
<1> HIDE DEF N, One
<1> DEFINE Upto(n) == {s[i] : i \in 1 .. n} \cap T
           U == {n \in 0 .. N : kept[n] \in Seq(S) /\ Range(kept[n]) = Upto(n)}
<1>8. 0 \in U
  <2>1. Range(<<>>) = {}
    BY DEF Range
  <2>2. Upto(0) = {}
    OBVIOUS
  <2>3. 0 \in 0 .. N /\ kept[0] \in Seq(S) /\ kept[0] = <<>>
    BY <1>0, <1>2
  <2> HIDE DEF Upto
  <2>. QED
    BY <2>1, <2>2, <2>3
<1>9. ASSUME NEW n \in 0 .. N - 1, n \in U PROVE n + 1 \in U
  <2>1. n + 1 \in 1 .. N /\ n + 1 \in 0 .. N
    BY <1>0
  <2>2. kept[n + 1] = One(n + 1, kept[n]) /\ kept[n] \in Seq(S) /\ Range(kept[n]) = Upto(n)
    BY <1>0, <1>2, <1>9
  <2>3. s[n + 1] \in S
    BY <1>0, <2>1
  <2>4. {s[i] : i \in 1 .. n + 1} = {s[i] : i \in 1 .. n} \cup {s[n + 1]}
    <3>1. 1 .. n + 1 = (1 .. n) \cup {n + 1}
      BY <1>0
    <3>. QED
      BY <3>1
  <2>5. CASE s[n + 1] \in T
    <3>1. kept[n + 1] = kept[n] \o <<s[n + 1]>> /\ kept[n + 1] \in Seq(S)
      BY <2>2, <2>3, <2>5, AppendIsConcat, AppendProperties DEF One
    <3>2. Range(<<s[n + 1]>>) = {s[n + 1]} /\ <<s[n + 1]>> \in Seq(S)
      BY <2>3 DEF Range
    <3>3. Range(kept[n + 1]) = Upto(n) \cup {s[n + 1]}
      <4> DEFINE q == kept[n]
                 t == <<s[n + 1]>>
      <4>1. q \in Seq(S) /\ t \in Seq(S) /\ kept[n + 1] = q \o t /\ Range(t) = {s[n + 1]}
        BY <2>2, <3>1, <3>2
      <4>2. Range(q) = Upto(n)
        BY <2>2
      <4> HIDE DEF Upto, q, t
      <4>3. Range(q \o t) = Range(q) \cup Range(t)
        BY <4>1, RangeConcatenation
      <4>. QED
        BY <4>1, <4>2, <4>3
    <3>4. Upto(n + 1) = Upto(n) \cup {s[n + 1]}
      BY <2>4, <2>5
    <3>. QED
      BY <2>1, <3>1, <3>3, <3>4
  <2>6. CASE s[n + 1] \notin T
    <3>1. kept[n + 1] = kept[n]
      BY <2>2, <2>6 DEF One
    <3>2. Upto(n + 1) = Upto(n)
      BY <2>4, <2>6
    <3>. QED
      BY <2>1, <2>2, <3>1, <3>2
  <2>. QED
    BY <2>5, <2>6
<1>10. \A n \in 0 .. N : n \in U
  <2> HIDE DEF U
  <2>. QED
    BY <1>0, <1>8, <1>9, BoundedInduction
<1>11. kept[N] \in Seq(S) /\ Range(kept[N]) = Upto(N)
  <2>1. N \in 0 .. N
    BY <1>0
  <2> HIDE DEF Upto
  <2>. QED
    BY <1>10, <2>1
<1>12. {s[i] : i \in 1 .. N} = Range(s)
  BY RangeEquality DEF N
<1>. QED
  BY <1>2, <1>11, <1>12

(* The values coalesced, numbered: each has a number, within the names.    *)
LEMMA SharedFacts ==
    ASSUME NEW shared, shared \subseteq Words, NEW values \in SetToSeqs(shared)
    PROVE  /\ DOMAIN values \subseteq 1 .. Word
           /\ DOMAIN values = 1 .. Cardinality(shared) /\ Cardinality(shared) \in Nat
           /\ \A k \in DOMAIN values : values[k] \in shared
           /\ \A v \in shared : \E k \in DOMAIN values : values[k] = v
<1> DEFINE n == Cardinality(shared)
<1>1. IsFiniteSet(Words) /\ Cardinality(Words) = Word
  BY WordsFacts, FS_Interval DEF Words
<1>2. IsFiniteSet(shared) /\ n \in Nat /\ n <= Word
  BY <1>1, FS_Subset, FS_CardinalityType
<1> HIDE DEF n
<1>3. /\ values \in [1 .. n -> shared]
      /\ \A i, j \in 1 .. n : i # j => values[i] # values[j]
  BY DEF SetToSeqs, n
<1>4. values \in Injection(1 .. n, shared)
  BY <1>3 DEF Injection, IsInjective
<1>5. Cardinality(1 .. n) = n
  BY <1>2, FS_Interval
<1>6. values \in Surjection(1 .. n, shared)
  BY <1>2, <1>4, <1>5, FS_Injection DEF n
<1>7. \A v \in shared : \E k \in 1 .. n : values[k] = v
  BY <1>6 DEF Surjection
<1>8. DOMAIN values = 1 .. n /\ \A k \in DOMAIN values : values[k] \in shared
  BY <1>3
<1>9. 1 .. n \subseteq 1 .. Word
  BY <1>2, WordsFacts
<1>. QED
  BY <1>2, <1>7, <1>8, <1>9 DEF n

(* The declarations coalescing puts first.                                 *)
Shared(values) == [k \in DOMAIN values |-> ConstDecl(GenIDString(k), values[k], TRUE)]

(* They are declarations of new names, one for each value.                 *)
LEMMA SharedDecls ==
    ASSUME NEW shared, shared \subseteq Words, NEW values \in SetToSeqs(shared)
    PROVE  /\ Shared(values) \in Seq(Decl(GeneratedNames))
           /\ \A d \in Range(Shared(values)) : \E k \in DOMAIN values :
                 d = ConstDecl(GenIDString(k), values[k], TRUE)
           /\ \A k \in DOMAIN values :
                 ConstDecl(GenIDString(k), values[k], TRUE) \in Range(Shared(values))
<1>1. ASSUME NEW k \in DOMAIN values
      PROVE  ConstDecl(GenIDString(k), values[k], TRUE) \in Decl(GeneratedNames)
  <2>1. k \in 1 .. Word /\ values[k] \in Words
    BY SharedFacts
  <2>2. GenIDString(k) \in GeneratedNames
    BY <2>1 DEF GeneratedNames
  <2>. QED
    BY <2>1, <2>2 DEF ConstDecl, Decl
<1>2. PICK n \in Nat : DOMAIN values = 1 .. n
  BY SharedFacts
<1>3. Shared(values) \in [1 .. n -> Decl(GeneratedNames)]
  BY <1>1, <1>2 DEF Shared
<1>4. Shared(values) \in Seq(Decl(GeneratedNames))
  BY <1>3
<1>. QED
  BY <1>4 DEF Shared, Range

-----------------------------------------------------------------------------
(* The passes.                                                             *)

PassNames == {"fold", "propagate", "coalesce", "eliminate"}

(* What is left of a schedule.                                             *)
Early == {<<"propagate", "coalesce">>, <<"fold", "propagate", "coalesce">>,
          <<"propagate", "coalesce", "eliminate">>,
          <<"fold", "propagate", "coalesce", "eliminate">>,
          <<"propagate", "fold", "propagate", "coalesce", "eliminate">>,
          <<"fold", "propagate", "fold", "propagate", "coalesce", "eliminate">>}
AtCoalesce == {<<"coalesce">>, <<"coalesce", "eliminate">>}
Late == {<<>>, <<"eliminate">>}

(* Every coalescing follows a propagation, only elimination follows it.    *)
LEMMA StagesFacts ==
    /\ \A l : Schedule(l) \in Early \cup {<<>>} /\ Schedule(l) \in Seq(PassNames)
    /\ \A p \in Early : Head(p) \in {"fold", "propagate"}
    /\ \A p \in Early : Head(p) = "fold" => Tail(p) \in Early
    /\ \A p \in Early : Head(p) = "propagate" => Tail(p) \in Early \cup AtCoalesce
    /\ \A p \in AtCoalesce : Head(p) = "coalesce" /\ Tail(p) \in Late
    /\ \A p \in Late : p # <<>> => Head(p) = "eliminate" /\ Tail(p) \in Late
    /\ Early \cap AtCoalesce = {} /\ Late \cap (Early \cup AtCoalesce) = {}
<1>1. \A l : Schedule(l) \in {<<>>, <<"fold", "propagate", "coalesce">>,
                <<"fold", "propagate", "fold", "propagate", "coalesce", "eliminate">>}
  BY DEF Schedule
<1>2. /\ <<>> \in Seq(PassNames) /\ <<"fold", "propagate", "coalesce">> \in Seq(PassNames)
      /\ <<"fold", "propagate", "fold", "propagate", "coalesce", "eliminate">> \in Seq(PassNames)
  BY DEF PassNames
<1>3. \A l : Schedule(l) \in Early \cup {<<>>} /\ Schedule(l) \in Seq(PassNames)
  BY <1>1, <1>2 DEF Early
<1>4. \A p \in Early : Head(p) \in {"fold", "propagate"}
  BY DEF Early
<1> DEFINE end == <<"coalesce", "eliminate">>
           middle == <<"propagate", "coalesce", "eliminate">>
           round == <<"fold", "propagate", "coalesce", "eliminate">>
           late == <<"propagate", "fold", "propagate", "coalesce", "eliminate">>
           all == <<"fold", "propagate", "fold", "propagate", "coalesce", "eliminate">>
<1>5. /\ Tail(all) = late /\ Tail(late) = round /\ Tail(round) = middle /\ Tail(middle) = end
      /\ Tail(end) = <<"eliminate">> /\ Tail(<<"eliminate">>) = <<>>
  OBVIOUS
<1>6. /\ Tail(<<"fold", "propagate", "coalesce">>) = <<"propagate", "coalesce">>
      /\ Tail(<<"propagate", "coalesce">>) = <<"coalesce">> /\ Tail(<<"coalesce">>) = <<>>
  OBVIOUS
<1>7. /\ Head(all) = "fold" /\ Head(round) = "fold"
      /\ Head(<<"fold", "propagate", "coalesce">>) = "fold"
      /\ Head(late) = "propagate" /\ Head(middle) = "propagate"
      /\ Head(<<"propagate", "coalesce">>) = "propagate"
      /\ Head(end) = "coalesce" /\ Head(<<"coalesce">>) = "coalesce"
      /\ Head(<<"eliminate">>) = "eliminate"
  OBVIOUS
<1>8. /\ Early = {<<"propagate", "coalesce">>, <<"fold", "propagate", "coalesce">>,
                  middle, round, late, all}
      /\ AtCoalesce = {<<"coalesce">>, end} /\ Late = {<<>>, <<"eliminate">>}
  BY DEF Early, AtCoalesce, Late
<1> HIDE DEF end, middle, round, late, all
<1>9. \A p \in Early : Head(p) = "fold" => Tail(p) \in Early
  BY <1>5, <1>6, <1>7, <1>8
<1>10. \A p \in Early : Head(p) = "propagate" => Tail(p) \in Early \cup AtCoalesce
  BY <1>5, <1>6, <1>7, <1>8
<1>11. \A p \in AtCoalesce : Head(p) = "coalesce" /\ Tail(p) \in Late
  BY <1>5, <1>6, <1>7, <1>8
<1>12. \A p \in Late : p # <<>> => Head(p) = "eliminate" /\ Tail(p) \in Late
  BY <1>5, <1>7, <1>8
<1>13. Early \cap AtCoalesce = {} /\ Late \cap (Early \cup AtCoalesce) = {}
  BY DEF Early, AtCoalesce, Late
<1>. QED
  BY <1>3, <1>4, <1>9, <1>10, <1>11, <1>12, <1>13

(* The passes still to run are an end of the schedule.                     *)
Remaining(l, p) == \E k \in 0 .. Len(Schedule(l)) :
                      p = SubSeq(Schedule(l), k + 1, Len(Schedule(l)))

(* A pass takes one from what remains.                                     *)
LEMMA RemainingFacts ==
    /\ \A l : Remaining(l, Schedule(l))
    /\ \A l, p : Remaining(l, p) /\ p # <<>> => Remaining(l, Tail(p))
<1>1. ASSUME NEW l PROVE Remaining(l, Schedule(l))
  <2> DEFINE s == Schedule(l)
  <2>1. s \in Seq(PassNames)
    BY StagesFacts
  <2> HIDE DEF s
  <2>2. s = SubSeq(s, 0 + 1, Len(s)) /\ 0 \in 0 .. Len(s)
    BY <2>1
  <2>. QED
    BY <2>2 DEF Remaining, s
<1>2. ASSUME NEW l, NEW p, Remaining(l, p), p # <<>> PROVE Remaining(l, Tail(p))
  <2> DEFINE s == Schedule(l)
             n == Len(s)
  <2>1. s \in Seq(PassNames) /\ n \in Nat
    BY StagesFacts
  <2>2. PICK k \in 0 .. n : p = SubSeq(s, k + 1, n)
    BY <1>2 DEF Remaining
  <2> HIDE DEF s
  <2>3. k # n
    <3>1. SubSeq(s, n + 1, n) = <<>>
      BY <2>1
    <3>. QED
      BY <1>2, <2>2, <3>1
  <2>4. k + 1 \in 1 .. n /\ n \in k + 1 .. n /\ k + 1 \in 0 .. n
    BY <2>1, <2>2, <2>3
  <2>5. Tail(p) = SubSeq(s, (k + 1) + 1, n)
    BY <2>1, <2>2, <2>4, HeadTailOfSubSeq
  <2>. QED
    BY <2>4, <2>5 DEF Remaining, s
<1>. QED
  BY <1>1, <1>2

(* The elements of a sequence are of its type.                             *)
LEMMA SeqElements ==
    ASSUME NEW S, NEW s \in Seq(S)
    PROVE  \A k \in DOMAIN s : s[k] \in S
OBVIOUS

(* A sequence is given by an element of the set for each place of another. *)
LEMMA SeqOver ==
    ASSUME NEW X, NEW s \in Seq(X), NEW S, NEW g,
           g = [k \in DOMAIN s |-> g[k]], \A k \in DOMAIN s : g[k] \in S
    PROVE  g \in Seq(S) /\ DOMAIN g = DOMAIN s
<1>1. DOMAIN s = 1 .. Len(s) /\ Len(s) \in Nat
  OBVIOUS
<1>2. g \in [1 .. Len(s) -> S]
  BY <1>1
<1>. QED
  BY <1>1, <1>2

(* What propagation and coalescing put in the place of a leaf.             *)
Propagated(ds) == [l \in Leaf |->
    IF l.tag = "id" /\ FindConstant(ds, l.name) # NotFound
    THEN IntLit(FindConstant(ds, l.name)) ELSE l]

Coalesced(values) == [l \in Leaf |->
    IF IsInt(l) /\ ToCoalesce(l.val)
    THEN ID(GenIDString(CHOOSE k \in DOMAIN values : values[k] = l.val)) ELSE l]

(* A constant found is a word.                                             *)
LEMMA PropagatedType ==
    ASSUME NEW ds \in Seq(Decl(AllNames))
    PROVE  \A l \in Leaf : Propagated(ds)[l] \in Leaf
<1>1. ASSUME NEW n PROVE FindConstant(ds, n) \in Words
  <2> DEFINE known == {k \in DOMAIN ds : IsConst(ds[k]) /\ ds[k].name = n /\ ds[k].opt}
             k1 == CHOOSE k \in known : \A j \in known : k <= j
  <2>1. known \subseteq Nat
    OBVIOUS
  <2>2. FindConstant(ds, n) = IF known = {} THEN NotFound ELSE ds[k1].val
    BY DEF FindConstant
  <2>3. known # {} => k1 \in known
    <3> HIDE DEF known
    <3>. QED
      BY <2>1, FirstPlace
  <2>4. known # {} => ds[k1].val \in Words
    <3>1. \A k \in DOMAIN ds : ds[k] \in Decl(AllNames)
      OBVIOUS
    <3> HIDE DEF k1
    <3>. QED
      BY <2>3, <3>1 DEF Decl, IsConst
  <2> HIDE DEF known, k1
  <2>. QED
    BY <2>2, <2>4, WordsFacts
<1>2. ASSUME NEW l \in Leaf PROVE Propagated(ds)[l] \in Leaf
  <2>1. FindConstant(ds, l.name) \in Words
    BY <1>1
  <2>2. IntLit(FindConstant(ds, l.name)) \in Leaf
    BY <2>1, IntLeaves
  <2>. QED
    BY <2>2 DEF Propagated
<1>. QED
  BY <1>2

(* A literal coalesced becomes the name of its value.                      *)
LEMMA CoalescedFacts ==
    ASSUME NEW shared, shared = {v \in Words : ToCoalesce(v)}, NEW values \in SetToSeqs(shared)
    PROVE  /\ \A l \in Leaf : Coalesced(values)[l] \in Leaf
           /\ \A l \in Leaf : \/ Coalesced(values)[l] = l /\ (IsInt(l) => ~ToCoalesce(l.val))
                              \/ /\ IsInt(l) /\ ToCoalesce(l.val)
                                 /\ \E k \in DOMAIN values :
                                       /\ values[k] = l.val
                                       /\ Coalesced(values)[l] = ID(GenIDString(k))
<1>0. shared \subseteq Words
  OBVIOUS
<1>1. ASSUME NEW l \in Leaf, IsInt(l), ToCoalesce(l.val)
      PROVE  /\ Coalesced(values)[l] \in Leaf
             /\ \E k \in DOMAIN values : /\ values[k] = l.val
                                         /\ Coalesced(values)[l] = ID(GenIDString(k))
  <2>1. l.val \in shared
    BY <1>1, IntLeaves, ExprBuilds
  <2> DEFINE k1 == CHOOSE k \in DOMAIN values : values[k] = l.val
  <2>2. k1 \in DOMAIN values /\ values[k1] = l.val
    <3>1. \A v \in shared : \E k \in DOMAIN values : values[k] = v
      BY <1>0, SharedFacts
    <3>2. \E k \in DOMAIN values : values[k] = l.val
      BY <2>1, <3>1
    <3>. QED
      BY <3>2
  <2>3. Coalesced(values)[l] = ID(GenIDString(k1))
    <3>1. l \in Leaf /\ IsInt(l) /\ ToCoalesce(l.val)
      BY <1>1
    <3>. QED
      BY <3>1, Zenon DEF Coalesced
  <2> HIDE DEF k1
  <2>4. k1 \in 1 .. Word
    BY <1>0, <2>2, SharedFacts
  <2>5. GenIDString(k1) \in AllNames
    BY <2>4 DEF GeneratedNames, AllNames
  <2>6. ID(GenIDString(k1)) \in Leaf
    BY <2>5 DEF ID, Leaf
  <2>. QED
    BY <2>2, <2>3, <2>6
<1>2. ASSUME NEW l \in Leaf, ~(IsInt(l) /\ ToCoalesce(l.val))
      PROVE  Coalesced(values)[l] = l
  BY <1>2 DEF Coalesced
<1>. QED
  BY <1>1, <1>2

-----------------------------------------------------------------------------
(* Types.                                                                  *)

(* The type invariant, in parts.                                           *)
LEMMA TypeParts ==
    OptTypeOK <=> /\ Remaining(level, passes)
                  /\ decls \in Seq(Decl(AllNames))
                  /\ loops \in Seq([name : Names, bound : Expr])
                  /\ outs \in Seq(Expr)
BY DEF OptTypeOK, Remaining

(* The bounds of loops are rewritten, one by one.                          *)
Bounds(g, ls) == [k \in DOMAIN ls |-> [ls[k] EXCEPT !.bound = g[k]]]

LoopsOf(ls) == {ls[k].name : k \in DOMAIN ls}

(* The loops stay the same loops, with trees for bounds.                   *)
LEMMA BoundsFacts ==
    ASSUME NEW ls \in Seq([name : Names, bound : Expr]), NEW g,
           \A k \in DOMAIN ls : g[k] \in Expr
    PROVE  /\ Bounds(g, ls) \in Seq([name : Names, bound : Expr])
           /\ LoopsOf(Bounds(g, ls)) = LoopsOf(ls)
<1> DEFINE new == Bounds(g, ls)
<1>1. new = [k \in DOMAIN ls |-> [ls[k] EXCEPT !.bound = g[k]]]
  BY DEF Bounds
<1>2. ASSUME NEW k \in DOMAIN ls
      PROVE  /\ [ls[k] EXCEPT !.bound = g[k]] \in [name : Names, bound : Expr]
             /\ [ls[k] EXCEPT !.bound = g[k]].name = ls[k].name
  <2>1. ls[k] \in [name : Names, bound : Expr]
    BY SeqElements
  <2>. QED
    BY <2>1
<1> HIDE DEF new
<1>3. /\ new = [k \in DOMAIN ls |-> new[k]]
      /\ \A k \in DOMAIN ls : new[k] \in [name : Names, bound : Expr]
  BY <1>1, <1>2
<1>4. new \in Seq([name : Names, bound : Expr]) /\ DOMAIN new = DOMAIN ls
  BY <1>3, SeqOver
<1>5. \A k \in DOMAIN ls : new[k].name = ls[k].name
  BY <1>1, <1>2
<1>. QED
  BY <1>4, <1>5 DEF new, LoopsOf

(* The trees of the OUT statements are rewritten, one by one.              *)
LEMMA OutsType ==
    ASSUME NEW os \in Seq(Expr), NEW g, g = [k \in DOMAIN os |-> g[k]],
           \A k \in DOMAIN os : g[k] \in Expr
    PROVE  g \in Seq(Expr) /\ DOMAIN g = DOMAIN os
BY SeqOver

(* What each pass makes of the trees, as rewriting of leaves.              *)
LEMMA PassesRewrite ==
    /\ ConstantFold =>
          /\ outs' = [k \in DOMAIN outs |-> ConstFold[outs[k]]]
          /\ loops' = Bounds([k \in DOMAIN loops |-> ConstFold[loops[k].bound]], loops)
          /\ decls' = decls
    /\ ConstantPropagation =>
          /\ outs' = [k \in DOMAIN outs |-> Rewritten(Propagated(decls), outs[k])]
          /\ loops' = Bounds([k \in DOMAIN loops |->
                                 Rewritten(Propagated(decls), loops[k].bound)], loops)
          /\ decls' = decls
    /\ ConstantCoalesce =>
          \E values \in SetToSeqs({v \in Words : ToCoalesce(v)}) :
             /\ outs' = [k \in DOMAIN outs |-> Rewritten(Coalesced(values), outs[k])]
             /\ decls' = Shared(values)
                         \o Kept(decls, {d \in Range(decls) : IsConst(d) => ~ToCoalesce(d.val)})
             /\ loops' = loops
<1>1. ASSUME ConstantFold
      PROVE  /\ outs' = [k \in DOMAIN outs |-> ConstFold[outs[k]]]
             /\ loops' = Bounds([k \in DOMAIN loops |-> ConstFold[loops[k].bound]], loops)
             /\ decls' = decls
  BY <1>1 DEF ConstantFold, Bounds
<1>2. ASSUME ConstantPropagation
      PROVE  /\ outs' = [k \in DOMAIN outs |-> Rewritten(Propagated(decls), outs[k])]
             /\ loops' = Bounds([k \in DOMAIN loops |->
                                    Rewritten(Propagated(decls), loops[k].bound)], loops)
             /\ decls' = decls
  BY <1>2 DEF ConstantPropagation, PropagatedLoops, ConstPropagation, Propagated, Bounds
<1>3. ASSUME ConstantCoalesce
      PROVE  \E values \in SetToSeqs({v \in Words : ToCoalesce(v)}) :
                /\ outs' = [k \in DOMAIN outs |-> Rewritten(Coalesced(values), outs[k])]
                /\ decls' = Shared(values)
                            \o Kept(decls, {d \in Range(decls) : IsConst(d) => ~ToCoalesce(d.val)})
                /\ loops' = loops
  BY <1>3 DEF ConstantCoalesce, ConstCoalesce, Coalesced, Shared
<1>. QED
  BY <1>1, <1>2, <1>3

(* Every pass keeps the types.                                             *)
LEMMA TypeStep ==
    ASSUME OptTypeOK, [OptNext]_optVars
    PROVE  OptTypeOK'
<1>0. /\ Remaining(level, passes)
      /\ decls \in Seq(Decl(AllNames))
      /\ loops \in Seq([name : Names, bound : Expr])
      /\ outs \in Seq(Expr)
  BY TypeParts
<1>1. /\ \A k \in DOMAIN outs : outs[k] \in Expr
      /\ \A k \in DOMAIN loops : loops[k].bound \in Expr
  <2>1. \A k \in DOMAIN loops : loops[k] \in [name : Names, bound : Expr]
    BY <1>0, SeqElements
  <2>. QED
    BY <1>0, <2>1
<1>2. SUFFICES /\ Remaining(level', passes')
               /\ decls' \in Seq(Decl(AllNames))
               /\ loops' \in Seq([name : Names, bound : Expr])
               /\ outs' \in Seq(Expr)
  BY DEF OptTypeOK, Remaining
<1>3. CASE UNCHANGED optVars
  BY <1>0, <1>3 DEF optVars
<1>4. ASSUME NEW p, Run(p) PROVE Remaining(level', passes')
  BY <1>0, <1>4, RemainingFacts DEF Run
<1>5. CASE ConstantFold
  <2> DEFINE g == [k \in DOMAIN loops |-> ConstFold[loops[k].bound]]
  <2>1. Remaining(level', passes')
    BY <1>4, <1>5 DEF ConstantFold
  <2>2. /\ outs' = [k \in DOMAIN outs |-> ConstFold[outs[k]]]
        /\ loops' = Bounds(g, loops) /\ decls' = decls
    BY <1>5, PassesRewrite
  <2>3. \A k \in DOMAIN loops : g[k] \in Expr
    BY <1>1, FoldFacts
  <2>4. outs' \in Seq(Expr)
    <3>1. outs' = [k \in DOMAIN outs |-> outs'[k]] /\ \A k \in DOMAIN outs : outs'[k] \in Expr
      BY <1>1, <2>2, FoldFacts
    <3>. QED
      BY <1>0, <3>1, OutsType
  <2> HIDE DEF g
  <2>. QED
    BY <1>0, <2>1, <2>2, <2>3, <2>4, BoundsFacts
<1>6. CASE ConstantPropagation
  <2> DEFINE f == Propagated(decls)
             g == [k \in DOMAIN loops |-> Rewritten(f, loops[k].bound)]
  <2>1. Remaining(level', passes')
    BY <1>4, <1>6 DEF ConstantPropagation
  <2>2. /\ outs' = [k \in DOMAIN outs |-> Rewritten(f, outs[k])]
        /\ loops' = Bounds(g, loops) /\ decls' = decls
    BY <1>6, PassesRewrite
  <2>3. \A l \in Leaf : f[l] \in Leaf
    BY <1>0, PropagatedType
  <2> HIDE DEF f
  <2>4. \A e \in Expr : Rewritten(f, e) \in Expr
    BY <2>3, RewriteFacts
  <2>5. \A k \in DOMAIN loops : g[k] \in Expr
    BY <1>1, <2>4
  <2>6. outs' \in Seq(Expr)
    <3>1. outs' = [k \in DOMAIN outs |-> outs'[k]] /\ \A k \in DOMAIN outs : outs'[k] \in Expr
      BY <1>1, <2>2, <2>4
    <3>. QED
      BY <1>0, <3>1, OutsType
  <2> HIDE DEF g
  <2>. QED
    BY <1>0, <2>1, <2>2, <2>5, <2>6, BoundsFacts
<1>7. CASE ConstantCoalesce
  <2> DEFINE shared == {v \in Words : ToCoalesce(v)}
             T == {d \in Range(decls) : IsConst(d) => ~ToCoalesce(d.val)}
  <2>1. Remaining(level', passes')
    BY <1>4, <1>7 DEF ConstantCoalesce
  <2>2. PICK values \in SetToSeqs(shared) :
           /\ outs' = [k \in DOMAIN outs |-> Rewritten(Coalesced(values), outs[k])]
           /\ decls' = Shared(values) \o Kept(decls, T)
           /\ loops' = loops
    BY <1>7, PassesRewrite
  <2>3. shared \subseteq Words /\ shared = {v \in Words : ToCoalesce(v)}
    OBVIOUS
  <2> DEFINE f == Coalesced(values)
             kept == Kept(decls, T)
             new == Shared(values)
  <2>4. \A l \in Leaf : f[l] \in Leaf
    BY <2>3, CoalescedFacts
  <2>5. new \in Seq(Decl(GeneratedNames))
    BY <2>3, SharedDecls
  <2>6. kept \in Seq(Decl(AllNames))
    BY <1>0, KeptFacts
  <2>7. Decl(GeneratedNames) \subseteq Decl(AllNames)
    BY DEF Decl, AllNames
  <2> HIDE DEF f, kept, new, shared, T
  <2>8. decls' \in Seq(Decl(AllNames))
    <3>1. new \in Seq(Decl(AllNames))
      BY <2>5, <2>7
    <3>2. decls' = new \o kept
      BY <2>2 DEF new, kept
    <3>. QED
      BY <2>6, <3>1, <3>2, ConcatProperties
  <2>9. \A e \in Expr : Rewritten(f, e) \in Expr
    BY <2>4, RewriteFacts
  <2>10. outs' \in Seq(Expr)
    <3>1. outs' = [k \in DOMAIN outs |-> outs'[k]] /\ \A k \in DOMAIN outs : outs'[k] \in Expr
      BY <1>1, <2>2, <2>9 DEF f
    <3>. QED
      BY <1>0, <3>1, OutsType
  <2>. QED
    BY <1>0, <2>1, <2>2, <2>8, <2>10
<1>8. CASE DeadCodeElimination
  <2>1. Remaining(level', passes')
    BY <1>4, <1>8 DEF DeadCodeElimination
  <2>2. decls' \in Seq(Decl(AllNames))
    BY <1>0, <1>8, KeptFacts DEF DeadCodeElimination
  <2>. QED
    BY <1>0, <1>8, <2>1, <2>2 DEF DeadCodeElimination
<1>. QED
  BY <1>3, <1>5, <1>6, <1>7, <1>8 DEF OptNext

(* Programs are well formed.                                               *)
LEMMA TypeInit ==
    ASSUME OptInit
    PROVE  OptTypeOK
<1>1. /\ decls \in Seq(Decl(Names))
      /\ loops \in Seq([name : Names, bound : Expr]) /\ outs \in Seq(Expr)
  BY ProgramsAssumption DEF OptInit
<1>2. Decl(Names) \subseteq Decl(AllNames)
  BY DEF Decl, AllNames
<1>3. decls \in Seq(Decl(AllNames))
  BY <1>1, <1>2
<1>4. Remaining(level, passes)
  BY RemainingFacts DEF OptInit
<1>. QED
  BY <1>1, <1>3, <1>4, TypeParts

(* Every pass leaves a tree of nodes there are, whose numbers fit an int,  *)
(* and declarations with a name each: the compiler's passes can be run in  *)
(* this order at every level.                                              *)
THEOREM OptTypes == OptSpec => []OptTypeOK
<1>1. OptInit => OptTypeOK
  BY TypeInit
<1>2. OptTypeOK /\ [OptNext]_optVars => OptTypeOK'
  BY TypeStep
<1>. QED
  BY <1>1, <1>2, PTL DEF OptSpec

-----------------------------------------------------------------------------
(* Names and values.                                                       *)

(* The leaves of all OUT statements.                                       *)
AllLeaves(os) == UNION {LeafSet(os[k]) : k \in DOMAIN os}

DeclNames(ds) == {d.name : d \in Range(ds)}

(* The names coalescing makes are not names of the program.                *)
GeneratedFresh == GeneratedNames \cap Names = {}

(* An array is no constant, nor is the variable it is indexed with: the    *)
(* allocation knows loops only.                                            *)
Apart(ds, os) == \A l \in AllLeaves(os), d \in Range(ds) :
                    l.tag = "index" /\ IsConst(d) => d.name \notin {l.name, l.var}

IndexedByCounters == \A p \in Programs : Apart(p.decls, p.outs)

(* When equal values are coalesced, no constant an OUT statement still     *)
(* names, because propagation leaves it alone, has one of them.            *)
KeptApart ==
    passes # <<>> /\ Head(passes) = "coalesce" =>
        \A d \in Range(decls) :
            IsConst(d) /\ (~d.opt \/ d.val = NotFound) /\ d.name \in NamesIn(outs)
               => ~ToCoalesce(d.val)

(* Names are those of the program.                                         *)
Written(os) == \A l \in AllLeaves(os) : l.tag = "id" => l.name \in Names

(* Propagation has nothing left to do.                                     *)
Settled(ds, os) ==
    \A l \in AllLeaves(os) : l.tag = "id" => FindConstant(ds, l.name) = NotFound

(* Every name is declared.                                                 *)
Resolved(ds, os, names) ==
    \A l \in AllLeaves(os) : ~IsInt(l) => l.name \in names \cup DeclNames(ds)

(* The inductive invariant.                                                *)
OptInv ==
    /\ OptTypeOK
    /\ passes \in Early \cup AtCoalesce \cup Late
    /\ Unique(decls)
    /\ Apart(decls, outs)
    /\ Resolved(decls, outs, LoopNames)
    /\ passes \in Early \cup AtCoalesce => decls \in Seq(Decl(Names)) /\ Written(outs)
    /\ passes \in AtCoalesce => Settled(decls, outs)

(* Leaves of statements are literals, names and array indices.             *)
LEMMA AllLeavesFacts ==
    ASSUME NEW os \in Seq(Expr)
    PROVE  /\ AllLeaves(os) \subseteq Leaf
           /\ \A l \in AllLeaves(os) : l.tag \in {"int", "id", "index"}
           /\ \A l \in AllLeaves(os) : l.tag = "index" => l.name \in Names /\ l.var \in Names
           /\ NamesIn(os) = {l.name : l \in {m \in AllLeaves(os) : ~IsInt(m)}}
<1>1. AllLeaves(os) \subseteq Leaf
  BY SeqElements, LeavesFacts DEF AllLeaves
<1>2. \A l \in Leaf : /\ l.tag \in {"int", "id", "index"}
                      /\ l.tag = "index" => l.name \in Names /\ l.var \in Names
  BY DEF Leaf
<1>3. NamesIn(os) = {l.name : l \in {m \in AllLeaves(os) : ~IsInt(m)}}
  BY DEF NamesIn, AllLeaves, LeafSet
<1>. QED
  BY <1>1, <1>2, <1>3

(* What is said of the names stays true when the new leaves are literals   *)
(* or old leaves.                                                          *)
LEMMA NamesCarried ==
    ASSUME NEW os, NEW ps, NEW ds, NEW names,
           \A m \in AllLeaves(ps) : IsInt(m) \/ m \in AllLeaves(os)
    PROVE  /\ Apart(ds, os) => Apart(ds, ps)
           /\ Written(os) => Written(ps)
           /\ Settled(ds, os) => Settled(ds, ps)
           /\ Resolved(ds, os, names) => Resolved(ds, ps, names)
<1>1. Apart(ds, os) => Apart(ds, ps)
  BY DEF Apart, IsInt
<1>2. Written(os) => Written(ps)
  BY DEF Written, IsInt
<1>3. Settled(ds, os) => Settled(ds, ps)
  BY DEF Settled, IsInt
<1>4. Resolved(ds, os, names) => Resolved(ds, ps, names)
  BY DEF Resolved
<1>. QED
  BY <1>1, <1>2, <1>3, <1>4

(* A pass runs at its stage, and leads to the next.                        *)
LEMMA StageStep ==
    ASSUME passes \in Early \cup AtCoalesce \cup Late
    PROVE  /\ Run("fold") => passes \in Early /\ passes' \in Early
           /\ Run("propagate") => passes \in Early /\ passes' \in Early \cup AtCoalesce
           /\ Run("coalesce") => passes \in AtCoalesce /\ passes' \in Late
           /\ Run("eliminate") => passes \in Late /\ passes' \in Late
BY StagesFacts DEF Run

(* Leaves keep their value when the constants they name stay.              *)
LEMMA SameLeafValue ==
    ASSUME NEW S, NEW ds \in Seq(S), NEW es \in Seq(S), Unique(ds), Unique(es), NEW env,
           NEW l \in Leaf,
           l.tag = "id" => ConstantOf(es, l.name) = ConstantOf(ds, l.name),
           l.tag = "index" => ConstantOf(es, l.var) = ConstantOf(ds, l.var)
    PROVE  LeafValue(es, env, l) = LeafValue(ds, env, l)
<1>1. ASSUME NEW n, ConstantOf(es, n) = ConstantOf(ds, n)
      PROVE  Register(es, env, n) = Register(ds, env, n)
  <2>1. CASE ConstantOf(ds, n) = {}
    BY <1>1, <2>1, RegisterFacts
  <2>2. CASE ConstantOf(ds, n) # {}
    <3>1. PICK d : d \in ConstantOf(ds, n)
      BY <2>2
    <3>. QED
      BY <1>1, <3>1, RegisterFacts
  <2>. QED
    BY <2>1, <2>2
<1>2. l.tag \in {"int", "id", "index"}
  BY DEF Leaf
<1>3. CASE l.tag = "int"
  BY <1>3 DEF LeafValue
<1>4. CASE l.tag = "id"
  BY <1>1, <1>4 DEF LeafValue
<1>5. CASE l.tag = "index"
  BY <1>1, <1>5 DEF LeafValue
<1>. QED
  BY <1>2, <1>3, <1>4, <1>5

(* The program as parsed names what it declares, once.                     *)
LEMMA SourceInit ==
    ASSUME OptInit
    PROVE  /\ OptTypeOK /\ source \in Programs
           /\ decls = source.decls /\ loops = source.loops /\ outs = source.outs
           /\ decls \in Seq(Decl(Names)) /\ Unique(decls)
           /\ Resolved(decls, outs, LoopNames) /\ Written(outs)
<1>1. /\ OptTypeOK /\ source \in Programs
      /\ decls = source.decls /\ loops = source.loops /\ outs = source.outs
  BY TypeInit DEF OptInit
<1>2. /\ decls \in Seq(Decl(Names))
      /\ loops \in Seq([name : Names, bound : Expr]) /\ outs \in Seq(Expr)
  BY <1>1, ProgramsAssumption
<1>3. Unique(decls)
  BY <1>1, ProgramsAssumption DEF Unique
<1>4. Resolved(decls, outs, LoopNames)
  <2>1. \A k \in DOMAIN outs : \A l \in LeafSet(outs[k]) :
            IsInt(l) \/ l.name \in {loops[i].name : i \in DOMAIN loops}
                                   \cup {d.name : d \in Range(decls)}
    BY <1>1, ProgramsAssumption DEF LeafSet
  <2>. QED
    BY <2>1 DEF Resolved, AllLeaves, LoopNames, DeclNames
<1>5. Written(outs)
  <2>1. \A k \in DOMAIN loops : loops[k].name \in Names
    <3>1. \A k \in DOMAIN loops : loops[k] \in [name : Names, bound : Expr]
      BY <1>2, SeqElements
    <3>. QED
      BY <3>1
  <2>2. \A d \in Range(decls) : d.name \in Names
    <3>1. Range(decls) \subseteq Decl(Names)
      BY <1>2, RangeOfSeq
    <3>. QED
      BY <3>1 DEF Decl
  <2>3. LoopNames \cup DeclNames(decls) \subseteq Names
    BY <2>1, <2>2 DEF LoopNames, DeclNames
  <2>. QED
    BY <1>4, <2>3 DEF Resolved, Written, IsInt
<1>. QED
  BY <1>1, <1>2, <1>3, <1>4, <1>5

(* Initially.                                                              *)
LEMMA InvInit ==
    ASSUME OptInit, IndexedByCounters
    PROVE  OptInv
<1>1. passes \in Early \cup AtCoalesce \cup Late /\ passes \notin AtCoalesce
  BY StagesFacts DEF OptInit, Late
<1>2. Apart(decls, outs)
  BY SourceInit DEF IndexedByCounters
<1>. QED
  BY <1>1, <1>2, SourceInit DEF OptInv

(* The counters of the loops are words.                                    *)
LEMMA EnvsFacts == \A env \in Envs : env \in [LoopNames -> Words]
<1>1. Samples \subseteq Words
  BY NumbersAssumption DEF Words
<1>. QED
  BY <1>1 DEF Envs

(* A pass changes no value, and neither loops nor statements are lost.     *)
KeepsValues ==
    /\ Envs' = Envs
    /\ DOMAIN outs' = DOMAIN outs
    /\ \A env \in Envs, k \in DOMAIN outs :
          Value(decls', env, outs'[k]) = Value(decls, env, outs[k])

(* Folding brings no name, and keeps every value.                          *)
LEMMA FoldStep ==
    ASSUME OptInv, OptTypeOK', ConstantFold
    PROVE  OptInv' /\ KeepsValues
<1>1. /\ decls \in Seq(Decl(AllNames)) /\ loops \in Seq([name : Names, bound : Expr])
      /\ outs \in Seq(Expr)
  BY TypeParts DEF OptInv
<1> DEFINE g == [k \in DOMAIN loops |-> ConstFold[loops[k].bound]]
<1>2. /\ outs' = [k \in DOMAIN outs |-> ConstFold[outs[k]]]
      /\ loops' = Bounds(g, loops) /\ decls' = decls
  BY PassesRewrite
<1>3. LoopNames' = LoopNames
  <2>1. \A k \in DOMAIN loops : loops[k].bound \in Expr
    <3>1. \A k \in DOMAIN loops : loops[k] \in [name : Names, bound : Expr]
      BY <1>1, SeqElements
    <3>. QED
      BY <3>1
  <2>2. \A k \in DOMAIN loops : g[k] \in Expr
    BY <2>1, FoldFacts
  <2> HIDE DEF g
  <2>3. LoopsOf(loops') = LoopsOf(loops)
    BY <1>1, <1>2, <2>2, BoundsFacts
  <2>. QED
    BY <2>3 DEF LoopNames, LoopsOf
<1>4. passes \in Early /\ passes' \in Early /\ passes' \notin AtCoalesce
  BY StageStep, StagesFacts DEF OptInv, ConstantFold
<1>5. \A k \in DOMAIN outs : outs[k] \in Expr
  BY <1>1
<1>6. \A m \in AllLeaves(outs') : IsInt(m) \/ m \in AllLeaves(outs)
  BY <1>2, <1>5, FoldLeaves DEF AllLeaves
<1>7. OptInv'
  <2>1. Unique(decls') /\ Apart(decls', outs') /\ Written(outs')
        /\ Resolved(decls', outs', LoopNames') /\ decls' \in Seq(Decl(Names))
    BY <1>2, <1>3, <1>4, <1>6, NamesCarried DEF OptInv
  <2>. QED
    BY <1>4, <2>1 DEF OptInv
<1>8. KeepsValues
  <2>1. Envs' = Envs
    BY <1>3 DEF Envs
  <2>2. ASSUME NEW env \in Envs, NEW k \in DOMAIN outs
        PROVE  Value(decls', env, outs'[k]) = Value(decls, env, outs[k])
    <3>1. Valued(decls, env)
      BY <1>1, EnvsFacts, ValuedFacts DEF OptInv
    <3>. QED
      BY <1>2, <1>5, <3>1, FoldKeepsValue
  <2>3. DOMAIN outs' = DOMAIN outs
    BY <1>2
  <2>. QED
    BY <2>1, <2>2, <2>3 DEF KeepsValues
<1>. QED
  BY <1>7, <1>8

(* A known name becomes its number, which is what its register holds.      *)
LEMMA PropagatedFacts ==
    ASSUME NEW ds \in Seq(Decl(AllNames)), Unique(ds), NEW l \in Leaf
    PROVE  /\ \/ /\ Propagated(ds)[l] = l
                 /\ l.tag = "id" => FindConstant(ds, l.name) = NotFound
              \/ /\ l.tag = "id" /\ FindConstant(ds, l.name) # NotFound
                 /\ Propagated(ds)[l] = IntLit(FindConstant(ds, l.name))
           /\ \A env : LeafValue(ds, env, Propagated(ds)[l]) = LeafValue(ds, env, l)
<1> DEFINE m == Propagated(ds)[l]
<1>1. \/ m = l /\ (l.tag = "id" => FindConstant(ds, l.name) = NotFound)
      \/ /\ l.tag = "id" /\ FindConstant(ds, l.name) # NotFound
         /\ m = IntLit(FindConstant(ds, l.name))
  BY DEF Propagated
<1> HIDE DEF m
<1>2. ASSUME NEW env, l.tag = "id", FindConstant(ds, l.name) # NotFound,
             m = IntLit(FindConstant(ds, l.name))
      PROVE  LeafValue(ds, env, m) = LeafValue(ds, env, l)
  <2>1. PICK d : d \in ConstantOf(ds, l.name)
    BY <1>2, FindConstantFacts
  <2>2. FindConstant(ds, l.name) = d.val
    BY <1>2, <2>1, FindConstantFacts
  <2>3. Register(ds, env, l.name) = d.val
    BY <2>1, RegisterFacts
  <2>4. LeafValue(ds, env, l) = d.val
    BY <1>2, <2>3 DEF LeafValue
  <2>5. LeafValue(ds, env, IntLit(d.val)) = d.val
    BY DEF LeafValue, IntLit
  <2>. QED
    BY <1>2, <2>2, <2>4, <2>5
<1>. QED
  BY <1>1, <1>2 DEF m

(* Propagation replaces a name by the number in its register.              *)
LEMMA PropagateStep ==
    ASSUME OptInv, OptTypeOK', ConstantPropagation
    PROVE  OptInv' /\ KeepsValues
<1>1. /\ decls \in Seq(Decl(AllNames)) /\ loops \in Seq([name : Names, bound : Expr])
      /\ outs \in Seq(Expr) /\ Unique(decls)
  BY TypeParts DEF OptInv
<1> DEFINE f == Propagated(decls)
           g == [k \in DOMAIN loops |-> Rewritten(f, loops[k].bound)]
<1>2. /\ outs' = [k \in DOMAIN outs |-> Rewritten(f, outs[k])]
      /\ loops' = Bounds(g, loops) /\ decls' = decls
  BY PassesRewrite
<1>3. \A l \in Leaf : f[l] \in Leaf
  BY <1>1, PropagatedType
<1>4. \A l \in Leaf :
         \/ f[l] = l /\ (l.tag = "id" => FindConstant(decls, l.name) = NotFound)
         \/ /\ l.tag = "id" /\ FindConstant(decls, l.name) # NotFound
            /\ f[l] = IntLit(FindConstant(decls, l.name))
  BY <1>1, PropagatedFacts
<1> HIDE DEF f
<1>5. LoopNames' = LoopNames
  <2>1. \A k \in DOMAIN loops : loops[k].bound \in Expr
    <3>1. \A k \in DOMAIN loops : loops[k] \in [name : Names, bound : Expr]
      BY <1>1, SeqElements
    <3>. QED
      BY <3>1
  <2>2. \A k \in DOMAIN loops : g[k] \in Expr
    BY <1>3, <2>1, RewriteFacts
  <2> HIDE DEF g
  <2>3. LoopsOf(loops') = LoopsOf(loops)
    BY <1>1, <1>2, <2>2, BoundsFacts
  <2>. QED
    BY <2>3 DEF LoopNames, LoopsOf
<1>6. passes \in Early /\ passes' \in Early \cup AtCoalesce
  BY StageStep DEF OptInv, ConstantPropagation
<1>7. \A k \in DOMAIN outs : outs[k] \in Expr /\ LeafSet(outs[k]) \subseteq Leaf
  BY <1>1, LeavesFacts
<1>8. \A m \in AllLeaves(outs') : \E l \in AllLeaves(outs) : l \in Leaf /\ m = f[l]
  BY <1>2, <1>3, <1>7, RewriteLeaves DEF AllLeaves
<1>9. \A m \in AllLeaves(outs') :
         \/ IsInt(m)
         \/ m \in AllLeaves(outs) /\ (m.tag = "id" => FindConstant(decls, m.name) = NotFound)
  <2> SUFFICES ASSUME NEW m \in AllLeaves(outs')
               PROVE  \/ IsInt(m)
                      \/ /\ m \in AllLeaves(outs)
                         /\ m.tag = "id" => FindConstant(decls, m.name) = NotFound
    OBVIOUS
  <2>1. PICK l \in AllLeaves(outs) : l \in Leaf /\ m = f[l]
    BY <1>8
  <2>2. CASE f[l] = l /\ (l.tag = "id" => FindConstant(decls, l.name) = NotFound)
    BY <2>1, <2>2
  <2>3. CASE f[l] = IntLit(FindConstant(decls, l.name))
    BY <2>1, <2>3 DEF IsInt, IntLit
  <2>. QED
    BY <1>4, <2>1, <2>2, <2>3
<1>10. OptInv'
  <2>1. Unique(decls') /\ Apart(decls', outs') /\ Written(outs')
        /\ Resolved(decls', outs', LoopNames') /\ decls' \in Seq(Decl(Names))
    BY <1>2, <1>5, <1>6, <1>9, NamesCarried DEF OptInv
  <2>2. Settled(decls', outs')
    BY <1>2, <1>9 DEF Settled, IsInt
  <2>. QED
    BY <1>6, <2>1, <2>2 DEF OptInv
<1>11. KeepsValues
  <2>1. Envs' = Envs
    BY <1>5 DEF Envs
  <2>2. ASSUME NEW env \in Envs, NEW k \in DOMAIN outs
        PROVE  Value(decls', env, outs'[k]) = Value(decls, env, outs[k])
    <3>1. Valued(decls, env)
      BY <1>1, EnvsFacts, ValuedFacts
    <3>2. \A l \in Leaf : LeafValue(decls, env, f[l]) = LeafValue(decls, env, l)
      BY <1>1, PropagatedFacts DEF f
    <3>3. Value(decls, env, Rewritten(f, outs[k])) = Value(decls, env, outs[k])
      BY <1>3, <1>7, <3>1, <3>2, RewriteKeepsValue
    <3>. QED
      BY <1>2, <3>3
  <2>3. DOMAIN outs' = DOMAIN outs
    BY <1>2
  <2>. QED
    BY <2>1, <2>2, <2>3 DEF KeepsValues
<1>. QED
  BY <1>10, <1>11

(* A declaration that an OUT statement still names is not coalesced.       *)
LEMMA NamedStays ==
    ASSUME OptInv, KeptApart, passes \in AtCoalesce,
           NEW l \in AllLeaves(outs), ~IsInt(l),
           NEW d \in Range(decls), d.name = l.name, IsConst(d)
    PROVE  ~ToCoalesce(d.val)
<1>1. decls \in Seq(Decl(AllNames)) /\ outs \in Seq(Expr) /\ Unique(decls)
  BY TypeParts DEF OptInv
<1>2. l.tag = "id"
  <2>1. l.tag \in {"int", "id", "index"}
    BY <1>1, AllLeavesFacts
  <2>2. l.tag # "index"
    BY DEF OptInv, Apart
  <2>. QED
    BY <2>1, <2>2 DEF IsInt
<1>3. FindConstant(decls, l.name) = NotFound
  BY <1>2 DEF OptInv, Settled
<1>4. d \in ConstantOf(decls, l.name)
  BY DEF ConstantOf
<1>5. ~d.opt \/ d.val = NotFound
  BY <1>1, <1>3, <1>4, FindConstantFacts
<1>6. d.name \in NamesIn(outs)
  BY <1>1, AllLeavesFacts
<1>7. passes # <<>> /\ Head(passes) = "coalesce"
  BY StagesFacts DEF Late
<1>. QED
  BY <1>5, <1>6, <1>7 DEF KeptApart

(* Coalescing replaces a number by a name whose register holds it, and     *)
(* keeps the declarations that are named.                                  *)
LEMMA CoalesceStep ==
    ASSUME OptInv, OptTypeOK', KeptApart, GeneratedFresh, ConstantCoalesce
    PROVE  OptInv' /\ KeepsValues
<1>1. /\ decls \in Seq(Decl(AllNames)) /\ outs \in Seq(Expr) /\ Unique(decls)
      /\ decls' \in Seq(Decl(AllNames)) /\ outs' \in Seq(Expr)
  BY DEF OptInv, OptTypeOK
<1>2. passes \in AtCoalesce /\ passes' \in Late /\ passes' \notin Early \cup AtCoalesce
  BY StageStep, StagesFacts DEF OptInv, ConstantCoalesce
<1>3. decls \in Seq(Decl(Names)) /\ Written(outs) /\ Settled(decls, outs)
  BY <1>2 DEF OptInv
<1> DEFINE shared == {v \in Words : ToCoalesce(v)}
           T == {d \in Range(decls) : IsConst(d) => ~ToCoalesce(d.val)}
<1>4. PICK values \in SetToSeqs(shared) :
         /\ outs' = [k \in DOMAIN outs |-> Rewritten(Coalesced(values), outs[k])]
         /\ decls' = Shared(values) \o Kept(decls, T)
         /\ loops' = loops
  BY PassesRewrite
<1>5. shared \subseteq Words /\ shared = {v \in Words : ToCoalesce(v)}
  OBVIOUS
<1> DEFINE f == Coalesced(values)
           new == Shared(values)
           Made(k) == ConstDecl(GenIDString(k), values[k], TRUE)
<1>6. /\ \A l \in Leaf : f[l] \in Leaf
      /\ \A l \in Leaf : \/ f[l] = l
                         \/ IsInt(l) /\ \E k \in DOMAIN values :
                               values[k] = l.val /\ f[l] = ID(GenIDString(k))
  BY <1>5, CoalescedFacts
<1>7. Range(decls') = Range(new) \cup (Range(decls) \cap T)
  <2> DEFINE kept == Kept(decls, T)
  <2>1. new \in Seq(Decl(GeneratedNames)) /\ Decl(GeneratedNames) \subseteq Decl(AllNames)
    BY <1>5, SharedDecls DEF Decl, AllNames
  <2>2. kept \in Seq(Decl(AllNames)) /\ Range(kept) = Range(decls) \cap T
    BY <1>1, KeptFacts
  <2>3. decls' = new \o kept
    BY <1>4
  <2> HIDE DEF new, kept
  <2>4. new \in Seq(Decl(AllNames))
    BY <2>1
  <2>. QED
    BY <2>2, <2>3, <2>4, RangeConcatenation
<1>8. /\ \A k \in DOMAIN values : k \in 1 .. Word
      /\ \A d \in Range(new) : \E k \in DOMAIN values : d = Made(k)
      /\ \A k \in DOMAIN values : Made(k) \in Range(new)
  BY <1>5, SharedFacts, SharedDecls
<1>9. \A k : Made(k).name = GenIDString(k) /\ Made(k).val = values[k] /\ IsConst(Made(k))
  BY DEF ConstDecl, IsConst
<1>10. \A k \in 1 .. Word : GenIDString(k) \in GeneratedNames
  BY DEF GeneratedNames
<1>11. \A j, k \in 1 .. Word : GenIDString(j) = GenIDString(k) => j = k
  BY DEF GenIDString
<1>12. \A d \in Range(new) : d.name \notin Names
  BY <1>8, <1>9, <1>10 DEF GeneratedFresh
<1>13. \A d \in Range(decls) : d.name \in Names
  <2>1. Range(decls) \subseteq Decl(Names)
    BY <1>3, RangeOfSeq
  <2>. QED
    BY <2>1 DEF Decl
<1>14. ASSUME NEW l \in AllLeaves(outs), ~IsInt(l), NEW d \in Range(decls), d.name = l.name
       PROVE  d \in T
  BY <1>2, <1>14, NamedStays
<1> HIDE DEF shared, T, f, new, Made
<1>15. Unique(decls')
  <2>1. \A c, d \in Range(new) : c.name = d.name => c = d
    BY <1>8, <1>9, <1>11
  <2>. QED
    BY <1>1, <1>7, <1>12, <1>13, <2>1 DEF Unique
<1>16. \A k \in DOMAIN outs : outs[k] \in Expr /\ LeafSet(outs[k]) \subseteq Leaf
  BY <1>1, LeavesFacts
<1>17. \A m \in AllLeaves(outs') :
          \/ m \in AllLeaves(outs)
          \/ \E k \in DOMAIN values : m = ID(GenIDString(k))
  <2> SUFFICES ASSUME NEW m \in AllLeaves(outs')
               PROVE  m \in AllLeaves(outs) \/ \E k \in DOMAIN values : m = ID(GenIDString(k))
    OBVIOUS
  <2>1. PICK l \in AllLeaves(outs) : l \in Leaf /\ m = f[l]
    BY <1>4, <1>6, <1>16, RewriteLeaves DEF AllLeaves, f
  <2>. QED
    BY <1>6, <2>1
<1>18. Apart(decls', outs')
  <2> SUFFICES ASSUME NEW l \in AllLeaves(outs'), NEW d \in Range(decls'),
                      l.tag = "index", IsConst(d)
               PROVE  d.name \notin {l.name, l.var}
    BY DEF Apart
  <2>1. l \in AllLeaves(outs)
    BY <1>17 DEF ID
  <2>2. l.name \in Names /\ l.var \in Names
    BY <1>1, <2>1, AllLeavesFacts
  <2>3. CASE d \in Range(decls)
    BY <2>1, <2>3 DEF OptInv, Apart
  <2>4. CASE d \in Range(new)
    BY <1>12, <2>2, <2>4
  <2>. QED
    BY <1>7, <2>3, <2>4
<1>19. Resolved(decls', outs', LoopNames')
  <2> SUFFICES ASSUME NEW l \in AllLeaves(outs'), ~IsInt(l)
               PROVE  l.name \in LoopNames' \cup DeclNames(decls')
    BY DEF Resolved
  <2>1. LoopNames' = LoopNames
    BY <1>4 DEF LoopNames
  <2>2. CASE l \in AllLeaves(outs)
    <3>1. l.name \in LoopNames \/ \E d \in Range(decls) : d.name = l.name
      BY <2>2 DEF OptInv, Resolved, DeclNames
    <3>. QED
      BY <1>7, <1>14, <2>1, <2>2, <3>1 DEF DeclNames
  <2>3. ASSUME NEW k \in DOMAIN values, l = ID(GenIDString(k)) PROVE l.name \in DeclNames(decls')
    <3>1. Made(k) \in Range(decls') /\ Made(k).name = l.name
      BY <1>7, <1>8, <1>9, <2>3 DEF ID
    <3>. QED
      BY <3>1 DEF DeclNames
  <2>. QED
    BY <1>17, <2>2, <2>3
<1>20. OptInv'
  BY <1>2, <1>15, <1>18, <1>19 DEF OptInv
<1>21. ASSUME NEW env, NEW l \in AllLeaves(outs)
       PROVE  LeafValue(decls', env, f[l]) = LeafValue(decls, env, l)
  <2>0. l \in Leaf /\ l.tag \in {"int", "id", "index"}
        /\ (l.tag = "index" => l.name \in Names /\ l.var \in Names)
    BY <1>1, AllLeavesFacts
  <2>1. ASSUME IsInt(l), NEW k \in DOMAIN values, values[k] = l.val, f[l] = ID(GenIDString(k))
        PROVE  LeafValue(decls', env, f[l]) = LeafValue(decls, env, l)
    <3>1. Made(k) \in ConstantOf(decls', GenIDString(k)) /\ Made(k).val = l.val
      BY <1>7, <1>8, <1>9, <2>1 DEF ConstantOf
    <3>2. Register(decls', env, GenIDString(k)) = l.val
      BY <1>1, <1>15, <3>1, RegisterFacts
    <3>3. LeafValue(decls', env, f[l]) = l.val
      BY <2>1, <3>2 DEF LeafValue, ID
    <3>4. LeafValue(decls, env, l) = l.val
      BY <2>1 DEF LeafValue, IsInt
    <3>. QED
      BY <3>3, <3>4
  <2>2. ASSUME f[l] = l
        PROVE  LeafValue(decls', env, f[l]) = LeafValue(decls, env, l)
    <3>1. ASSUME l.tag = "id" PROVE ConstantOf(decls', l.name) = ConstantOf(decls, l.name)
      <4>1. l.name \in Names
        BY <1>3, <3>1 DEF Written
      <4>2. \A d \in Range(decls) : d.name = l.name => d \in T
        BY <1>14, <3>1 DEF IsInt
      <4>. QED
        BY <1>7, <1>12, <4>1, <4>2 DEF ConstantOf
    <3>2. ASSUME l.tag = "index" PROVE ConstantOf(decls', l.var) = ConstantOf(decls, l.var)
      <4>1. ConstantOf(decls, l.var) = {}
        BY <3>2 DEF ConstantOf, OptInv, Apart
      <4>. QED
        BY <1>7, <1>12, <2>0, <3>2, <4>1 DEF ConstantOf
    <3>. QED
      BY <1>1, <1>15, <2>0, <2>2, <3>1, <3>2, SameLeafValue
  <2>. QED
    BY <1>6, <2>0, <2>1, <2>2
<1>22. KeepsValues
  <2>1. Envs' = Envs
    BY <1>4 DEF Envs, LoopNames
  <2>2. ASSUME NEW env \in Envs, NEW k \in DOMAIN outs
        PROVE  Value(decls', env, outs'[k]) = Value(decls, env, outs[k])
    <3>1. Valued(decls, env) /\ Valued(decls', env)
      BY <1>1, <1>15, EnvsFacts, ValuedFacts
    <3>2. \A l \in LeafSet(outs[k]) : LeafValue(decls', env, f[l]) = LeafValue(decls, env, l)
      BY <1>21 DEF AllLeaves
    <3>3. Value(decls', env, Rewritten(f, outs[k])) = Value(decls, env, outs[k])
      BY <1>6, <1>16, <3>1, <3>2, RewriteKeepsValue
    <3>. QED
      BY <1>4, <3>3 DEF f
  <2>3. DOMAIN outs' = DOMAIN outs
    BY <1>4
  <2>. QED
    BY <2>1, <2>2, <2>3 DEF KeepsValues
<1>. QED
  BY <1>20, <1>22

(* Elimination keeps what is named.                                        *)
LEMMA EliminateStep ==
    ASSUME OptInv, OptTypeOK', DeadCodeElimination
    PROVE  OptInv' /\ KeepsValues
<1>1. /\ decls \in Seq(Decl(AllNames)) /\ outs \in Seq(Expr) /\ Unique(decls)
      /\ decls' \in Seq(Decl(AllNames))
  BY DEF OptInv, OptTypeOK
<1>2. passes' \in Late /\ passes' \notin Early \cup AtCoalesce
  BY StageStep, StagesFacts DEF OptInv, DeadCodeElimination
<1>3. outs' = outs /\ loops' = loops
  BY DEF DeadCodeElimination
<1>4. Range(decls') = {d \in Range(decls) : IsUsed(d)}
  <2> DEFINE T == {d \in Range(decls) : IsUsed(d)}
  <2>1. decls' = Kept(decls, T)
    BY DEF DeadCodeElimination
  <2>2. Range(Kept(decls, T)) = Range(decls) \cap T
    BY <1>1, KeptFacts
  <2>. QED
    BY <2>1, <2>2
<1>5. ASSUME NEW l \in AllLeaves(outs), ~IsInt(l), NEW d \in Range(decls), d.name = l.name
      PROVE  d \in Range(decls')
  BY <1>4, <1>5 DEF IsUsed, AllLeaves, LeafSet
<1>6. Unique(decls')
  BY <1>1, <1>4 DEF Unique
<1>7. Apart(decls', outs')
  BY <1>3, <1>4 DEF OptInv, Apart
<1>8. Resolved(decls', outs', LoopNames')
  <2> SUFFICES ASSUME NEW l \in AllLeaves(outs), ~IsInt(l)
               PROVE  l.name \in LoopNames \cup DeclNames(decls')
    BY <1>3 DEF Resolved, LoopNames
  <2>1. l.name \in LoopNames \/ \E d \in Range(decls) : d.name = l.name
    BY DEF OptInv, Resolved, DeclNames
  <2>. QED
    BY <1>5, <2>1 DEF DeclNames
<1>9. OptInv'
  BY <1>2, <1>6, <1>7, <1>8 DEF OptInv
<1>10. ASSUME NEW env, NEW l \in AllLeaves(outs)
       PROVE  LeafValue(decls', env, l) = LeafValue(decls, env, l)
  <2>1. l \in Leaf
    BY <1>1, AllLeavesFacts
  <2>2. ASSUME l.tag = "id" PROVE ConstantOf(decls', l.name) = ConstantOf(decls, l.name)
    BY <1>4, <1>5, <2>2 DEF ConstantOf, IsInt
  <2>3. ASSUME l.tag = "index" PROVE ConstantOf(decls', l.var) = ConstantOf(decls, l.var)
    <3>1. ConstantOf(decls, l.var) = {}
      BY <2>3 DEF ConstantOf, OptInv, Apart
    <3>. QED
      BY <1>4, <3>1 DEF ConstantOf
  <2>. QED
    BY <1>1, <1>6, <2>1, <2>2, <2>3, SameLeafValue
<1>11. KeepsValues
  <2>1. Envs' = Envs
    BY <1>3 DEF Envs, LoopNames
  <2>2. ASSUME NEW env \in Envs, NEW k \in DOMAIN outs
        PROVE  Value(decls', env, outs[k]) = Value(decls, env, outs[k])
    <3>1. Valued(decls, env) /\ Valued(decls', env)
      BY <1>1, <1>6, EnvsFacts, ValuedFacts
    <3>2. \A l \in LeafSet(outs[k]) : LeafValue(decls', env, l) = LeafValue(decls, env, l)
      BY <1>10 DEF AllLeaves
    <3>3. outs[k] \in Expr
      BY <1>1
    <3>. QED
      BY <3>1, <3>2, <3>3, SameLeavesSameValue
  <2>. QED
    BY <1>3, <2>1, <2>2 DEF KeepsValues
<1>. QED
  BY <1>9, <1>11

(* Every pass keeps the invariant and the values.                          *)
LEMMA InvStep ==
    ASSUME OptInv, KeptApart, GeneratedFresh, [OptNext]_optVars
    PROVE  OptInv' /\ KeepsValues /\ source' = source
<1>1. OptTypeOK'
  BY TypeStep DEF OptInv
<1>2. CASE UNCHANGED optVars
  <2>1. OptInv'
    BY <1>1, <1>2 DEF optVars, OptInv, LoopNames
  <2>2. KeepsValues
    BY <1>2 DEF optVars, KeepsValues, Envs, LoopNames
  <2>. QED
    BY <1>2, <2>1, <2>2 DEF optVars
<1>3. CASE ConstantFold
  BY <1>1, <1>3, FoldStep DEF ConstantFold, Run
<1>4. CASE ConstantPropagation
  BY <1>1, <1>4, PropagateStep DEF ConstantPropagation, Run
<1>5. CASE ConstantCoalesce
  BY <1>1, <1>5, CoalesceStep DEF ConstantCoalesce, Run
<1>6. CASE DeadCodeElimination
  BY <1>1, <1>6, EliminateStep DEF DeadCodeElimination, Run
<1>. QED
  BY <1>2, <1>3, <1>4, <1>5, <1>6 DEF OptNext

(* After every pass every name an OUT statement reads is declared or       *)
(* counts a loop: coalescing deletes declarations and elimination deletes  *)
(* more, after the literals have become names.  What is assumed is what    *)
(* the passes do not look at: that no identifier of the program is one     *)
(* they make, that arrays are indexed by loops, and that no constant they  *)
(* did not propagate has a value they coalesce.                            *)
THEOREM NamesStayResolved ==
    GeneratedFresh /\ IndexedByCounters => (OptSpec /\ []KeptApart => []NamesResolved)
<1> SUFFICES ASSUME GeneratedFresh /\ IndexedByCounters
             PROVE  OptSpec /\ []KeptApart => []NamesResolved
  OBVIOUS
<1>1. OptInit => OptInv
  BY InvInit
<1>2. OptInv /\ KeptApart /\ [OptNext]_optVars => OptInv'
  BY InvStep
<1>3. OptInv => NamesResolved
  <2> SUFFICES ASSUME OptInv PROVE NamesResolved
    OBVIOUS
  <2>1. outs \in Seq(Expr) /\ decls \in Seq(Decl(AllNames))
    BY DEF OptInv, OptTypeOK
  <2>2. NamesIn(outs) \subseteq LoopNames \cup DeclNames(decls)
    BY <2>1, AllLeavesFacts DEF OptInv, Resolved
  <2>3. DeclNames(decls) = {decls[k].name : k \in DOMAIN decls}
    BY DEF DeclNames, Range
  <2>. QED
    BY <2>2, <2>3 DEF NamesResolved
<1>. QED
  BY <1>1, <1>2, <1>3, PTL DEF OptSpec

(* After every pass every OUT statement has the value it had as parsed,    *)
(* for all counters of the loops: numbers that became names, names that    *)
(* became numbers and declarations that went change no offset.             *)
THEOREM ValuesStay ==
    GeneratedFresh /\ IndexedByCounters => (OptSpec /\ []KeptApart => []ValuesPreserved)
<1> SUFFICES ASSUME GeneratedFresh /\ IndexedByCounters
             PROVE  OptSpec /\ []KeptApart => []ValuesPreserved
  OBVIOUS
<1>1. OptInit => OptInv /\ ValuesPreserved
  <2>1. OptInit => ValuesPreserved
    BY DEF OptInit, ValuesPreserved
  <2>. QED
    BY <2>1, InvInit
<1>2. OptInv /\ ValuesPreserved /\ KeptApart /\ [OptNext]_optVars
         => (OptInv /\ ValuesPreserved)'
  <2> SUFFICES ASSUME OptInv, ValuesPreserved, KeptApart, [OptNext]_optVars
               PROVE  OptInv' /\ ValuesPreserved'
    OBVIOUS
  <2>1. OptInv' /\ KeepsValues /\ source' = source
    BY InvStep
  <2>2. ValuesPreserved'
    BY <2>1 DEF ValuesPreserved, KeepsValues
  <2>. QED
    BY <2>1, <2>2
<1>. QED
  BY <1>1, <1>2, PTL DEF OptSpec

-----------------------------------------------------------------------------
(* Registers: how often a value is declared or written.                    *)

(* Each place of a kept sequence comes from a place of its own.            *)
LEMMA KeptFrom ==
    ASSUME NEW S, NEW s \in Seq(S), NEW T
    PROVE  \E h \in Injection(DOMAIN Kept(s, T), DOMAIN s) :
              \A i \in DOMAIN Kept(s, T) : Kept(s, T)[i] = s[h[i]]
<1> DEFINE N == Len(s)
<1>0. N \in Nat /\ DOMAIN s = 1 .. N /\ \A n \in 1 .. N : s[n] \in S
  OBVIOUS
<1>1. PICK kept : KeptSoFar(S, s, T, kept)
  BY KeptUnfold
<1>2. /\ kept \in [0 .. N -> Seq(S)]
      /\ kept[0] = <<>>
      /\ \A n \in 0 .. N - 1 :
            kept[n + 1] = IF s[n + 1] \in T THEN Append(kept[n], s[n + 1]) ELSE kept[n]
      /\ Kept(s, T) = kept[N]
  BY <1>1 DEF KeptSoFar
<1> HIDE DEF N
<1> DEFINE From(h, q, n) ==
              /\ h \in [1 .. Len(q) -> 1 .. n]
              /\ \A i, j \in 1 .. Len(q) : i # j => h[i] # h[j]
              /\ \A i \in 1 .. Len(q) : q[i] = s[h[i]]
           U == {n \in 0 .. N : \E h : From(h, kept[n], n)}
<1>3. 0 \in U
  <2>1. From(<<>>, <<>>, 0)
    OBVIOUS
  <2>2. 0 \in 0 .. N
    BY <1>0
  <2> HIDE DEF From
  <2>. QED
    BY <1>2, <2>1, <2>2
<1>4. ASSUME NEW n \in 0 .. N - 1, n \in U PROVE n + 1 \in U
  <2>1. n + 1 \in 1 .. N /\ n + 1 \in 0 .. N /\ n \in 0 .. N
    BY <1>0
  <2> DEFINE q == kept[n]
             p == kept[n + 1]
             L == Len(q)
  <2>2. PICK h : From(h, q, n)
    BY <1>4
  <2>3. q \in Seq(S) /\ L \in Nat /\ p = IF s[n + 1] \in T THEN Append(q, s[n + 1]) ELSE q
    BY <1>2, <2>1
  <2>4. s[n + 1] \in S
    BY <1>0, <2>1
  <2> HIDE DEF q, p
  <2>5. CASE s[n + 1] \in T
    <3> DEFINE g == [i \in 1 .. L + 1 |-> IF i = L + 1 THEN n + 1 ELSE h[i]]
    <3>1. /\ Len(p) = L + 1
          /\ \A i \in 1 .. L : p[i] = q[i]
          /\ p[L + 1] = s[n + 1]
      BY <2>3, <2>4, <2>5
    <3>2. /\ \A i \in 1 .. L : g[i] = h[i] /\ g[i] \in 1 .. n
          /\ g[L + 1] = n + 1
      <4>1. /\ \A i \in 1 .. L : i \in 1 .. L + 1 /\ i # L + 1
            /\ L + 1 \in 1 .. L + 1
        BY <2>3
      <4>2. \A i \in 1 .. L : h[i] \in 1 .. n
        BY <2>2
      <4>. QED
        BY <4>1, <4>2
    <3>3. \A i \in 1 .. L + 1 : i \in 1 .. L \/ i = L + 1
      BY <2>3
    <3>4. From(g, p, n + 1)
      <4>1. g \in [1 .. L + 1 -> 1 .. n + 1]
        <5>1. \A i \in 1 .. L + 1 : g[i] \in 1 .. n + 1
          BY <1>0, <3>2, <3>3
        <5>. QED
          BY <5>1
      <4> HIDE DEF g, L
      <4>2. \A i, j \in 1 .. L + 1 : i # j => g[i] # g[j]
        <5>1. \A i, j \in 1 .. L : i # j => g[i] # g[j]
          BY <2>2, <3>2 DEF L
        <5>2. \A i \in 1 .. L : g[i] # n + 1
          BY <2>1, <3>2
        <5>. QED
          BY <3>2, <3>3, <5>1, <5>2
      <4>3. \A i \in 1 .. L + 1 : p[i] = s[g[i]]
        BY <2>2, <3>1, <3>2, <3>3 DEF L
      <4>. QED
        BY <3>1, <4>1, <4>2, <4>3
    <3> HIDE DEF From, g
    <3>. QED
      BY <2>1, <3>4 DEF p
  <2>6. CASE s[n + 1] \notin T
    <3>1. p = q
      BY <2>3, <2>6
    <3>2. From(h, p, n + 1)
      <4>1. 1 .. n \subseteq 1 .. n + 1
        BY <2>1
      <4>. QED
        BY <2>2, <3>1, <4>1
    <3> HIDE DEF From
    <3>. QED
      BY <2>1, <3>2 DEF p
  <2>. QED
    BY <2>5, <2>6
<1>5. \A n \in 0 .. N : n \in U
  <2> HIDE DEF U
  <2>. QED
    BY <1>0, <1>3, <1>4, BoundedInduction
<1>6. PICK h : From(h, kept[N], N)
  <2>1. N \in 0 .. N
    BY <1>0
  <2>. QED
    BY <1>5, <2>1
<1>7. kept[N] \in Seq(S) /\ DOMAIN kept[N] = 1 .. Len(kept[N])
  <2>1. N \in 0 .. N
    BY <1>0
  <2>2. kept[N] \in Seq(S)
    BY <1>2, <2>1
  <2>. QED
    BY <2>2
<1>8. h \in Injection(DOMAIN kept[N], DOMAIN s)
  BY <1>0, <1>6, <1>7 DEF Injection, IsInjective
<1>9. \A i \in DOMAIN kept[N] : kept[N][i] = s[h[i]]
  BY <1>6, <1>7
<1>. QED
  BY <1>2, <1>8, <1>9

(* The places of a sequence of declarations that declare a value.          *)
Places(ds, v) == {k \in DOMAIN ds : IsConst(ds[k]) /\ ds[k].val = v}

(* A subsequence declares a value at no more places.                       *)
LEMMA PlacesKept ==
    ASSUME NEW S, NEW ds \in Seq(S), NEW T, NEW v
    PROVE  /\ IsFiniteSet(Places(ds, v)) /\ Cardinality(Places(ds, v)) \in Nat
           /\ IsFiniteSet(Places(Kept(ds, T), v))
           /\ Cardinality(Places(Kept(ds, T), v)) <= Cardinality(Places(ds, v))
<1> DEFINE es == Kept(ds, T)
<1>1. PICK h \in Injection(DOMAIN es, DOMAIN ds) : \A i \in DOMAIN es : es[i] = ds[h[i]]
  BY KeptFrom
<1>2. IsFiniteSet(Places(ds, v)) /\ Cardinality(Places(ds, v)) \in Nat
  <2>1. Len(ds) \in Nat /\ DOMAIN ds = 1 .. Len(ds)
    OBVIOUS
  <2>2. IsFiniteSet(DOMAIN ds)
    BY <2>1, FS_Interval
  <2>3. IsFiniteSet(Places(ds, v))
    BY <2>2, FS_Subset DEF Places
  <2>. QED
    BY <2>3, FS_CardinalityType
<1> HIDE DEF es
<1> DEFINE g == [i \in Places(es, v) |-> h[i]]
<1>3. g \in Injection(Places(es, v), Places(ds, v))
  <2>1. /\ h \in [DOMAIN es -> DOMAIN ds]
        /\ \A i, j \in DOMAIN es : h[i] = h[j] => i = j
    BY DEF Injection, IsInjective
  <2>2. \A i \in Places(es, v) : i \in DOMAIN es /\ h[i] \in Places(ds, v)
    BY <1>1, <2>1 DEF Places
  <2>3. g \in [Places(es, v) -> Places(ds, v)]
    BY <2>2
  <2>4. \A i, j \in Places(es, v) : g[i] = g[j] => i = j
    BY <2>1, <2>2
  <2>. QED
    BY <2>3, <2>4 DEF Injection, IsInjective
<1>. QED
  BY <1>2, <1>3, FS_Injection DEF es

(* Declarations put first add to the places only what they declare.        *)
LEMMA PlacesJoined ==
    ASSUME NEW S, NEW ds \in Seq(S), NEW es \in Seq(S), NEW v
    PROVE  /\ Places(ds, v) = {} => Cardinality(Places(ds \o es, v)) <= Cardinality(Places(es, v))
           /\ Places(es, v) = {} => Places(ds \o es, v) \subseteq Places(ds, v)
<1> DEFINE cs == ds \o es
<1>1. /\ cs \in Seq(S) /\ Len(cs) = Len(ds) + Len(es)
      /\ \A i \in 1 .. Len(ds) + Len(es) : cs[i] = IF i <= Len(ds) THEN ds[i] ELSE es[i - Len(ds)]
  BY ConcatProperties
<1>2. /\ Len(ds) \in Nat /\ DOMAIN ds = 1 .. Len(ds)
      /\ Len(es) \in Nat /\ DOMAIN es = 1 .. Len(es)
      /\ DOMAIN cs = 1 .. Len(ds) + Len(es)
  BY <1>1
<1> HIDE DEF cs
<1>3. ASSUME NEW k \in DOMAIN cs
      PROVE  \/ k \in DOMAIN ds /\ cs[k] = ds[k]
             \/ k - Len(ds) \in DOMAIN es /\ cs[k] = es[k - Len(ds)]
  BY <1>1, <1>2
<1>4. ASSUME Places(ds, v) = {}
      PROVE  Cardinality(Places(cs, v)) <= Cardinality(Places(es, v))
  <2> DEFINE g == [k \in Places(cs, v) |-> k - Len(ds)]
  <2>1. \A k \in Places(cs, v) : k \in Int /\ k - Len(ds) \in Places(es, v)
    <3> SUFFICES ASSUME NEW k \in Places(cs, v)
                 PROVE  k \in Int /\ k - Len(ds) \in Places(es, v)
      OBVIOUS
    <3>1. k \in DOMAIN cs /\ IsConst(cs[k]) /\ cs[k].val = v
      BY DEF Places
    <3>2. ~(k \in DOMAIN ds /\ cs[k] = ds[k])
      BY <1>4, <3>1 DEF Places
    <3>3. k - Len(ds) \in DOMAIN es /\ cs[k] = es[k - Len(ds)]
      BY <1>3, <3>1, <3>2
    <3>. QED
      BY <1>2, <3>1, <3>3 DEF Places
  <2>2. g \in Injection(Places(cs, v), Places(es, v))
    <3>1. g \in [Places(cs, v) -> Places(es, v)]
      BY <2>1
    <3>2. \A j, k \in Places(cs, v) : g[j] = g[k] => j = k
      BY <1>2, <2>1
    <3>. QED
      BY <3>1, <3>2 DEF Injection, IsInjective
  <2>3. IsFiniteSet(Places(es, v))
    BY PlacesKept
  <2>. QED
    BY <2>2, <2>3, FS_Injection
<1>5. ASSUME Places(es, v) = {}
      PROVE  Places(cs, v) \subseteq Places(ds, v)
  <2> SUFFICES ASSUME NEW k \in Places(cs, v) PROVE k \in Places(ds, v)
    OBVIOUS
  <2>1. k \in DOMAIN cs /\ IsConst(cs[k]) /\ cs[k].val = v
    BY DEF Places
  <2>2. ~(k - Len(ds) \in DOMAIN es /\ cs[k] = es[k - Len(ds)])
    BY <1>5, <2>1 DEF Places
  <2>. QED
    BY <1>3, <2>1, <2>2 DEF Places
<1>. QED
  BY <1>4, <1>5 DEF cs

(* The leaves of a sequence, each replaced.                                *)
Mapped(f, s) == [i \in DOMAIN s |-> f[s[i]]]

(* Replacing the leaves of a tree keeps their places.                      *)
LEMMA RewrittenLeaves ==
    ASSUME NEW f, \A l \in Leaf : f[l] \in Leaf, NEW e \in Expr
    PROVE  LeavesOf[Rewritten(f, e)] = Mapped(f, LeavesOf[e])
<1> DEFINE Same(x) == LeavesOf[Rewritten(f, x)] = Mapped(f, LeavesOf[x])
           T == {x \in Expr : Same(x)}
<1>1. Leaf \subseteq T
  <2> SUFFICES ASSUME NEW x \in Leaf PROVE x \in Expr /\ Same(x)
    OBVIOUS
  <2>1. x \in Expr /\ ~IsBinary(x) /\ f[x] \in Leaf /\ f[x] \in Expr /\ ~IsBinary(f[x])
    BY ExprBuilds, ExprCases
  <2>2. LeavesOf[x] = <<x>> /\ LeavesOf[f[x]] = <<f[x]>> /\ Rewritten(f, x) = f[x]
    BY <2>1, LeavesUnfold, RewriteFacts DEF LeavesOver
  <2>3. Mapped(f, <<x>>) = <<f[x]>>
    BY DEF Mapped
  <2>. QED
    BY <2>1, <2>2, <2>3
<1>2. ASSUME NEW x \in Expr, Node(x, Expr), x.left \in T, x.right \in T PROVE x \in T
  <2> DEFINE l == Rewritten(f, x.left)
             r == Rewritten(f, x.right)
             s == LeavesOf[x.left]
             t == LeavesOf[x.right]
  <2>1. x.left \in Expr /\ x.right \in Expr /\ LeavesOf[x] = s \o t
    BY <1>2, LeavesUnfold DEF LeavesOver, Node
  <2>2. LeavesOf[Rewritten(f, x)] = LeavesOf[l] \o LeavesOf[r]
    <3>1. Rewritten(f, x) = Binary(x.op, l, r) /\ Rewritten(f, x) \in Expr
      BY <1>2, RewriteFacts
    <3>2. LeavesOf[Binary(x.op, l, r)] = LeavesOf[l] \o LeavesOf[r]
      BY <3>1, LeavesUnfold DEF LeavesOver, Binary, IsBinary
    <3>. QED
      BY <3>1, <3>2
  <2>3. LeavesOf[l] = Mapped(f, s) /\ LeavesOf[r] = Mapped(f, t)
    BY <1>2
  <2>4. s \in Seq(Leaf) /\ t \in Seq(Leaf)
    BY <2>1, LeavesFacts
  <2> HIDE DEF l, r, s, t, Same
  <2>5. Mapped(f, s \o t) = Mapped(f, s) \o Mapped(f, t)
    <3>1. /\ s \o t \in Seq(Leaf) /\ Len(s \o t) = Len(s) + Len(t)
          /\ \A i \in 1 .. Len(s) + Len(t) :
                (s \o t)[i] = IF i <= Len(s) THEN s[i] ELSE t[i - Len(s)]
      BY <2>4, ConcatProperties
    <3>2. /\ Mapped(f, s) \in Seq(Leaf) /\ Len(Mapped(f, s)) = Len(s)
          /\ \A i \in 1 .. Len(s) : Mapped(f, s)[i] = f[s[i]]
      BY <2>4 DEF Mapped
    <3>3. /\ Mapped(f, t) \in Seq(Leaf) /\ Len(Mapped(f, t)) = Len(t)
          /\ \A i \in 1 .. Len(t) : Mapped(f, t)[i] = f[t[i]]
      BY <2>4 DEF Mapped
    <3> DEFINE p == Mapped(f, s) \o Mapped(f, t)
               q == Mapped(f, s \o t)
    <3>4. /\ p \in Seq(Leaf) /\ Len(p) = Len(s) + Len(t)
          /\ \A i \in 1 .. Len(s) + Len(t) :
                p[i] = IF i <= Len(s) THEN Mapped(f, s)[i] ELSE Mapped(f, t)[i - Len(s)]
      <4> DEFINE a == Mapped(f, s)
                 b == Mapped(f, t)
      <4>1. a \in Seq(Leaf) /\ b \in Seq(Leaf) /\ Len(a) = Len(s) /\ Len(b) = Len(t)
        BY <3>2, <3>3
      <4> HIDE DEF a, b
      <4>2. /\ a \o b \in Seq(Leaf) /\ Len(a \o b) = Len(a) + Len(b)
            /\ \A i \in 1 .. Len(a) + Len(b) :
                  (a \o b)[i] = IF i <= Len(a) THEN a[i] ELSE b[i - Len(a)]
        BY <4>1, ConcatProperties
      <4>. QED
        BY <4>1, <4>2 DEF a, b
    <3>5. /\ q \in Seq(Leaf) /\ Len(q) = Len(s) + Len(t)
          /\ \A i \in 1 .. Len(s) + Len(t) : q[i] = f[(s \o t)[i]]
      BY <3>1 DEF Mapped
    <3>6. Len(s) \in Nat /\ Len(t) \in Nat
      BY <2>4
    <3> HIDE DEF p, q
    <3>7. ASSUME NEW i \in 1 .. Len(s) + Len(t) PROVE p[i] = q[i]
      <4>1. CASE i <= Len(s)
        <5>1. i \in 1 .. Len(s)
          BY <3>6, <4>1
        <5>. QED
          BY <3>1, <3>2, <3>4, <3>5, <4>1, <5>1
      <4>2. CASE ~(i <= Len(s))
        <5>1. i - Len(s) \in 1 .. Len(t)
          BY <3>6, <4>2
        <5>. QED
          BY <3>1, <3>3, <3>4, <3>5, <4>2, <5>1
      <4>. QED
        BY <4>1, <4>2
    <3>8. p = q
      BY <3>4, <3>5, <3>6, <3>7
    <3>. QED
      BY <3>8 DEF p, q
  <2>. QED
    BY <2>1, <2>2, <2>3, <2>5 DEF Same
<1>3. Expr \subseteq T
  <2> HIDE DEF T
  <2>. QED
    BY <1>1, <1>2, TreeInduction
<1>. QED
  BY <1>3

(* The places of the leaves of the OUT statements.                         *)
LeafPlaces(os) == UNION {{k} \X DOMAIN LeavesOf[os[k]] : k \in DOMAIN os}

(* There are finitely many.                                                *)
LEMMA LeafPlacesFinite ==
    ASSUME NEW os \in Seq(Expr)
    PROVE  IsFiniteSet(LeafPlaces(os))
<1> DEFINE P(k) == {k} \X DOMAIN LeavesOf[os[k]]
           F == {P(k) : k \in DOMAIN os}
           g == [k \in DOMAIN os |-> P(k)]
<1>1. IsFiniteSet(DOMAIN os)
  <2>1. Len(os) \in Nat /\ DOMAIN os = 1 .. Len(os)
    OBVIOUS
  <2>. QED
    BY <2>1, FS_Interval
<1>2. IsFiniteSet(F)
  <2>1. g \in Surjection(DOMAIN os, F)
    BY DEF Surjection
  <2>. QED
    BY <1>1, <2>1, FS_Surjection
<1>3. ASSUME NEW k \in DOMAIN os PROVE IsFiniteSet(P(k))
  <2>1. LeavesOf[os[k]] \in Seq(Leaf)
    BY LeavesFacts
  <2> DEFINE n == Len(LeavesOf[os[k]])
  <2>2. n \in Nat /\ DOMAIN LeavesOf[os[k]] = 1 .. n
    BY <2>1
  <2>3. IsFiniteSet({k})
    BY FS_Singleton
  <2>4. IsFiniteSet(DOMAIN LeavesOf[os[k]])
    <3> HIDE DEF n
    <3>. QED
      BY <2>2, FS_Interval
  <2>. QED
    BY <2>3, <2>4, FS_Product
<1>4. \A X \in F : IsFiniteSet(X)
  BY <1>3
<1>5. IsFiniteSet(UNION F)
  <2> HIDE DEF F
  <2>. QED
    BY <1>2, <1>4, FS_UNION
<1>. QED
  BY <1>5 DEF LeafPlaces

(* The levels that run all passes.                                         *)
AllPasses == level \in {"OPT2", "OPTMAX"}

(* The last n passes of theirs.                                            *)
Left(n) ==
    CASE n = 6 -> <<"fold", "propagate", "fold", "propagate", "coalesce", "eliminate">>
      [] n = 5 -> <<"propagate", "fold", "propagate", "coalesce", "eliminate">>
      [] n = 4 -> <<"fold", "propagate", "coalesce", "eliminate">>
      [] n = 3 -> <<"propagate", "coalesce", "eliminate">>
      [] n = 2 -> <<"coalesce", "eliminate">>
      [] n = 1 -> <<"eliminate">>
      [] OTHER -> <<>>

(* Two rounds of folding and propagation, coalescing, elimination.         *)
LEMMA LeftStep ==
    ASSUME NEW n \in 0 .. 6, passes = Left(n)
    PROVE  /\ passes = <<>> <=> n = 0
           /\ Run("fold") => n \in {4, 6} /\ passes' = Left(n - 1)
           /\ Run("propagate") => n \in {3, 5} /\ passes' = Left(n - 1)
           /\ Run("coalesce") => n = 2 /\ passes' = Left(1)
           /\ Run("eliminate") => n = 1 /\ passes' = Left(0)
<1>1. /\ Tail(Left(6)) = Left(5) /\ Tail(Left(5)) = Left(4) /\ Tail(Left(4)) = Left(3)
      /\ Tail(Left(3)) = Left(2) /\ Tail(Left(2)) = Left(1) /\ Tail(Left(1)) = Left(0)
  BY DEF Left
<1>2. /\ Head(Left(6)) = "fold" /\ Head(Left(5)) = "propagate" /\ Head(Left(4)) = "fold"
      /\ Head(Left(3)) = "propagate" /\ Head(Left(2)) = "coalesce" /\ Head(Left(1)) = "eliminate"
  BY DEF Left
<1>3. Left(0) = <<>> /\ \A k \in 1 .. 6 : Left(k) # <<>>
  BY DEF Left
<1>4. n = 0 \/ n \in 1 .. 6
  OBVIOUS
<1>5. passes = <<>> <=> n = 0
  BY <1>3, <1>4
<1>6. ASSUME NEW k \in 1 .. 6
      PROVE  /\ Tail(Left(k)) = Left(k - 1)
             /\ Head(Left(k)) = "fold" => k \in {4, 6}
             /\ Head(Left(k)) = "propagate" => k \in {3, 5}
             /\ Head(Left(k)) = "coalesce" => k = 2
             /\ Head(Left(k)) = "eliminate" => k = 1
  <2>1. k = 1 \/ k = 2 \/ k = 3 \/ k = 4 \/ k = 5 \/ k = 6
    OBVIOUS
  <2>2. Tail(Left(k)) = Left(k - 1)
    <3>1. /\ (k = 1 => k - 1 = 0) /\ (k = 2 => k - 1 = 1) /\ (k = 3 => k - 1 = 2)
          /\ (k = 4 => k - 1 = 3) /\ (k = 5 => k - 1 = 4) /\ (k = 6 => k - 1 = 5)
      OBVIOUS
    <3>. QED
      BY <1>1, <2>1, <3>1, Zenon
  <2>. QED
    BY <1>2, <2>1, <2>2
<1>7. ASSUME NEW p, Run(p) PROVE n \in 1 .. 6 /\ Head(Left(n)) = p /\ passes' = Left(n - 1)
  BY <1>4, <1>5, <1>6, <1>7 DEF Run
<1>8. 2 - 1 = 1 /\ 1 - 1 = 0
  OBVIOUS
<1> HIDE DEF Run
<1>. QED
  BY <1>5, <1>6, <1>7, <1>8

(* Stages of the passes: after coalescing a value has one place, at the    *)
(* end what is declared is read.                                           *)
MinimalInv ==
    /\ OptTypeOK
    /\ AllPasses => \E n \in 0 .. 6 :
          /\ passes = Left(n)
          /\ n <= 1 => OneRegisterEach
          /\ n = 0 => NothingUnused

(* No value is coalesced twice.                                            *)
LEMMA SharedOnce ==
    ASSUME NEW shared, shared \subseteq Words, NEW values \in SetToSeqs(shared)
    PROVE  \A j, k \in DOMAIN values : values[j] = values[k] => j = k
BY DEF SetToSeqs

(* Coalescing leaves a value one place.                                    *)
LEMMA CoalesceMinimal ==
    ASSUME OptTypeOK, OptTypeOK', ConstantCoalesce
    PROVE  OneRegisterEach'
<1>1. /\ decls \in Seq(Decl(AllNames)) /\ outs \in Seq(Expr)
      /\ decls' \in Seq(Decl(AllNames)) /\ outs' \in Seq(Expr)
  BY DEF OptTypeOK
<1> DEFINE shared == {v \in Words : ToCoalesce(v)}
           T == {d \in Range(decls) : IsConst(d) => ~ToCoalesce(d.val)}
<1>2. PICK values \in SetToSeqs(shared) :
         /\ outs' = [k \in DOMAIN outs |-> Rewritten(Coalesced(values), outs[k])]
         /\ decls' = Shared(values) \o Kept(decls, T)
         /\ loops' = loops
  BY PassesRewrite
<1>3. shared \subseteq Words /\ shared = {v \in Words : ToCoalesce(v)}
  OBVIOUS
<1> DEFINE f == Coalesced(values)
           new == Shared(values)
           kept == Kept(decls, T)
<1>4. /\ \A l \in Leaf : f[l] \in Leaf
      /\ \A l \in Leaf : \/ f[l] = l /\ (IsInt(l) => ~ToCoalesce(l.val))
                         \/ /\ IsInt(l) /\ ToCoalesce(l.val)
                            /\ \E k \in DOMAIN values : f[l] = ID(GenIDString(k))
  BY <1>3, CoalescedFacts
<1>5. /\ new \in Seq(Decl(AllNames)) /\ kept \in Seq(Decl(AllNames))
      /\ Range(kept) = Range(decls) \cap T
      /\ decls' = new \o kept
  <2>1. new \in Seq(Decl(GeneratedNames)) /\ Decl(GeneratedNames) \subseteq Decl(AllNames)
    BY <1>3, SharedDecls DEF Decl, AllNames
  <2>2. new \in Seq(Decl(AllNames))
    <3> HIDE DEF new
    <3>. QED
      BY <2>1
  <2>3. kept \in Seq(Decl(AllNames)) /\ Range(kept) = Range(decls) \cap T
    BY <1>1, KeptFacts
  <2>. QED
    BY <1>2, <2>2, <2>3
<1>6. /\ DOMAIN new = DOMAIN values
      /\ \A k \in DOMAIN values : new[k].val = values[k] /\ values[k] \in shared
      /\ \A j, k \in DOMAIN values : values[j] = values[k] => j = k
  <2>1. \A j, k \in DOMAIN values : values[j] = values[k] => j = k
    BY <1>3, SharedOnce
  <2>2. \A k \in DOMAIN values : values[k] \in shared
    BY <1>3, SharedFacts
  <2>. QED
    BY <2>1, <2>2 DEF Shared, ConstDecl
<1> DEFINE Lits(v, os) == {p \in LeafPlaces(os) : LeavesOf[os[p[1]]][p[2]] = IntLit(v)}
<1>7. ASSUME NEW v
      PROVE  DeclPlaces(v) = Places(decls, v) /\ LiteralPlaces(v) = Lits(v, outs)
  BY DEF DeclPlaces, Places, LiteralPlaces, LeafPlaces
<1>8. \A v : DeclPlaces(v)' = Places(decls', v) /\ LiteralPlaces(v)' = Lits(v, outs')
  BY DEF DeclPlaces, Places, LiteralPlaces, LeafPlaces
<1>9. \A k \in DOMAIN outs : LeavesOf[outs'[k]] = Mapped(f, LeavesOf[outs[k]])
  <2>1. \A k \in DOMAIN outs : outs[k] \in Expr
    BY <1>1
  <2>. QED
    BY <1>2, <1>4, <2>1, RewrittenLeaves DEF f
<1>10. /\ LeafPlaces(outs') = LeafPlaces(outs)
       /\ \A p \in LeafPlaces(outs) :
             /\ LeavesOf[outs[p[1]]][p[2]] \in Leaf
             /\ LeavesOf[outs'[p[1]]][p[2]] = f[LeavesOf[outs[p[1]]][p[2]]]
  <2> HIDE DEF f
  <2>1. \A k \in DOMAIN outs : DOMAIN LeavesOf[outs'[k]] = DOMAIN LeavesOf[outs[k]]
    BY <1>9 DEF Mapped
  <2>2. DOMAIN outs' = DOMAIN outs
    BY <1>2
  <2>3. LeafPlaces(outs') = LeafPlaces(outs)
    BY <2>1, <2>2 DEF LeafPlaces
  <2>4. ASSUME NEW k \in DOMAIN outs, NEW i \in DOMAIN LeavesOf[outs[k]]
        PROVE  /\ LeavesOf[outs[k]][i] \in Leaf
               /\ LeavesOf[outs'[k]][i] = f[LeavesOf[outs[k]][i]]
    <3>1. LeavesOf[outs[k]] \in Seq(Leaf)
      BY <1>1, LeavesFacts
    <3> DEFINE s == LeavesOf[outs[k]]
    <3>2. LeavesOf[outs'[k]] = Mapped(f, s) /\ i \in DOMAIN s
      BY <1>9
    <3>3. s[i] \in Leaf
      BY <3>1
    <3> HIDE DEF s
    <3>4. Mapped(f, s)[i] = f[s[i]]
      BY <3>2 DEF Mapped
    <3>. QED
      BY <3>2, <3>3, <3>4 DEF s
  <2>5. \A p \in LeafPlaces(outs) : p[1] \in DOMAIN outs /\ p[2] \in DOMAIN LeavesOf[outs[p[1]]]
    BY DEF LeafPlaces
  <2>. QED
    BY <2>3, <2>4, <2>5
<1> SUFFICES ASSUME NEW v \in Words
             PROVE  Cardinality(Places(decls', v)) + Cardinality(Lits(v, outs')) <= 1
  BY <1>8 DEF OneRegisterEach
<1>11. IsInt(IntLit(v)) /\ IntLit(v).val = v /\ \A k : ID(GenIDString(k)) # IntLit(v)
  BY DEF IsInt, IntLit, ID
<1>12. CASE ToCoalesce(v)
  <2>1. Lits(v, outs') = {}
    BY <1>4, <1>10, <1>11, <1>12
  <2>2. Places(kept, v) = {}
    <3>1. \A k \in DOMAIN kept : kept[k] \in T
      BY <1>5 DEF Range
    <3>. QED
      BY <1>12, <3>1 DEF Places
  <2>3. Places(decls', v) \subseteq Places(new, v)
    BY <1>5, <2>2, PlacesJoined
  <2>4. PICK k : Places(new, v) \subseteq {k}
    BY <1>6 DEF Places
  <2>5. Cardinality(Places(decls', v)) <= 1 /\ Cardinality(Places(decls', v)) \in Nat
    <3>1. IsFiniteSet({k}) /\ Cardinality({k}) = 1
      BY FS_Singleton
    <3>2. Places(decls', v) \in SUBSET {k}
      BY <2>3, <2>4
    <3>3. IsFiniteSet(Places(decls', v)) /\ Cardinality(Places(decls', v)) <= Cardinality({k})
      BY <3>1, <3>2, FS_Subset
    <3>. QED
      BY <3>1, <3>3, FS_CardinalityType
  <2>6. Cardinality(Lits(v, outs')) = 0
    BY <2>1, FS_EmptySet
  <2>. QED
    BY <2>5, <2>6
<1>13. CASE ~ToCoalesce(v)
  <2>1. Lits(v, outs') = Lits(v, outs)
    BY <1>4, <1>10, <1>11, <1>13
  <2>2. Places(new, v) = {}
    BY <1>6, <1>13 DEF Places
  <2>3. Cardinality(Places(decls', v)) <= Cardinality(Places(kept, v))
    BY <1>5, <2>2, PlacesJoined
  <2>4. /\ Cardinality(Places(kept, v)) <= Cardinality(Places(decls, v))
        /\ IsFiniteSet(Places(decls, v)) /\ Cardinality(Places(decls, v)) \in Nat
        /\ IsFiniteSet(Places(kept, v))
    BY <1>1, PlacesKept
  <2>5. Cardinality(Places(kept, v)) \in Nat /\ Cardinality(Places(decls', v)) \in Nat
    BY <1>1, <2>4, PlacesKept, FS_CardinalityType
  <2>6. Cardinality(Lits(v, outs)) \in Nat
    BY <1>1, LeafPlacesFinite, FS_Subset, FS_CardinalityType
  <2>7. ~(Cardinality(Places(decls, v)) + Cardinality(Lits(v, outs)) > 1)
    BY <1>7, <1>13 DEF ToCoalesce, Collected
  <2> DEFINE before == Cardinality(Places(decls, v))
             left == Cardinality(Places(kept, v))
             after == Cardinality(Places(decls', v))
             lits == Cardinality(Lits(v, outs))
  <2>8. /\ before \in Nat /\ left \in Nat /\ after \in Nat /\ lits \in Nat
        /\ after <= left /\ left <= before /\ ~(before + lits > 1)
        /\ Cardinality(Lits(v, outs')) = lits
    BY <2>1, <2>3, <2>4, <2>5, <2>6, <2>7
  <2> HIDE DEF before, left, after, lits
  <2>9. after + lits <= 1
    BY <2>8
  <2>. QED
    BY <2>8, <2>9 DEF after
<1>. QED
  BY <1>12, <1>13

(* Elimination adds no place, and what it keeps is read.                   *)
LEMMA EliminateMinimal ==
    ASSUME OptTypeOK, OneRegisterEach, DeadCodeElimination
    PROVE  OneRegisterEach' /\ NothingUnused'
<1> DEFINE T == {d \in Range(decls) : IsUsed(d)}
<1>1. decls \in Seq(Decl(AllNames)) /\ outs \in Seq(Expr) /\ outs' = outs /\ decls' = Kept(decls, T)
  BY DEF OptTypeOK, DeadCodeElimination
<1>2. Range(decls') = Range(decls) \cap T
  BY <1>1, KeptFacts
<1>3. ASSUME NEW v \in Words
      PROVE  Cardinality(DeclPlaces(v)') + Cardinality(LiteralPlaces(v)') <= 1
  <2>1. DeclPlaces(v) = Places(decls, v) /\ DeclPlaces(v)' = Places(decls', v)
    BY DEF DeclPlaces, Places
  <2>2. LiteralPlaces(v) \subseteq LeafPlaces(outs) /\ LiteralPlaces(v)' = LiteralPlaces(v)
    BY <1>1 DEF LiteralPlaces, LeafPlaces
  <2> DEFINE before == Cardinality(Places(decls, v))
             after == Cardinality(Places(decls', v))
             lits == Cardinality(LiteralPlaces(v))
  <2>3. before \in Nat /\ after <= before /\ after \in Nat
    BY <1>1, PlacesKept, FS_CardinalityType
  <2>4. lits \in Nat
    BY <1>1, <2>2, LeafPlacesFinite, FS_Subset, FS_CardinalityType
  <2>5. before + lits <= 1
    BY <2>1 DEF OneRegisterEach
  <2> HIDE DEF before, after, lits
  <2>6. after + lits <= 1
    BY <2>3, <2>4, <2>5
  <2>. QED
    BY <2>1, <2>2, <2>6 DEF after, lits
<1>4. OneRegisterEach'
  BY <1>3 DEF OneRegisterEach
<1>5. ASSUME NEW k \in DOMAIN decls' PROVE decls'[k].name \in NamesIn(outs')
  <2>1. IsUsed(decls'[k])
    BY <1>2 DEF Range
  <2>2. PICK j \in DOMAIN outs : \E l \in Range(LeavesOf[outs[j]]) :
           ~IsInt(l) /\ l.name = decls'[k].name
    BY <2>1 DEF IsUsed
  <2>3. PICK l \in Range(LeavesOf[outs[j]]) : ~IsInt(l) /\ l.name = decls'[k].name
    BY <2>2
  <2>4. l.name \in NamesIn(outs)
    BY <2>3 DEF NamesIn
  <2>. QED
    BY <1>1, <2>3, <2>4
<1>. QED
  BY <1>4, <1>5 DEF NothingUnused

(* At the end the hardware has a register for what an OUT statement reads, *)
(* once, at the levels that run all passes: coalescing leaves no value two *)
(* places, elimination none that is not read, and makes none.              *)
THEOREM RegistersStayMinimal == OptSpec => []RegistersMinimal
<1>1. OptInit => MinimalInv
  <2> SUFFICES ASSUME OptInit PROVE MinimalInv
    OBVIOUS
  <2>1. AllPasses => passes = Left(6)
    BY DEF OptInit, AllPasses, Schedule, Left
  <2>2. 6 \in 0 .. 6 /\ ~(6 <= 1) /\ 6 # 0
    OBVIOUS
  <2>. QED
    BY <2>1, <2>2, TypeInit DEF MinimalInv
<1>2. MinimalInv /\ [OptNext]_optVars => MinimalInv'
  <2> SUFFICES ASSUME MinimalInv, [OptNext]_optVars PROVE MinimalInv'
    OBVIOUS
  <2>1. OptTypeOK /\ OptTypeOK'
    BY TypeStep DEF MinimalInv
  <2>2. AllPasses' => AllPasses
    BY DEF AllPasses, optVars, OptNext, ConstantFold, ConstantPropagation, ConstantCoalesce,
           DeadCodeElimination, Run
  <2> SUFFICES ASSUME AllPasses
               PROVE  \E n \in 0 .. 6 : /\ passes' = Left(n)
                                        /\ n <= 1 => OneRegisterEach'
                                        /\ n = 0 => NothingUnused'
    BY <2>1, <2>2 DEF MinimalInv
  <2>3. PICK n \in 0 .. 6 : /\ passes = Left(n)
                            /\ n <= 1 => OneRegisterEach
                            /\ n = 0 => NothingUnused
    BY DEF MinimalInv
  <2>4. CASE UNCHANGED optVars
    <3>1. (OneRegisterEach' <=> OneRegisterEach) /\ (NothingUnused' <=> NothingUnused)
      BY <2>4 DEF optVars, OneRegisterEach, DeclPlaces, LiteralPlaces, NothingUnused
    <3>. QED
      BY <2>3, <2>4, <3>1 DEF optVars
  <2>5. CASE ConstantFold \/ ConstantPropagation
    <3>1. n \in {3, 4, 5, 6} /\ passes' = Left(n - 1)
      BY <2>3, <2>5, LeftStep DEF ConstantFold, ConstantPropagation
    <3>2. n - 1 \in 0 .. 6 /\ ~(n - 1 <= 1) /\ n - 1 # 0
      BY <3>1
    <3>. QED
      BY <3>1, <3>2
  <2>6. CASE ConstantCoalesce
    <3>1. passes' = Left(1)
      BY <2>3, <2>6, LeftStep DEF ConstantCoalesce
    <3>2. OneRegisterEach'
      BY <2>1, <2>6, CoalesceMinimal
    <3>3. 1 \in 0 .. 6 /\ 1 # 0
      OBVIOUS
    <3>. QED
      BY <3>1, <3>2, <3>3
  <2>7. CASE DeadCodeElimination
    <3>1. n = 1 /\ passes' = Left(0)
      BY <2>3, <2>7, LeftStep DEF DeadCodeElimination
    <3>2. OneRegisterEach' /\ NothingUnused'
      BY <2>1, <2>3, <2>7, <3>1, EliminateMinimal
    <3>3. 0 \in 0 .. 6
      OBVIOUS
    <3>. QED
      BY <3>1, <3>2, <3>3
  <2>. QED
    BY <2>4, <2>5, <2>6, <2>7 DEF OptNext
<1>3. MinimalInv => RegistersMinimal
  <2> SUFFICES ASSUME MinimalInv, passes = <<>>, AllPasses
               PROVE  OneRegisterEach /\ NothingUnused
    BY DEF RegistersMinimal, Finished, AllPasses
  <2>1. PICK n \in 0 .. 6 : /\ passes = Left(n)
                            /\ n <= 1 => OneRegisterEach
                            /\ n = 0 => NothingUnused
    BY DEF MinimalInv
  <2>2. n = 0 /\ 0 <= 1
    BY <2>1, LeftStep
  <2>. QED
    BY <2>1, <2>2
<1>. QED
  BY <1>1, <1>2, <1>3, PTL DEF OptSpec

-----------------------------------------------------------------------------
(* What is within a tree, and what is left to fold.                        *)

(* The equation of Subtrees: a tree holds itself and what is in its parts. *)
SubtreesOver(f, e) == IF IsBinary(e) THEN {e} \cup f[e.left] \cup f[e.right] ELSE {e}

(* The trees within a tree are a function of it.                           *)
LEMMA SubtreesUnfold ==
    \A e \in Expr : Subtrees[e] = SubtreesOver(Subtrees, e)
<1> DEFINE S == SUBSET Expr
           a == [l \in Leaf |-> {l}]
           b == [x \in Expr \X S \X S |-> {x[1]} \cup x[2] \cup x[3]]
<1>1. \A l \in Leaf : a[l] = {l} /\ a[l] \in S
  BY ExprBuilds
<1>2. ASSUME NEW e \in Expr, NEW x \in S, NEW y \in S
      PROVE  b[<<e, x, y>>] = {e} \cup x \cup y /\ b[<<e, x, y>>] \in S
  OBVIOUS
<1> HIDE DEF a, b, S
<1>3. PICK f : Walk(a, b, f)
  BY TreeRecursion
<1>4. f = [e \in Expr |-> Over(a, b, f, e)] /\ f \in [Expr -> S]
  BY <1>1, <1>2, <1>3, WalkType
<1>5. ASSUME NEW e \in Expr PROVE Over(a, b, f, e) = SubtreesOver(f, e)
  <2>1. CASE e \in Leaf /\ ~IsBinary(e)
    BY <1>1, <2>1 DEF Over, SubtreesOver
  <2>2. CASE Node(e, Expr)
    <3>1. IsBinary(e) /\ f[e.left] \in S /\ f[e.right] \in S
      BY <1>4, <2>2 DEF Node
    <3>2. b[<<e, f[e.left], f[e.right]>>] = {e} \cup f[e.left] \cup f[e.right]
      BY <1>2, <3>1
    <3>. QED
      BY <3>1, <3>2 DEF Over, SubtreesOver
  <2>. QED
    BY <2>1, <2>2, TreeCases
<1>6. f = [e \in Expr |-> SubtreesOver(f, e)]
  BY <1>4, <1>5
<1>7. Subtrees = [e \in Expr |-> SubtreesOver(Subtrees, e)]
  BY <1>6 DEF Subtrees, SubtreesOver
<1>. QED
  BY <1>7

(* A leaf, or an operator and what is within its operands.                 *)
LEMMA SubtreesFacts ==
    /\ \A e \in Leaf : Subtrees[e] = {e}
    /\ \A e \in Expr : Node(e, Expr) =>
          Subtrees[e] = {e} \cup Subtrees[e.left] \cup Subtrees[e.right]
    /\ \A e \in Expr : Subtrees[e] \subseteq Expr
<1>1. ASSUME NEW e \in Leaf PROVE Subtrees[e] = {e}
  BY ExprBuilds, ExprCases, SubtreesUnfold DEF SubtreesOver
<1>2. ASSUME NEW e \in Expr, Node(e, Expr)
      PROVE  Subtrees[e] = {e} \cup Subtrees[e.left] \cup Subtrees[e.right]
  BY <1>2, SubtreesUnfold DEF SubtreesOver, Node
<1> DEFINE T == {e \in Expr : Subtrees[e] \subseteq Expr}
<1>3. Leaf \subseteq T
  BY <1>1, ExprBuilds
<1>4. \A e \in Expr : Node(e, Expr) /\ e.left \in T /\ e.right \in T => e \in T
  BY <1>2
<1>5. Expr \subseteq T
  <2> HIDE DEF T
  <2>. QED
    BY <1>3, <1>4, TreeInduction
<1>. QED
  BY <1>1, <1>2, <1>5

(* An operator over two numbers, which folding replaces.                   *)
Foldable(e) == IsBinary(e) /\ IsInt(e.left) /\ IsInt(e.right)

(* Folding leaves no operator over two numbers.                            *)
LEMMA FoldedWhole ==
    \A e \in Expr : \A x \in Subtrees[ConstFold[e]] : ~Foldable(x)
<1> DEFINE T == {e \in Expr : \A x \in Subtrees[ConstFold[e]] : ~Foldable(x)}
<1>1. ASSUME NEW e \in Leaf PROVE e \in T
  <2>1. e \in Expr /\ ~IsBinary(e) /\ ConstFold[e] = e /\ Subtrees[e] = {e}
    BY ExprBuilds, ExprCases, FoldFacts, SubtreesFacts
  <2>. QED
    BY <2>1 DEF Foldable
<1>2. ASSUME NEW e \in Expr, Node(e, Expr), e.left \in T, e.right \in T PROVE e \in T
  <2> DEFINE l == ConstFold[e.left]
             r == ConstFold[e.right]
             n == Binary(e.op, l, r)
  <2>1. ConstFold[e] = Folded(e.op, l, r) /\ ConstFold[e] \in Expr /\ l \in Expr /\ r \in Expr
    BY <1>2, FoldFacts DEF Node
  <2>2. \A x \in Subtrees[l] \cup Subtrees[r] : ~Foldable(x)
    BY <1>2
  <2>3. e.op \in Ops
    BY <1>2 DEF Node
  <2> HIDE DEF l, r
  <2>4. CASE IsInt(l) /\ IsInt(r)
    <3>1. l.val \in Words /\ r.val \in Words
      BY <2>1, <2>4, IntLeaves
    <3>2. FoldValue(e.op, l.val, r.val) \in Words
      BY <2>3, <3>1, CalculatedFacts
    <3>3. ConstFold[e] \in Leaf /\ ~IsBinary(ConstFold[e])
      BY <2>1, <2>4, <3>2, IntLeaves, ExprCases DEF Folded
    <3>4. Subtrees[ConstFold[e]] = {ConstFold[e]}
      BY <3>3, SubtreesFacts
    <3>. QED
      BY <3>3, <3>4 DEF Foldable
  <2>5. CASE ~(IsInt(l) /\ IsInt(r))
    <3>1. ConstFold[e] = n
      BY <2>1, <2>5 DEF Folded
    <3>2. n \in Expr /\ n.left = l /\ n.right = r /\ IsBinary(n) /\ n.op = e.op
      BY <2>1, <3>1 DEF Binary, IsBinary
    <3> HIDE DEF n
    <3>3. Node(n, Expr)
      BY <2>1, <2>3, <3>2 DEF Node, n
    <3>4. Subtrees[n] = {n} \cup Subtrees[l] \cup Subtrees[r]
      BY <3>2, <3>3, SubtreesFacts
    <3>5. ~Foldable(n)
      BY <2>5, <3>2 DEF Foldable
    <3>. QED
      BY <2>2, <3>1, <3>4, <3>5
  <2>. QED
    BY <2>4, <2>5
<1>3. Expr \subseteq T
  <2> HIDE DEF T
  <2>. QED
    BY <1>1, <1>2, TreeInduction
<1>. QED
  BY <1>3

(* Folding a tree of numbers leaves a number.                              *)
LEMMA NumbersFold ==
    \A e \in Expr : (\A l \in LeafSet(e) : IsInt(l)) => IsInt(ConstFold[e])
<1> DEFINE T == {e \in Expr : (\A l \in LeafSet(e) : IsInt(l)) => IsInt(ConstFold[e])}
<1>1. ASSUME NEW e \in Leaf PROVE e \in T
  <2>1. e \in Expr /\ ConstFold[e] = e
    BY ExprBuilds, FoldFacts
  <2>2. LeafSet(e) = {e}
    BY <2>1, LeavesFacts
  <2>. QED
    BY <2>1, <2>2
<1>2. ASSUME NEW e \in Expr, Node(e, Expr), e.left \in T, e.right \in T PROVE e \in T
  <2>1. LeafSet(e) = LeafSet(e.left) \cup LeafSet(e.right)
    BY <1>2, LeavesFacts
  <2>2. ConstFold[e] = Folded(e.op, ConstFold[e.left], ConstFold[e.right])
    BY <1>2, FoldFacts
  <2>. QED
    BY <1>2, <2>1, <2>2 DEF Folded, IsInt, IntLit
<1>3. Expr \subseteq T
  <2> HIDE DEF T
  <2>. QED
    BY <1>1, <1>2, TreeInduction
<1>. QED
  BY <1>3

(* A tree none of whose leaves is replaced stays.                          *)
LEMMA RewriteNothing ==
    ASSUME NEW f, \A l \in Leaf : f[l] \in Leaf
    PROVE  \A e \in Expr : (\A l \in LeafSet(e) : f[l] = l) => Rewritten(f, e) = e
<1> DEFINE T == {e \in Expr : (\A l \in LeafSet(e) : f[l] = l) => Rewritten(f, e) = e}
<1>1. ASSUME NEW e \in Leaf PROVE e \in T
  <2>1. e \in Expr /\ Rewritten(f, e) = f[e]
    BY ExprBuilds, RewriteFacts
  <2>2. LeafSet(e) = {e}
    BY <2>1, LeavesFacts
  <2>. QED
    BY <2>1, <2>2
<1>2. ASSUME NEW e \in Expr, Node(e, Expr), e.left \in T, e.right \in T PROVE e \in T
  <2>1. LeafSet(e) = LeafSet(e.left) \cup LeafSet(e.right)
    BY <1>2, LeavesFacts
  <2>2. Rewritten(f, e) = Binary(e.op, Rewritten(f, e.left), Rewritten(f, e.right))
    BY <1>2, RewriteFacts
  <2>3. e = Binary(e.op, e.left, e.right)
    BY <1>2 DEF Node
  <2>. QED
    BY <1>2, <2>1, <2>2, <2>3
<1>3. Expr \subseteq T
  <2> HIDE DEF T
  <2>. QED
    BY <1>1, <1>2, TreeInduction
<1>. QED
  BY <1>3

(* What is within a rewritten tree is the rewriting of what is within it.  *)
LEMMA RewriteSubtrees ==
    ASSUME NEW f, \A l \in Leaf : f[l] \in Leaf
    PROVE  \A e \in Expr : \A y \in Subtrees[Rewritten(f, e)] :
              \E x \in Subtrees[e] : y = Rewritten(f, x)
<1> DEFINE T == {e \in Expr : \A y \in Subtrees[Rewritten(f, e)] :
                                 \E x \in Subtrees[e] : y = Rewritten(f, x)}
<1>1. ASSUME NEW e \in Leaf PROVE e \in T
  <2>1. e \in Expr /\ Rewritten(f, e) = f[e] /\ Subtrees[e] = {e} /\ Subtrees[f[e]] = {f[e]}
    BY ExprBuilds, RewriteFacts, SubtreesFacts
  <2>. QED
    BY <2>1
<1>2. ASSUME NEW e \in Expr, Node(e, Expr), e.left \in T, e.right \in T PROVE e \in T
  <2> DEFINE l == Rewritten(f, e.left)
             r == Rewritten(f, e.right)
             n == Rewritten(f, e)
  <2>1. Subtrees[e] = {e} \cup Subtrees[e.left] \cup Subtrees[e.right]
    BY <1>2, SubtreesFacts
  <2>2. n \in Expr /\ l \in Expr /\ r \in Expr /\ n = Binary(e.op, l, r) /\ e.op \in Ops
    BY <1>2, RewriteFacts DEF Node
  <2> HIDE DEF l, r, n
  <2>3. n.left = l /\ n.right = r /\ IsBinary(n) /\ n.op = e.op
    BY <2>2 DEF Binary, IsBinary
  <2>4. Node(n, Expr)
    BY <2>2, <2>3 DEF Node
  <2>5. Subtrees[n] = {n} \cup Subtrees[l] \cup Subtrees[r]
    BY <2>2, <2>3, <2>4, SubtreesFacts
  <2>. QED
    BY <1>2, <2>1, <2>5 DEF l, r, n
<1>3. Expr \subseteq T
  <2> HIDE DEF T
  <2>. QED
    BY <1>1, <1>2, TreeInduction
<1>. QED
  BY <1>3

(* The leaves of what is within a tree are leaves of it.                   *)
LEMMA SubtreeLeaves ==
    \A e \in Expr : \A x \in Subtrees[e] : LeafSet(x) \subseteq LeafSet(e)
<1> DEFINE T == {e \in Expr : \A x \in Subtrees[e] : LeafSet(x) \subseteq LeafSet(e)}
<1>1. ASSUME NEW e \in Leaf PROVE e \in T
  BY ExprBuilds, SubtreesFacts
<1>2. ASSUME NEW e \in Expr, Node(e, Expr), e.left \in T, e.right \in T PROVE e \in T
  <2>1. LeafSet(e) = LeafSet(e.left) \cup LeafSet(e.right)
    BY <1>2, LeavesFacts
  <2>2. Subtrees[e] = {e} \cup Subtrees[e.left] \cup Subtrees[e.right]
    BY <1>2, SubtreesFacts
  <2>. QED
    BY <1>2, <2>1, <2>2
<1>3. Expr \subseteq T
  <2> HIDE DEF T
  <2>. QED
    BY <1>1, <1>2, TreeInduction
<1>. QED
  BY <1>3

(* The compiler knows the value of a leaf, as Known has it of the          *)
(* declarations as they stand.                                             *)
KnownIn(ds, e) ==
    \/ IsInt(e)
    \/ e.tag = "id" /\ \E d \in Range(ds) : IsConst(d) /\ d.name = e.name /\ d.opt

(* No constant that may be propagated has the value FindConstant returns   *)
(* for a name it does not know.                                            *)
KnownConstants ==
    \A p \in Programs : \A d \in Range(p.decls) : IsConst(d) /\ d.opt => d.val # NotFound

(* The bounds of the loops are made of numbers and such constants.         *)
ConstantBounds ==
    \A p \in Programs : \A k \in DOMAIN p.loops : \A l \in LeafSet(p.loops[k].bound) :
        KnownIn(p.decls, l)

(* A bound is evaluated where no loop runs.                                *)
NoCounters == [n \in {} |-> 0]

(* The bounds have the values they had as parsed, and those are known.     *)
BoundsKept ==
    \A k \in DOMAIN loops :
        /\ Value(decls, NoCounters, loops[k].bound)
             = Value(source.decls, NoCounters, source.loops[k].bound)
        /\ \A l \in LeafSet(loops[k].bound) : KnownIn(decls, l)

BoundsOfNumbers == \A k \in DOMAIN loops : \A l \in LeafSet(loops[k].bound) : IsInt(l)

(* No OUT statement has an operator over two numbers.                      *)
Whole(os) == \A k \in DOMAIN os : \A x \in Subtrees[os[k]] : ~Foldable(x)

(* What holds when n passes are left.  A round of folding and propagation  *)
(* leaves no name that can be propagated, the folding of the second round  *)
(* no operator over two numbers, and its propagation nothing to do: that   *)
(* is why one round is not enough, and two are.                            *)
FoldStage(n) ==
    /\ n >= 2 => decls = source.decls /\ Unique(decls) /\ Written(outs)
    /\ n >= 4 => BoundsKept
    /\ n = 4 => BoundsOfNumbers
    /\ n \in 2 .. 4 => Settled(decls, outs)
    /\ n \in 2 .. 3 => Whole(outs)
    /\ n <= 3 => BoundsCollapse
    /\ n <= 1 => FullyFolded

FoldInv ==
    /\ OptTypeOK
    /\ source \in Programs /\ DOMAIN loops = DOMAIN source.loops
    /\ AllPasses => \E n \in 0 .. 6 : passes = Left(n) /\ FoldStage(n)

(* The bounds a pass replaces.                                             *)
LEMMA NewBounds ==
    ASSUME NEW ls \in Seq([name : Names, bound : Expr]), NEW g
    PROVE  /\ DOMAIN Bounds(g, ls) = DOMAIN ls
           /\ \A k \in DOMAIN ls : ls[k].bound \in Expr /\ Bounds(g, ls)[k].bound = g[k]
<1>1. ASSUME NEW k \in DOMAIN ls
      PROVE  ls[k].bound \in Expr /\ Bounds(g, ls)[k].bound = g[k]
  <2>1. ls[k] \in [name : Names, bound : Expr]
    BY SeqElements
  <2>. QED
    BY <2>1 DEF Bounds
<1>. QED
  BY <1>1 DEF Bounds

(* Folding keeps the names there are, and the values of the bounds; with   *)
(* all names propagated it makes the bounds numbers.                       *)
LEMMA FoldStages ==
    ASSUME OptTypeOK, DOMAIN loops = DOMAIN source.loops, ConstantFold,
           NEW n \in {4, 6}, FoldStage(n)
    PROVE  DOMAIN loops' = DOMAIN loops /\ FoldStage(n - 1)'
<1>1. /\ decls \in Seq(Decl(AllNames)) /\ loops \in Seq([name : Names, bound : Expr])
      /\ outs \in Seq(Expr)
  BY TypeParts
<1>2. decls = source.decls /\ Unique(decls) /\ Written(outs) /\ BoundsKept
  BY DEF FoldStage
<1> DEFINE g == [k \in DOMAIN loops |-> ConstFold[loops[k].bound]]
<1>3. /\ outs' = [k \in DOMAIN outs |-> ConstFold[outs[k]]]
      /\ loops' = Bounds(g, loops)
      /\ decls' = decls /\ source' = source
  BY PassesRewrite DEF ConstantFold, Run
<1>4. /\ DOMAIN loops' = DOMAIN loops
      /\ \A k \in DOMAIN loops : /\ loops[k].bound \in Expr
                                 /\ loops'[k].bound = ConstFold[loops[k].bound]
  <2> HIDE DEF g
  <2>1. /\ DOMAIN Bounds(g, loops) = DOMAIN loops
        /\ \A k \in DOMAIN loops : loops[k].bound \in Expr /\ Bounds(g, loops)[k].bound = g[k]
    BY <1>1, NewBounds
  <2>. QED
    BY <1>3, <2>1 DEF g
<1>5. \A k \in DOMAIN outs : outs[k] \in Expr
  BY <1>1
<1>6. \A m \in AllLeaves(outs') : IsInt(m) \/ m \in AllLeaves(outs)
  BY <1>3, <1>5, FoldLeaves DEF AllLeaves
<1>7. Written(outs') /\ (Settled(decls, outs) => Settled(decls', outs'))
  BY <1>2, <1>3, <1>6, NamesCarried
<1>8. Valued(decls, NoCounters)
  <2>1. NoCounters \in [{} -> Words]
    BY DEF NoCounters
  <2>. QED
    BY <1>1, <1>2, <2>1, ValuedFacts
<1>9. BoundsKept'
  <2>1. ASSUME NEW k \in DOMAIN loops
        PROVE  /\ Value(decls, NoCounters, loops'[k].bound)
                    = Value(source.decls, NoCounters, source.loops[k].bound)
               /\ \A l \in LeafSet(loops'[k].bound) : KnownIn(decls, l)
    <3>1. Value(decls, NoCounters, ConstFold[loops[k].bound])
             = Value(decls, NoCounters, loops[k].bound)
      BY <1>4, <1>8, FoldKeepsValue
    <3>2. \A l \in LeafSet(ConstFold[loops[k].bound]) :
             IsInt(l) \/ l \in LeafSet(loops[k].bound)
      BY <1>4, FoldLeaves
    <3>. QED
      BY <1>2, <1>4, <3>1, <3>2 DEF BoundsKept, KnownIn
  <2>. QED
    BY <1>3, <1>4, <2>1 DEF BoundsKept, NoCounters
<1>10. CASE n = 6
  <2>1. n - 1 = 5 /\ 5 \notin 2 .. 4 /\ 5 \notin 2 .. 3 /\ ~(5 <= 3) /\ ~(5 <= 1) /\ 5 # 4
    BY <1>10
  <2>2. FoldStage(5)'
    BY <1>2, <1>3, <1>7, <1>9, <2>1 DEF FoldStage
  <2>. QED
    BY <1>4, <2>1, <2>2
<1>11. CASE n = 4
  <2>1. n - 1 = 3 /\ ~(3 >= 4) /\ ~(3 <= 1) /\ 3 # 4 /\ n \in 2 .. 4
    BY <1>11
  <2>2. Settled(decls, outs) /\ BoundsOfNumbers
    BY <1>11, <2>1 DEF FoldStage
  <2>3. Whole(outs')
    BY <1>3, <1>5, FoldedWhole DEF Whole
  <2>4. ASSUME NEW k \in DOMAIN loops
        PROVE  /\ IsInt(loops'[k].bound)
               /\ loops'[k].bound.val = Value(source.decls, NoCounters, source.loops[k].bound)
    <3> DEFINE b == loops'[k].bound
    <3>1. IsInt(b) /\ b \in Expr
      BY <1>4, <2>2, NumbersFold, FoldFacts DEF BoundsOfNumbers
    <3>2. Value(decls, NoCounters, b) = Value(source.decls, NoCounters, source.loops[k].bound)
      BY <1>3, <1>4, <1>9 DEF BoundsKept, NoCounters
    <3> HIDE DEF b
    <3>3. Value(decls, NoCounters, b) = b.val
      <4>1. b \in Leaf
        BY <3>1, IntLeaves
      <4>2. LeafValue(decls, NoCounters, b) = b.val
        BY <3>1 DEF LeafValue, IsInt
      <4>. QED
        BY <1>8, <4>1, <4>2, ValueFacts
    <3>. QED
      BY <3>1, <3>2, <3>3 DEF b
  <2>5. BoundsCollapse'
    BY <1>3, <1>4, <2>4 DEF BoundsCollapse, NoCounters
  <2>6. FoldStage(3)'
    BY <1>2, <1>3, <1>7, <2>1, <2>2, <2>3, <2>5 DEF FoldStage
  <2>. QED
    BY <1>4, <2>1, <2>6
<1>. QED
  BY <1>10, <1>11

(* A name is propagated when a constant that may be declares it, and its   *)
(* value is not the one FindConstant returns for no constant.              *)
LEMMA KnownPropagates ==
    ASSUME NEW ds \in Seq(Decl(AllNames)), Unique(ds),
           \A d \in Range(ds) : IsConst(d) /\ d.opt => d.val # NotFound,
           NEW l, l.tag = "id", KnownIn(ds, l)
    PROVE  FindConstant(ds, l.name) # NotFound
<1>1. PICK d \in Range(ds) : IsConst(d) /\ d.name = l.name /\ d.opt
  BY DEF KnownIn, IsInt
<1>2. d \in ConstantOf(ds, l.name)
  BY <1>1 DEF ConstantOf
<1>. QED
  BY <1>1, <1>2, FindConstantFacts

(* The first propagation leaves no name to propagate; the second changes   *)
(* nothing.                                                                *)
LEMMA PropagateStages ==
    ASSUME OptTypeOK, DOMAIN loops = DOMAIN source.loops, source \in Programs, KnownConstants,
           ConstantPropagation, NEW n \in {3, 5}, FoldStage(n)
    PROVE  DOMAIN loops' = DOMAIN loops /\ FoldStage(n - 1)'
<1>1. /\ decls \in Seq(Decl(AllNames)) /\ loops \in Seq([name : Names, bound : Expr])
      /\ outs \in Seq(Expr)
  BY TypeParts
<1>2. decls = source.decls /\ Unique(decls) /\ Written(outs)
  BY DEF FoldStage
<1> DEFINE f == Propagated(decls)
           g == [k \in DOMAIN loops |-> Rewritten(f, loops[k].bound)]
<1>3. /\ outs' = [k \in DOMAIN outs |-> Rewritten(f, outs[k])]
      /\ loops' = Bounds(g, loops)
      /\ decls' = decls /\ source' = source
  BY PassesRewrite DEF ConstantPropagation, Run
<1>4. /\ DOMAIN loops' = DOMAIN loops
      /\ \A k \in DOMAIN loops : /\ loops[k].bound \in Expr
                                 /\ loops'[k].bound = Rewritten(f, loops[k].bound)
  <2> HIDE DEF g, f
  <2>1. /\ DOMAIN Bounds(g, loops) = DOMAIN loops
        /\ \A k \in DOMAIN loops : loops[k].bound \in Expr /\ Bounds(g, loops)[k].bound = g[k]
    BY <1>1, NewBounds
  <2>. QED
    BY <1>3, <2>1 DEF g
<1> HIDE DEF g
<1>5. \A l \in Leaf :
         /\ f[l] \in Leaf
         /\ \/ f[l] = l /\ (l.tag = "id" => FindConstant(decls, l.name) = NotFound)
            \/ /\ l.tag = "id" /\ FindConstant(decls, l.name) # NotFound
               /\ f[l] = IntLit(FindConstant(decls, l.name))
         /\ LeafValue(decls, NoCounters, f[l]) = LeafValue(decls, NoCounters, l)
  BY <1>1, <1>2, PropagatedType, PropagatedFacts
<1> HIDE DEF f
<1>6. \A v : IsInt(IntLit(v))
  BY DEF IsInt, IntLit
<1>7. \A k \in DOMAIN outs : outs[k] \in Expr /\ LeafSet(outs[k]) \subseteq Leaf
  BY <1>1, LeavesFacts
<1>8. CASE n = 5
  <2>1. n - 1 = 4 /\ 4 \notin 2 .. 3 /\ ~(4 <= 3) /\ ~(4 <= 1) /\ 4 \in 2 .. 4
    BY <1>8
  <2>2. BoundsKept
    BY <1>8 DEF FoldStage
  <2>3. \A m \in AllLeaves(outs') : \E l \in AllLeaves(outs) : l \in Leaf /\ m = f[l]
    BY <1>3, <1>5, <1>7, RewriteLeaves DEF AllLeaves
  <2>4. \A m \in AllLeaves(outs') :
           \/ IsInt(m)
           \/ m \in AllLeaves(outs) /\ (m.tag = "id" => FindConstant(decls, m.name) = NotFound)
    <3> SUFFICES ASSUME NEW m \in AllLeaves(outs'), ~IsInt(m)
                 PROVE  /\ m \in AllLeaves(outs)
                        /\ m.tag = "id" => FindConstant(decls, m.name) = NotFound
      OBVIOUS
    <3>1. PICK l \in AllLeaves(outs) : l \in Leaf /\ m = f[l]
      BY <2>3
    <3>2. f[l] = l /\ (l.tag = "id" => FindConstant(decls, l.name) = NotFound)
      BY <1>5, <1>6, <3>1
    <3>. QED
      BY <3>1, <3>2
  <2>5. Written(outs') /\ Settled(decls', outs')
    BY <1>2, <1>3, <2>4, NamesCarried DEF Settled, IsInt
  <2>6. \A d \in Range(decls) : IsConst(d) /\ d.opt => d.val # NotFound
    BY <1>2 DEF KnownConstants
  <2>7. ASSUME NEW l \in Leaf, KnownIn(decls, l) PROVE IsInt(f[l])
    <3>1. CASE IsInt(l)
      BY <1>5, <3>1 DEF IsInt
    <3>2. CASE l.tag = "id"
      <4>1. FindConstant(decls, l.name) # NotFound
        BY <1>1, <1>2, <2>6, <2>7, <3>2, KnownPropagates
      <4>. QED
        BY <1>5, <1>6, <3>2, <4>1
    <3>. QED
      BY <2>7, <3>1, <3>2 DEF KnownIn
  <2>8. Valued(decls, NoCounters)
    <3>1. NoCounters \in [{} -> Words]
      BY DEF NoCounters
    <3>. QED
      BY <1>1, <1>2, <3>1, ValuedFacts
  <2>9. ASSUME NEW k \in DOMAIN loops
        PROVE  /\ \A m \in LeafSet(loops'[k].bound) : IsInt(m)
               /\ Value(decls, NoCounters, loops'[k].bound)
                    = Value(source.decls, NoCounters, source.loops[k].bound)
    <3> DEFINE b == loops[k].bound
    <3>1. b \in Expr /\ loops'[k].bound = Rewritten(f, b)
      BY <1>4
    <3>2. /\ \A l \in LeafSet(b) : l \in Leaf /\ KnownIn(decls, l)
          /\ Value(decls, NoCounters, b) = Value(source.decls, NoCounters, source.loops[k].bound)
      BY <2>2, <3>1, LeavesFacts DEF BoundsKept
    <3> HIDE DEF b
    <3>3. \A m \in LeafSet(Rewritten(f, b)) : \E l \in LeafSet(b) : m = f[l]
      BY <1>5, <3>1, RewriteLeaves
    <3>4. Value(decls, NoCounters, Rewritten(f, b)) = Value(decls, NoCounters, b)
      BY <1>5, <2>8, <3>1, <3>2, RewriteKeepsValue
    <3>. QED
      BY <2>7, <3>1, <3>2, <3>3, <3>4
  <2>10. BoundsKept' /\ BoundsOfNumbers'
    BY <1>3, <1>4, <2>9 DEF BoundsKept, BoundsOfNumbers, KnownIn, NoCounters
  <2>11. FoldStage(4)'
    BY <1>2, <1>3, <2>1, <2>5, <2>10 DEF FoldStage
  <2>. QED
    BY <1>4, <2>1, <2>11
<1>9. CASE n = 3
  <2>1. /\ n - 1 = 2 /\ ~(2 >= 4) /\ 2 # 4 /\ ~(2 <= 1)
        /\ 3 \in 2 .. 3 /\ 3 \in 2 .. 4 /\ 2 \in 2 .. 3 /\ 2 \in 2 .. 4
    BY <1>9
  <2>2. Settled(decls, outs) /\ Whole(outs) /\ BoundsCollapse
    BY <1>9, <2>1 DEF FoldStage
  <2>3. outs' = outs
    <3>1. ASSUME NEW k \in DOMAIN outs PROVE Rewritten(f, outs[k]) = outs[k]
      <4>1. \A l \in LeafSet(outs[k]) : f[l] = l
        BY <1>5, <1>7, <2>2 DEF Settled, AllLeaves
      <4>. QED
        BY <1>5, <1>7, <4>1, RewriteNothing
    <3>. QED
      BY <1>1, <1>3, <3>1
  <2>4. \A k \in DOMAIN loops : loops'[k].bound = loops[k].bound
    <3> SUFFICES ASSUME NEW k \in DOMAIN loops
                 PROVE  Rewritten(f, loops[k].bound) = loops[k].bound
      BY <1>4
    <3>1. IsInt(loops[k].bound) /\ loops[k].bound \in Leaf
      BY <1>4, <2>2, IntLeaves DEF BoundsCollapse
    <3>2. f[loops[k].bound] = loops[k].bound
      BY <1>5, <3>1 DEF IsInt
    <3>. QED
      BY <1>5, <3>1, <3>2, RewriteFacts
  <2>5. BoundsCollapse'
    BY <1>3, <1>4, <2>2, <2>4 DEF BoundsCollapse
  <2>6. FoldStage(2)'
    BY <1>2, <1>3, <2>1, <2>2, <2>3, <2>5 DEF FoldStage
  <2>. QED
    BY <1>4, <2>1, <2>6
<1>. QED
  BY <1>8, <1>9

(* Coalescing gives names to numbers only where they are no operands of    *)
(* an operator with another known operand.                                 *)
LEMMA CoalesceStages ==
    ASSUME OptTypeOK, OptTypeOK', source \in Programs, KnownConstants, GeneratedFresh,
           ConstantCoalesce, FoldStage(2)
    PROVE  DOMAIN loops' = DOMAIN loops /\ FoldStage(1)'
<1>1. decls \in Seq(Decl(AllNames)) /\ outs \in Seq(Expr)
  BY TypeParts
<1>2. /\ decls = source.decls /\ Unique(decls) /\ Written(outs)
      /\ Settled(decls, outs) /\ Whole(outs) /\ BoundsCollapse
  BY DEF FoldStage
<1> DEFINE shared == {v \in Words : ToCoalesce(v)}
           T == {d \in Range(decls) : IsConst(d) => ~ToCoalesce(d.val)}
<1>3. PICK values \in SetToSeqs(shared) :
         /\ outs' = [k \in DOMAIN outs |-> Rewritten(Coalesced(values), outs[k])]
         /\ decls' = Shared(values) \o Kept(decls, T)
         /\ loops' = loops
  BY PassesRewrite
<1>4. shared \subseteq Words /\ shared = {v \in Words : ToCoalesce(v)} /\ source' = source
  BY DEF ConstantCoalesce, Run
<1> DEFINE f == Coalesced(values)
           new == Shared(values)
<1>5. /\ \A l \in Leaf : f[l] \in Leaf
      /\ \A l \in Leaf : f[l] = l \/ (IsInt(l) /\ ~IsInt(f[l]))
  <2>1. /\ \A l \in Leaf : f[l] \in Leaf
        /\ \A l \in Leaf : f[l] = l \/ (IsInt(l) /\ \E k \in DOMAIN values :
                                                      f[l] = ID(GenIDString(k)))
    BY <1>4, CoalescedFacts
  <2>2. \A k : ~IsInt(ID(GenIDString(k)))
    BY DEF ID, IsInt
  <2> HIDE DEF f
  <2>. QED
    BY <2>1, <2>2
<1>6. \A d \in Range(decls') : d \in Range(decls) \/ d.name \notin Names
  <2> DEFINE kept == Kept(decls, T)
  <2>1. new \in Seq(Decl(GeneratedNames)) /\ Decl(GeneratedNames) \subseteq Decl(AllNames)
    BY <1>4, SharedDecls DEF Decl, AllNames
  <2>2. kept \in Seq(Decl(AllNames)) /\ Range(kept) \subseteq Range(decls)
    BY <1>1, KeptFacts
  <2>3. decls' = new \o kept
    BY <1>3
  <2> HIDE DEF new, kept
  <2>4. Range(decls') = Range(new) \cup Range(kept) /\ Range(new) \subseteq Decl(GeneratedNames)
    <3>1. new \in Seq(Decl(AllNames))
      BY <2>1
    <3>2. Range(decls') = Range(new) \cup Range(kept)
      BY <2>2, <2>3, <3>1, RangeConcatenation
    <3>. QED
      BY <2>1, <3>2, RangeOfSeq
  <2>5. \A d \in Decl(GeneratedNames) : d.name \notin Names
    BY DEF Decl, GeneratedFresh
  <2>. QED
    BY <2>2, <2>4, <2>5
<1> HIDE DEF f, new, shared, T
<1>7. \A k \in DOMAIN outs : outs[k] \in Expr
  BY <1>1
<1>8. ASSUME NEW k \in DOMAIN outs, NEW x \in Expr,
             \A l \in LeafSet(x) : l \in AllLeaves(outs),
             KnownIn(decls', Rewritten(f, x))
      PROVE  IsInt(x)
  <2> DEFINE y == Rewritten(f, x)
  <2>1. x \in Leaf
    <3>1. Node(x, Expr) => IsBinary(y)
      BY <1>5, RewriteFacts DEF Binary, IsBinary
    <3>2. ~IsBinary(y)
      BY <1>8 DEF KnownIn, IsInt, IsBinary
    <3>. QED
      BY <3>1, <3>2, TreeCases
  <2>2. y = f[x] /\ x \in AllLeaves(outs)
    BY <1>5, <1>8, <2>1, RewriteFacts, LeavesFacts
  <2>3. CASE f[x] = x
    <3> SUFFICES ASSUME ~IsInt(x) PROVE FALSE
      OBVIOUS
    <3>1. PICK d \in Range(decls') : x.tag = "id" /\ IsConst(d) /\ d.name = x.name /\ d.opt
      BY <1>8, <2>2, <2>3 DEF KnownIn
    <3>2. x.name \in Names
      BY <1>2, <2>2, <3>1 DEF Written
    <3>3. d \in Range(decls)
      BY <1>6, <3>1, <3>2
    <3>4. KnownIn(decls, x)
      BY <3>1, <3>3 DEF KnownIn
    <3>5. \A c \in Range(decls) : IsConst(c) /\ c.opt => c.val # NotFound
      BY <1>2 DEF KnownConstants
    <3>6. FindConstant(decls, x.name) # NotFound
      BY <1>1, <1>2, <3>1, <3>4, <3>5, KnownPropagates
    <3>. QED
      BY <1>2, <2>2, <3>1, <3>6 DEF Settled
  <2>. QED
    BY <1>5, <2>1, <2>3
<1>9. ASSUME NEW k \in DOMAIN outs, NEW x \in Subtrees[outs[k]]
      PROVE  x \in Expr /\ \A l \in LeafSet(x) : l \in AllLeaves(outs)
  BY <1>7, SubtreesFacts, SubtreeLeaves DEF AllLeaves
<1>10. ASSUME NEW k \in DOMAIN outs, NEW y \in Subtrees[outs'[k]], IsBinary(y),
              KnownIn(decls', y.left), KnownIn(decls', y.right)
       PROVE  FALSE
  <2>1. PICK x \in Subtrees[outs[k]] : y = Rewritten(f, x)
    BY <1>3, <1>5, <1>7, RewriteSubtrees DEF f
  <2>2. x \in Expr /\ \A l \in LeafSet(x) : l \in AllLeaves(outs)
    BY <1>9
  <2>3. Node(x, Expr)
    <3>1. x \in Leaf => y \in Leaf
      BY <1>5, <2>1, RewriteFacts
    <3>. QED
      BY <1>10, <2>2, <3>1, TreeCases, ExprCases
  <2>4. y.left = Rewritten(f, x.left) /\ y.right = Rewritten(f, x.right)
    <3>1. y = Binary(x.op, Rewritten(f, x.left), Rewritten(f, x.right))
      BY <1>5, <2>1, <2>2, <2>3, RewriteFacts
    <3>. QED
      BY <3>1 DEF Binary
  <2>5. x.left \in Expr /\ x.right \in Expr /\ LeafSet(x) = LeafSet(x.left) \cup LeafSet(x.right)
    BY <2>2, <2>3, LeavesFacts DEF Node
  <2>6. IsInt(x.left) /\ IsInt(x.right)
    BY <1>8, <1>10, <2>2, <2>4, <2>5
  <2>. QED
    BY <1>2, <2>3, <2>6 DEF Whole, Foldable, Node
<1>11. FullyFolded'
  <2>1. DOMAIN outs' = DOMAIN outs
    BY <1>3
  <2>. QED
    BY <1>10, <2>1 DEF FullyFolded, Known, KnownIn
<1>12. BoundsCollapse'
  BY <1>2, <1>3, <1>4 DEF BoundsCollapse
<1>13. ~(1 >= 2) /\ ~(1 >= 4) /\ 1 # 4 /\ 1 \notin 2 .. 4 /\ 1 \notin 2 .. 3
  OBVIOUS
<1>. QED
  BY <1>3, <1>11, <1>12, <1>13 DEF FoldStage

(* Elimination makes no value known.                                       *)
LEMMA EliminateStages ==
    ASSUME OptTypeOK, DeadCodeElimination, FoldStage(1)
    PROVE  DOMAIN loops' = DOMAIN loops /\ FoldStage(0)'
<1> DEFINE T == {d \in Range(decls) : IsUsed(d)}
<1>1. /\ decls \in Seq(Decl(AllNames))
      /\ decls' = Kept(decls, T) /\ outs' = outs /\ loops' = loops /\ source' = source
  BY DEF OptTypeOK, DeadCodeElimination, Run
<1>2. Range(decls') \subseteq Range(decls)
  BY <1>1, KeptFacts
<1>3. BoundsCollapse /\ FullyFolded
  BY DEF FoldStage
<1>4. FullyFolded'
  BY <1>1, <1>2, <1>3 DEF FullyFolded, Known
<1>5. BoundsCollapse'
  BY <1>1, <1>3 DEF BoundsCollapse
<1>6. ~(0 >= 2) /\ ~(0 >= 4) /\ 0 # 4 /\ 0 \notin 2 .. 4 /\ 0 \notin 2 .. 3
  OBVIOUS
<1>. QED
  BY <1>1, <1>4, <1>5, <1>6 DEF FoldStage

(* Every pass takes the tree from its stage to the next.                   *)
LEMMA FoldInvStep ==
    ASSUME FoldInv, KnownConstants, GeneratedFresh, [OptNext]_optVars
    PROVE  FoldInv'
<1>1. OptTypeOK /\ OptTypeOK' /\ source \in Programs /\ DOMAIN loops = DOMAIN source.loops
  BY TypeStep DEF FoldInv
<1>2. source' = source /\ level' = level
  BY DEF optVars, OptNext, ConstantFold, ConstantPropagation, ConstantCoalesce,
         DeadCodeElimination, Run
<1>3. DOMAIN loops' = DOMAIN loops
  <2>1. \A g : DOMAIN Bounds(g, loops) = DOMAIN loops
    BY DEF Bounds
  <2>. QED
    BY <2>1, PassesRewrite DEF optVars, OptNext, DeadCodeElimination
<1> SUFFICES ASSUME AllPasses
             PROVE  \E n \in 0 .. 6 : passes' = Left(n) /\ FoldStage(n)'
  BY <1>1, <1>2, <1>3 DEF FoldInv, AllPasses
<1>4. PICK n \in 0 .. 6 : passes = Left(n) /\ FoldStage(n)
  BY DEF FoldInv
<1>5. CASE UNCHANGED optVars
  <2>1. FoldStage(n)'
    BY <1>4, <1>5 DEF optVars, FoldStage, Unique, Written, BoundsKept, BoundsOfNumbers, Settled,
                      Whole, BoundsCollapse, FullyFolded, Known, KnownIn, AllLeaves, NoCounters
  <2>. QED
    BY <1>4, <1>5, <2>1 DEF optVars
<1>6. CASE ConstantFold
  <2>1. n \in {4, 6} /\ passes' = Left(n - 1)
    BY <1>4, <1>6, LeftStep DEF ConstantFold
  <2>2. FoldStage(n - 1)' /\ n - 1 \in 0 .. 6
    BY <1>1, <1>4, <1>6, <2>1, FoldStages
  <2>. QED
    BY <2>1, <2>2
<1>7. CASE ConstantPropagation
  <2>1. n \in {3, 5} /\ passes' = Left(n - 1)
    BY <1>4, <1>7, LeftStep DEF ConstantPropagation
  <2>2. FoldStage(n - 1)' /\ n - 1 \in 0 .. 6
    BY <1>1, <1>4, <1>7, <2>1, PropagateStages
  <2>. QED
    BY <2>1, <2>2
<1>8. CASE ConstantCoalesce
  <2>1. n = 2 /\ passes' = Left(1)
    BY <1>4, <1>8, LeftStep DEF ConstantCoalesce
  <2>2. FoldStage(1)' /\ 1 \in 0 .. 6
    BY <1>1, <1>4, <1>8, <2>1, CoalesceStages
  <2>. QED
    BY <2>1, <2>2
<1>9. CASE DeadCodeElimination
  <2>1. n = 1 /\ passes' = Left(0)
    BY <1>4, <1>9, LeftStep DEF DeadCodeElimination
  <2>2. FoldStage(0)' /\ 0 \in 0 .. 6
    BY <1>1, <1>4, <1>9, <2>1, EliminateStages
  <2>. QED
    BY <2>1, <2>2
<1>. QED
  BY <1>5, <1>6, <1>7, <1>8, <1>9 DEF OptNext

(* At the end no arithmetic on known values is left for the hardware, and  *)
(* the bound of every loop is a number, the one of the source, at the      *)
(* levels that run all passes.  What is assumed is that the bounds are     *)
(* made of numbers and constants that may be propagated, that none of      *)
(* those is -1, and that no identifier of the program is a generated one.  *)
THEOREM NothingStaysToFold ==
    GeneratedFresh /\ KnownConstants /\ ConstantBounds => (OptSpec => []NothingLeftToFold)
<1> SUFFICES ASSUME GeneratedFresh /\ KnownConstants /\ ConstantBounds
             PROVE  OptSpec => []NothingLeftToFold
  OBVIOUS
<1>1. OptInit => FoldInv
  <2> SUFFICES ASSUME OptInit PROVE FoldInv
    OBVIOUS
  <2>1. AllPasses => passes = Left(6)
    BY DEF OptInit, AllPasses, Schedule, Left
  <2>2. BoundsKept
    <3>1. ASSUME NEW k \in DOMAIN loops, NEW l \in LeafSet(loops[k].bound)
          PROVE  KnownIn(decls, l)
      BY SourceInit DEF ConstantBounds
    <3>. QED
      BY <3>1, SourceInit DEF BoundsKept
  <2>3. 6 \in 0 .. 6 /\ 6 # 4 /\ 6 \notin 2 .. 4 /\ 6 \notin 2 .. 3 /\ ~(6 <= 3) /\ ~(6 <= 1)
    OBVIOUS
  <2>4. FoldStage(6)
    BY <2>2, <2>3, SourceInit DEF FoldStage
  <2>. QED
    BY <2>1, <2>3, <2>4, SourceInit DEF FoldInv
<1>2. FoldInv /\ [OptNext]_optVars => FoldInv'
  BY FoldInvStep
<1>3. FoldInv => NothingLeftToFold
  <2> SUFFICES ASSUME FoldInv, passes = <<>>, AllPasses
               PROVE  FullyFolded /\ BoundsCollapse
    BY DEF NothingLeftToFold, Finished, AllPasses
  <2>1. PICK n \in 0 .. 6 : passes = Left(n) /\ FoldStage(n)
    BY DEF FoldInv
  <2>2. n = 0 /\ 0 <= 1 /\ 0 <= 3
    BY <2>1, LeftStep
  <2>. QED
    BY <2>1, <2>2 DEF FoldStage
<1>. QED
  BY <1>1, <1>2, <1>3, PTL DEF OptSpec
=============================================================================
