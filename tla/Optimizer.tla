------------------------------- MODULE Optimizer -------------------------------
(***************************************************************************)
(* DTLOptimizer::OptimizeStatic (optimization_passes.hpp): constant        *)
(* folding, constant propagation, coalescing of equal constants and dead   *)
(* code elimination, each a walk over the whole tree.                      *)
(*                                                                         *)
(* An action is one pass.  A program is its declarations, its loops and    *)
(* the expressions of its OUT statements; those of the two branches of an  *)
(* if and of the cases of a switch are visited in the same way and stand   *)
(* in the same sequence.  int is a word of Word values, negative numbers   *)
(* being the upper half; signed overflow wraps, as the builds have it.     *)
(***************************************************************************)
EXTENDS Integers, Sequences, SequencesExt, FiniteSets

CONSTANTS Word,         \* values of an int, a power of two
          Programs,     \* programs that passed name and type analysis
          Names,        \* identifiers of the programs
          MaxDepth,     \* bound on the depth of an expression
          Levels,       \* DTL_OPTLEVEL
          Element(_, _), \* the contents of the constant arrays
          Samples       \* counters for which values are compared

ASSUME WordAssumption == Word \in Nat /\ Word >= 4 /\ Word % 2 = 0

ASSUME DepthAssumption == MaxDepth \in Nat

\* Arrays hold, and counters are, numbers.
ASSUME NumbersAssumption ==
    /\ Samples \subseteq 0 .. Word - 1
    /\ \A a \in Names, i \in 0 .. Word - 1 : Element(a, i) \in 0 .. Word - 1

ASSUME LevelAssumption == Levels \subseteq {"OPT0", "OPT1", "OPT2", "OPTMAX"}

VARIABLES source,       \* the program as parsed (history)
          level,
          decls,        \* ConstDeclNode and ConstArrayDeclNode, in order
          loops,        \* ForStmtNode: the variable and the bound
          outs,         \* OutStmtNode: the expression
          passes        \* passes still to run

optVars == <<source, level, decls, loops, outs, passes>>

(* Nodes of the tree.                                                      *)
IntLit(v) == [tag |-> "int", val |-> v]
ID(n) == [tag |-> "id", name |-> n]
ArrayIndex(a, i) == [tag |-> "index", name |-> a, var |-> i]
Binary(op, l, r) == [tag |-> "binary", op |-> op, left |-> l, right |-> r]

ConstDecl(n, v, opt) == [array |-> FALSE, name |-> n, val |-> v, opt |-> opt]
ConstArrayDecl(n) == [array |-> TRUE, name |-> n]

IsInt(e) == e.tag = "int"
IsConst(d) == ~d.array

(* A name is an identifier of the program or one GenIDString makes, an     *)
(* identifier with a number.                                               *)
GenIDString(k) == <<"constVarID", k - 1>>
GeneratedNames == {GenIDString(k) : k \in 1 .. Word}
AllNames == Names \cup GeneratedNames

Words == 0 .. Word - 1

Ops == {"+", "-", "*"}

Leaf == [tag : {"int"}, val : Words]
        \cup [tag : {"id"}, name : AllNames]
        \cup [tag : {"index"}, name : Names, var : Names]

(* The trees of a height.                                                  *)
Exprs[height \in 0 .. MaxDepth] ==
    IF height = 0 THEN Leaf
    ELSE LET below == Exprs[height - 1]
         IN  Leaf \cup [tag : {"binary"}, op : Ops, left : below, right : below]

Expr == Exprs[MaxDepth]

IsBinary(e) == e.tag = "binary"

Decl(names) == [array : {FALSE}, name : names, val : Words, opt : BOOLEAN]
               \cup [array : {TRUE}, name : names]

LeavesOf[e \in Expr] ==
    IF IsBinary(e) THEN LeavesOf[e.left] \o LeavesOf[e.right] ELSE <<e>>

(* A tree with leaf l replaced by f[l].                                    *)
Rewritten(f, e) ==
    LET rewritten[x \in Expr] ==
            IF IsBinary(x) THEN Binary(x.op, rewritten[x.left], rewritten[x.right])
            ELSE f[x]
    IN  rewritten[e]

(* The elements of s that are in T, in order.                              *)
Kept(s, T) ==
    LET kept[n \in 0 .. Len(s)] ==
            IF n = 0 THEN <<>>
            ELSE IF s[n] \in T THEN Append(kept[n - 1], s[n]) ELSE kept[n - 1]
    IN  kept[Len(s)]

\* What name analysis lets through: names are declared, once, and before use.
ASSUME ProgramsAssumption ==
    \A p \in Programs :
        /\ p.decls \in Seq(Decl(Names))
        /\ p.loops \in Seq([name : Names, bound : Expr])
        /\ p.outs \in Seq(Expr)
        /\ \A c, d \in Range(p.decls) : c.name = d.name => c = d
        /\ \A k \in DOMAIN p.outs : \A l \in Range(LeavesOf[p.outs[k]]) :
              IsInt(l) \/ l.name \in {p.loops[i].name : i \in DOMAIN p.loops}
                                     \cup {d.name : d \in Range(p.decls)}

-----------------------------------------------------------------------------
(* ConstantFoldPass.                                                       *)

(* Faults: operands swapped, and a number wider than int.                  *)
FoldValueSwapped(op, a, b) ==
    CASE op = "+" -> (a + b) % Word
      [] op = "*" -> (a * b) % Word
      [] op = "-" -> (b - a) % Word
FoldValueWide(op, a, b) ==
    CASE op = "+" -> a + b
      [] op = "*" -> a * b
      [] op = "-" -> (a - b) % Word

FoldValue(op, a, b) ==
    CASE op = "+" -> (a + b) % Word
      [] op = "*" -> (a * b) % Word
      [] op = "-" -> (a - b) % Word

ConstFold[e \in Expr] ==
    IF ~IsBinary(e) THEN e
    ELSE LET l == ConstFold[e.left]
             r == ConstFold[e.right]
         IN  IF IsInt(l) /\ IsInt(r) THEN IntLit(FoldValue(e.op, l.val, r.val))
             ELSE Binary(e.op, l, r)

-----------------------------------------------------------------------------
(* ConstantPropagationPass.                                                *)

(* FindConstant says -1 for a name it does not know.                       *)
NotFound == Word - 1

FindConstant(ds, n) ==
    LET known == {k \in DOMAIN ds : IsConst(ds[k]) /\ ds[k].name = n /\ ds[k].opt}
    IN  IF known = {} THEN NotFound
        ELSE ds[CHOOSE k \in known : \A j \in known : k <= j].val

ConstPropagation(ds, e) ==
    Rewritten([l \in Leaf |->
                  IF l.tag = "id" /\ FindConstant(ds, l.name) # NotFound
                  THEN IntLit(FindConstant(ds, l.name)) ELSE l], e)

PropagatedLoops(ds, ls) ==
    [k \in DOMAIN ls |-> [ls[k] EXCEPT !.bound = ConstPropagation(ds, @)]]

-----------------------------------------------------------------------------
(* ConstantCoalescePass.                                                   *)

(* The places that hold a value: declarations, whatever their mark, and    *)
(* literals of OUT statements; neither literals nor names of a loop.       *)
DeclPlaces(v) == {k \in DOMAIN decls : IsConst(decls[k]) /\ decls[k].val = v}
LiteralPlaces(v) ==
    {p \in UNION {{k} \X DOMAIN LeavesOf[outs[k]] : k \in DOMAIN outs} :
        LeavesOf[outs[p[1]]][p[2]] = IntLit(v)}

(* The nodes collected for a value.                                        *)
Collected(v) == Cardinality(DeclPlaces(v)) + Cardinality(LiteralPlaces(v))

(* Fault: one node too many is asked for. *)
ToCoalesceMore(v) == Collected(v) > 2

ToCoalesce(v) == Collected(v) > 1

ConstCoalesce(values, e) ==
    Rewritten([l \in Leaf |->
                  IF IsInt(l) /\ ToCoalesce(l.val)
                  THEN ID(GenIDString(CHOOSE k \in DOMAIN values : values[k] = l.val))
                  ELSE l], e)

-----------------------------------------------------------------------------
(* DeadCodeEliminationPass.                                                *)

(* Fault: the right operand is not visited. *)
LeftLeaf[e \in Expr] == IF IsBinary(e) THEN LeftLeaf[e.left] ELSE e
IsUsedLeft(d) == \E k \in DOMAIN outs : /\ ~IsInt(LeftLeaf[outs[k]])
                                        /\ LeftLeaf[outs[k]].name = d.name

(* The names in the OUT statements: constants in loop bounds do not count. *)
IsUsed(d) == \E k \in DOMAIN outs : \E l \in Range(LeavesOf[outs[k]]) :
                 ~IsInt(l) /\ l.name = d.name

-----------------------------------------------------------------------------
(* OptimizeStatic.                                                         *)

(* Fault: one round of folding and propagation instead of two. *)
ScheduleOnce(l) ==
    CASE l = "OPT0" -> <<>>
      [] l = "OPT1" -> <<"fold", "propagate", "coalesce">>
      [] OTHER -> <<"fold", "propagate", "coalesce", "eliminate">>

Schedule(l) ==
    CASE l = "OPT0" -> <<>>
      [] l = "OPT1" -> <<"fold", "propagate", "coalesce">>
      [] OTHER -> <<"fold", "propagate", "fold", "propagate", "coalesce", "eliminate">>

Run(pass) == /\ passes # <<>>
             /\ Head(passes) = pass
             /\ passes' = Tail(passes)
             /\ UNCHANGED <<source, level>>

ConstantFold ==
    /\ Run("fold")
    /\ loops' = [k \in DOMAIN loops |-> [loops[k] EXCEPT !.bound = ConstFold[@]]]
    /\ outs' = [k \in DOMAIN outs |-> ConstFold[outs[k]]]
    /\ UNCHANGED decls

ConstantPropagation ==
    /\ Run("propagate")
    /\ loops' = PropagatedLoops(decls, loops)
    /\ outs' = [k \in DOMAIN outs |-> ConstPropagation(decls, outs[k])]
    /\ UNCHANGED decls

(* The new declarations come first, in the order of a hash map.            *)
ConstantCoalesce ==
    LET shared == {v \in Words : ToCoalesce(v)} IN
    /\ Run("coalesce")
    /\ \E values \in SetToSeqs(shared) :
          /\ decls' = [k \in DOMAIN values |-> ConstDecl(GenIDString(k), values[k], TRUE)]
                      \o Kept(decls, {d \in Range(decls) : IsConst(d) => ~ToCoalesce(d.val)})
          /\ outs' = [k \in DOMAIN outs |-> ConstCoalesce(values, outs[k])]
    /\ UNCHANGED loops

DeadCodeElimination ==
    /\ Run("eliminate")
    /\ decls' = Kept(decls, {d \in Range(decls) : IsUsed(d)})
    /\ UNCHANGED <<loops, outs>>

OptInit == /\ source \in Programs
           /\ level \in Levels
           /\ decls = source.decls
           /\ loops = source.loops
           /\ outs = source.outs
           /\ passes = Schedule(level)

OptNext == \/ ConstantFold
           \/ ConstantPropagation
           \/ ConstantCoalesce
           \/ DeadCodeElimination

OptSpec == OptInit /\ [][OptNext]_optVars

-----------------------------------------------------------------------------
(* Properties.                                                             *)

NamesIn(os) == UNION {{l.name : l \in {m \in Range(LeavesOf[os[k]]) : ~IsInt(m)}} :
                         k \in DOMAIN os}
LoopNames == {loops[k].name : k \in DOMAIN loops}

OptTypeOK ==
    /\ \E k \in 0 .. Len(Schedule(level)) : passes = SubSeq(Schedule(level), k + 1, Len(Schedule(level)))
    /\ decls \in Seq(Decl(AllNames))
    /\ loops \in Seq([name : Names, bound : Expr])
    /\ outs \in Seq(Expr)

(* What the registers hold for a name: constants come before counters, and *)
(* the first declaration of a name before the others.                      *)
Register(ds, env, n) ==
    LET declared == {k \in DOMAIN ds : IsConst(ds[k]) /\ ds[k].name = n}
    IN  IF declared # {} THEN ds[CHOOSE k \in declared : \A j \in declared : k <= j].val
        ELSE IF n \in DOMAIN env THEN env[n] ELSE 0

(* What the units of the hardware compute.                                 *)
Calculated(op, a, b) ==
    (CASE op = "+" -> a + b [] op = "-" -> a - b [] op = "*" -> a * b) % Word

LeafValue(ds, env, l) ==
    CASE l.tag = "int" -> l.val
      [] l.tag = "id" -> Register(ds, env, l.name)
      [] l.tag = "index" -> Element(l.name, Register(ds, env, l.var))

Value(ds, env, e) ==
    LET value[x \in Expr] ==
            IF IsBinary(x) THEN Calculated(x.op, value[x.left], value[x.right])
            ELSE LeafValue(ds, env, x)
    IN  value[e]

Envs == [LoopNames -> Samples]

(* After every pass the OUT statements have the values they had as parsed, *)
(* for all counters of the loops: rewriting names to numbers, numbers to   *)
(* new names and dropping declarations changes no offset.                  *)
ValuesPreserved ==
    \A env \in Envs, k \in DOMAIN outs :
        Value(decls, env, outs[k]) = Value(source.decls, env, source.outs[k])

(* After every pass every name in an OUT statement is a declaration or a   *)
(* loop, so that the later passes find its register.  The variable that    *)
(* indexes an array is left out: it has to be a loop's, which no pass      *)
(* removes, since the allocation asserts it (ArrayIndexNode).              *)
NamesResolved ==
    NamesIn(outs) \subseteq LoopNames \cup {decls[k].name : k \in DOMAIN decls}

Finished == passes = <<>>

(* The compiler knows the value: a number, or a constant not marked nopt.  *)
Known(e) == \/ IsInt(e)
            \/ e.tag = "id" /\ \E d \in Range(decls) : IsConst(d) /\ d.name = e.name /\ d.opt

Subtrees[e \in Expr] ==
    IF IsBinary(e) THEN {e} \cup Subtrees[e.left] \cup Subtrees[e.right] ELSE {e}

FullyFolded ==
    \A k \in DOMAIN outs : \A e \in Subtrees[outs[k]] :
        IsBinary(e) => ~(Known(e.left) /\ Known(e.right))

BoundsCollapse ==
    \A k \in DOMAIN loops :
        /\ IsInt(loops[k].bound)
        /\ loops[k].bound.val = Value(source.decls, [n \in {} |-> 0], source.loops[k].bound)

(* At the end no arithmetic on known values is left for the hardware,      *)
(* neither written with numbers nor with the names coalescing gives them;  *)
(* and the bound of a loop is a number, the one of the source: Collapse    *)
(* has no number for a name and asserts on arithmetic.                     *)
NothingLeftToFold ==
    Finished /\ level \in {"OPT2", "OPTMAX"} => FullyFolded /\ BoundsCollapse

OneRegisterEach ==
    \A v \in Words : Cardinality(DeclPlaces(v)) + Cardinality(LiteralPlaces(v)) <= 1

NothingUnused == \A k \in DOMAIN decls : decls[k].name \in NamesIn(outs)

(* At the end the hardware has a register for what an OUT statement reads, *)
(* once: no two declarations, no two literals and no declaration and       *)
(* literal share a value, and every declaration, arrays included, is used. *)
RegistersMinimal ==
    Finished /\ level \in {"OPT2", "OPTMAX"} => OneRegisterEach /\ NothingUnused
=============================================================================
