------------------------------ MODULE MCOptimizer ------------------------------
(* Two constants, an array and two loops; OUT statements of up to three    *)
(* leaves, and bounds with arithmetic on constants.                        *)
EXTENDS Optimizer

MCNames == {<<n>> : n \in {"a", "b", "i", "j", "t"}}

MCElement(a, i) == (7 * i + 3) % Word

Atoms == {IntLit(1), IntLit(2), ID(<<"a">>), ID(<<"b">>), ID(<<"i">>)}
Pairs == {Binary(op, l, r) : op \in {"+", "-", "*"}, l \in Atoms, r \in Atoms}
Triples == {Binary(op, l, r) : op \in {"+", "-", "*"}, l \in Pairs, r \in Atoms}
           \cup {Binary(op, l, ArrayIndex(<<"t">>, <<"j">>)) : op \in {"-", "*"}, l \in Pairs}

(* Outs of one triple, or of two pairs that begin with the same operator.  *)
MCOuts == {<<e>> : e \in Triples}
          \cup {<<e, f>> : e \in {p \in Pairs : p.op = "-"}, f \in {p \in Pairs : p.op = "*"}}

Loops(bound) == <<[name |-> <<"i">>, bound |-> bound], [name |-> <<"j">>, bound |-> IntLit(2)]>>

Decls(x, y, opt) == <<ConstDecl(<<"a">>, x, TRUE), ConstArrayDecl(<<"t">>), ConstDecl(<<"b">>, y, opt)>>

(* b may be marked nopt, with a value of its own and out of the bound.     *)
MCPrograms ==
    {[decls |-> Decls(x, y, TRUE), loops |-> Loops(bound), outs |-> os] :
        x \in {1, 2}, y \in {2, 3}, bound \in {Binary("*", ID(<<"b">>), IntLit(3))}, os \in MCOuts}
    \cup {[decls |-> Decls(2, 5, FALSE), loops |-> Loops(bound), outs |-> os] :
        bound \in {IntLit(5), ID(<<"a">>)}, os \in {<<e>> : e \in Triples}}

(* A number in the text equals a constant marked nopt.                     *)
SharedNopt ==
    {[decls |-> Decls(1, 2, FALSE), loops |-> Loops(IntLit(5)), outs |-> <<e>>] : e \in Triples}
=============================================================================
