--------------------------- MODULE MCStateRegisters ---------------------------
(* Three loop registers, two constants and one array of two words, after   *)
(* eleven bytes of cells.  Some programs ask for more than there is; every *)
(* array that is indexed is declared, as name analysis requires; a         *)
(* condition may compare a loop with the constant c.                       *)
EXTENDS StateRegisters

Leaves == {Const("5"), Const("7"), Index("t", "i"), Index("t", "j")}
Declared == {<<>>, <<Const("c")>>, <<Array("t", 2)>>,
             <<Const("c"), Array("t", 1), Const("d")>>,
             <<Array("t", 3)>>, <<Array("t", 1), Array("u", 2)>>}
Nested == {<<For("i"), For("j")>>, <<For("i"), For("j"), For("k")>>,
           <<For("i"), For("j"), For("k"), For("l")>>}
Compared == {<<>>, <<"j">>, <<"j", "i">>, <<"i", "c">>}

Resolved(p) ==
    /\ \A k \in DOMAIN p.nodes : p.nodes[k].node = "index" =>
           \E j \in DOMAIN p.nodes : p.nodes[j].node = "array" /\ p.nodes[j].name = p.nodes[k].name
    /\ \A k \in DOMAIN p.conds :
           \E j \in DOMAIN p.nodes :
               p.nodes[j].node \in {"const", "for"} /\ p.nodes[j].name = p.conds[k]

MCPrograms ==
    {p \in {[nodes |-> decl \o nest \o leaves, conds |-> cs] :
               decl \in Declared, nest \in Nested, leaves \in Leaves \X Leaves,
               cs \in Compared} : Resolved(p)}
=============================================================================
