---------------------------- MODULE MCOutStatement ----------------------------
(* Small programs over one or two loop variables, a constant, an array and *)
(* a literal: every expression of depth two over three leaves, chains of   *)
(* depth three, and pairs of statements.                                   *)
EXTENDS OutStatement

Id(n) == [tag |-> "id", name |-> n]
Arr(n) == [tag |-> "array", name |-> n]
Op(tag, l, r) == [tag |-> tag, l |-> l, r |-> r]

Ops == {"plus", "minus", "times"}
Trees(S, T) == {Op(tag, l, r) : tag \in Ops, l \in S, r \in T}

Few(n) == {Id("i"), Lit(n), Arr("A")}
Flat(n) == Few(n) \cup Trees(Few(n), Few(n))
Deep == Trees(Flat(2), Flat(5))
Chain(n) == Trees({Id("i"), Id("N")}, {Lit(n), Id("j")})
Long == Trees(Trees(Chain(2), {Id("j"), Lit(3)}), {Id("N"), Lit(5), Arr("A")})
        \cup Trees({Id("N"), Lit(5), Arr("A")}, Trees({Id("j"), Lit(3)}, Chain(2)))

Parsed == {<<e>> : e \in Few(2) \cup Deep \cup Long}
          \cup {<<d, e>> : d \in Chain(2), e \in Chain(3) \cup {Id("j"), Lit(5)}}

(* What the optimiser leaves: no operator of two literals (folded), and no *)
(* literal twice (coalesced into a constant).                              *)
RECURSIVE Folded(_)
Folded(e) == \/ IsLeaf(e)
             \/ /\ {e.l.tag, e.r.tag} # {"int"}
                /\ Folded(e.l)
                /\ Folded(e.r)

LiteralOccurrences(es) ==
    SelectSeq(FlattenSeq([s \in DOMAIN es |-> LeavesOf[es[s]]]), LAMBDA e : e.tag = "int")

MCPrograms == {es \in Parsed : /\ \A s \in DOMAIN es : Folded(es[s])
                               /\ IsInjective(LiteralOccurrences(es))}

MCConsts == <<"N">>
MCArrays == <<"A">>
MCLoops == <<"i", "j">>

Units4(p, t, m, q) == [plus |-> p, times |-> t, minus |-> m, pass |-> q]

MCLayers == [l \in 0 .. 4 |-> CASE l = 0 -> Units4(2, 3, 1, 3)
                                [] l = 1 -> Units4(1, 2, 2, 2)
                                [] l = 2 -> Units4(2, 1, 1, 1)
                                [] OTHER -> Units4(0, 0, 0, 1)]

MCValues == {[i |-> 3, j |-> 5, N |-> 11, A |-> 7],
             [i |-> 0, j |-> 2, N |-> 13, A |-> 1]}
=============================================================================
