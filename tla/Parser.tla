---- MODULE Parser ----
(***************************************************************************)
(* The generated parser (parser.cc): its stack machine over the tables,    *)
(* and the semantic actions of parser.yy, which build the tree.            *)
(*                                                                         *)
(* A node is a record.  Expressions have an op and, by it, args, a name or *)
(* a num; an array element has the name of the array and of the index.     *)
(* Statements have a tag.  Positions, kept for the messages only, are left *)
(* out, and so are the nodes of the one type, int.                         *)
(***************************************************************************)
EXTENDS Scanner, ParserTables

VARIABLES
    stack,      \* yystack_, the top last: a state, its symbol and its value
    la, laValue,\* yyla: a symbol number, Empty when none, and its value
    result,     \* what parse() returns, -1 while it runs
    root        \* *root

parserVars == <<stack, la, laValue, result, root>>

Empty == -2
NoTree == [tag |-> "none"]

ParserInit ==
    /\ stack = <<[state |-> 0, sym |-> 0, value |-> NoValue]>>
    /\ la = Empty /\ laValue = NoValue
    /\ result = -1 /\ root = NoTree

TopState == stack[Len(stack)].state

\* yystack_[i].value, the top being 0.
S(i) == stack[Len(stack) - i].value

-----------------------------------------------------------------------------
(* What the tables say. *)

yy_lr_goto_state_(s, sym) ==
    LET i == At(yypgoto_, sym - YYNTOKENS) + s IN
    IF i \in 0 .. yylast_ /\ At(yycheck_, i) = s THEN At(yytable_, i)
    ELSE At(yydefgoto_, sym - YYNTOKENS)

\* Whether a state shifts the error token; no state does, so that an error
\* empties the stack and ends the parse.
ShiftsError(s) ==
    LET i == At(yypact_, s) + 1 IN
    /\ At(yypact_, s) # yypact_ninf_
    /\ i \in 0 .. yylast_ /\ At(yycheck_, i) = 1 /\ At(yytable_, i) > 0

ASSUME NoErrorRecovery == \A s \in 0 .. Len(yypact_) - 1 : ~ShiftsError(s)

\* yybackup wants a token before it decides.
NeedsToken == At(yypact_, TopState) # yypact_ninf_ /\ la = Empty

Default(s) == IF At(yydefact_, s) = 0 THEN <<"error", 0>>
              ELSE <<"reduce", At(yydefact_, s)>>

\* Fault: the check of the entry is left out.
DecisionUnchecked ==
    LET i == At(yypact_, TopState) + la IN
    IF At(yypact_, TopState) = yypact_ninf_ \/ i \notin 0 .. yylast_
    THEN Default(TopState)
    ELSE IF At(yytable_, i) > 0 THEN <<"shift", At(yytable_, i)>>
    ELSE Default(TopState)

\* Shift to a state, reduce by a rule, or report an error.
Decision ==
    LET i == At(yypact_, TopState) + la IN
    IF \/ At(yypact_, TopState) = yypact_ninf_
       \/ i \notin 0 .. yylast_
       \/ At(yycheck_, i) # la
    THEN Default(TopState)
    ELSE IF At(yytable_, i) > 0 THEN <<"shift", At(yytable_, i)>>
    ELSE IF At(yytable_, i) = -1 THEN <<"error", 0>>
    ELSE <<"reduce", -At(yytable_, i)>>

-----------------------------------------------------------------------------
(* The semantic actions: the value of the left-hand side, by rule. *)

Const(name, val, opt) == [tag |-> "const", name |-> name, val |-> val, opt |-> opt]
Array(name, vals) == [tag |-> "array", name |-> name, vals |-> vals]
For(init, cond, update, body) ==
    [tag |-> "for", init |-> init, cond |-> cond, update |-> update, body |-> body]
If(type, ids, yes, no) ==
    [tag |-> "if", type |-> type, ids |-> ids, yes |-> yes, no |-> no]
Switch(id, cases) == [tag |-> "switch", ids |-> <<id>>, cases |-> cases]
Out(exp) == [tag |-> "out", exp |-> exp]
PostInc(loc) == [tag |-> "inc", loc |-> loc]
Binary(op, a, b) == [op |-> op, args |-> <<a, b>>]
IntLit(n) == [op |-> "int", num |-> n]
ID(name) == [op |-> "id", name |-> name]
ArrayIndex(name, index) == [op |-> "index", name |-> name, index |-> index]

\* Rules 2 to 10: the program is the list of its declarations and the loop.
DeclarationValue(n) ==
    CASE n \in {2, 3} -> Append(S(1), S(0))
      [] n \in {4, 10} -> <<>>
      [] n = 5 -> Const(S(3).name, S(1).num, TRUE)
      [] n = 6 -> Const(S(3).name, S(1).num, FALSE)
      [] n = 7 -> Array(S(5).name, S(2))
      [] n = 8 -> <<S(2).num>> \o S(0)
      [] n = 9 -> <<S(0).num>>

\* Rules 11 to 17: the loops, and what the innermost holds.
NestValue(n) ==
    CASE n = 11 -> For(S(7), S(6), S(4), <<S(1)>>)
      [] n = 12 -> For(S(7), S(6), S(4), S(1))
      [] n = 13 -> Append(S(1), S(0))
      [] n = 15 -> S(0)
      [] n \in {14, 16, 17} -> <<S(0)>>

\* Rules 18 to 22: the conditions over one or two variables.
CompareValue(n) ==
    CASE n = 18 -> If("IS_EVEN", <<S(8).name>>, S(5), S(1))
      [] n = 19 -> If("LT", <<S(10).name, S(8).name>>, S(5), S(1))
      [] n = 20 -> If("LTE", <<S(10).name, S(8).name>>, S(5), S(1))
      [] n = 21 -> If("GT", <<S(10).name, S(8).name>>, S(5), S(1))
      [] n = 22 -> If("GTE", <<S(10).name, S(8).name>>, S(5), S(1))

\* Rules 23 to 26: the conditions on edges.
EdgeValue(n) ==
    CASE n = 23 -> If("EDGE", <<S(8).name>>, S(5), S(1))
      [] n = 24 -> If("EDGE2OR", <<S(11).name, S(8).name>>, S(5), S(1))
      [] n = 25 -> If("EDGE2AND", <<S(11).name, S(8).name>>, S(5), S(1))
      [] n = 26 -> If("PAD", <<S(11).name, S(10).name, S(9).name, S(8).name>>, S(5), S(1))

Reversed(s) == [k \in 1 .. Len(s) |-> s[Len(s) + 1 - k]]

\* Fault: the cases are left in the order the stack gave them up.
SwitchValueUnreversed(n) ==
    CASE n = 27 -> Switch(S(4).name, S(1))
      [] n = 28 -> Append(S(0), S(1))
      [] n = 29 -> <<S(0)>>
      [] n = 30 -> S(0)

\* Rules 27 to 30: the cases are gathered last first and then reversed.
SwitchValue(n) ==
    CASE n = 27 -> Switch(S(4).name, Reversed(S(1)))
      [] n = 28 -> Append(S(0), S(1))
      [] n = 29 -> <<S(0)>>
      [] n = 30 -> S(0)

\* Rules 31 to 38: statements and operators.
OperatorValue(n) ==
    CASE n = 31 -> Out(S(1))
      [] n = 32 -> NoValue
      [] n = 33 -> Binary("plus", S(2), S(0))
      [] n = 34 -> Binary("less", S(2), S(0))
      [] n = 35 -> Binary("times", S(2), S(0))
      [] n = 36 -> Binary("minus", S(2), S(0))
      [] n = 37 -> S(0)
      [] n = 38 -> PostInc(S(1))

\* Rules 39 to 46: the operands.
OperandValue(n) ==
    CASE n \in {39, 41, 42, 44} -> S(0)
      [] n = 40 -> S(1)
      [] n = 43 -> IntLit(S(0).num)
      [] n = 45 -> ArrayIndex(S(3).name, S(1).name)
      [] n = 46 -> ID(S(0).name)

SemanticValue(n) ==
    CASE n \in 2 .. 10  -> DeclarationValue(n)
      [] n \in 11 .. 17 -> NestValue(n)
      [] n \in 18 .. 22 -> CompareValue(n)
      [] n \in 23 .. 26 -> EdgeValue(n)
      [] n \in 27 .. 30 -> SwitchValue(n)
      [] n \in 31 .. 38 -> OperatorValue(n)
      [] OTHER          -> OperandValue(n)

-----------------------------------------------------------------------------
(* The steps of parse(). *)

\* yybackup calls the scanner.
ParserCalls ==
    /\ result = -1 /\ TopState # yyfinal_ /\ NeedsToken
    /\ CallScanner
    /\ UNCHANGED parserVars

\* The call has returned: the result becomes the lookahead.
ParserReads ==
    /\ result = -1 /\ TopState # yyfinal_ /\ NeedsToken
    /\ scan = "idle" /\ kind # NoToken
    /\ la' = yytranslate_(kind) /\ laValue' = lval
    /\ kind' = NoToken
    /\ UNCHANGED <<input, buf, bufSize, eofPending, text, cpos, state, accepted,
                   scan, lval, line, col, source, last, stack, result, root>>

Deciding == result = -1 /\ TopState # yyfinal_ /\ ~NeedsToken

Shift(move) ==
    /\ move[1] = "shift"
    /\ stack' = Append(stack, [state |-> move[2], sym |-> la, value |-> laValue])
    /\ la' = Empty /\ laValue' = NoValue
    /\ UNCHANGED <<scanVars, result, root>>

Reduce(move) ==
    /\ move[1] = "reduce"
    /\ \E v \in {SemanticValue(move[2])} :
       LET n     == move[2]
           below == SubSeq(stack, 1, Len(stack) - At(yyr2_, n))
           lhs   == At(yyr1_, n)
       IN  /\ stack' = Append(below,
                   [state |-> yy_lr_goto_state_(below[Len(below)].state, lhs),
                    sym |-> lhs, value |-> v])
           /\ root' = IF n = 2 THEN [tag |-> "program", body |-> v] ELSE root
    /\ UNCHANGED <<scanVars, la, laValue, result>>

\* yyerrlab, yyerrlab1: the error is reported, no state of the stack shifts the
\* error token, and the parse is given up with an empty stack.
Abort(move) ==
    /\ move[1] = "error"
    /\ stack' = <<stack[1]>> /\ result' = 1
    /\ la' = Empty /\ laValue' = NoValue
    /\ UNCHANGED <<scanVars, root>>

Accept ==
    /\ result = -1 /\ TopState = yyfinal_
    /\ stack' = <<stack[1]>> /\ result' = 0
    /\ la' = Empty /\ laValue' = NoValue
    /\ UNCHANGED <<scanVars, root>>

ParserStep ==
    \/ ParserCalls \/ ParserReads \/ Accept
    \/ (Deciding /\ \E move \in {Decision} : Shift(move) \/ Reduce(move) \/ Abort(move))
    \/ (ScanStep /\ UNCHANGED parserVars)
====
