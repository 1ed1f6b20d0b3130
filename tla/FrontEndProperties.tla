---- MODULE FrontEndProperties ----
(***************************************************************************)
(* What the front end promises, stated without its tables and passes: the  *)
(* patterns of lexer.l, the rules of parser.yy, and, for the tree and the  *)
(* verdict, the program the text was written from.                         *)
(***************************************************************************)
EXTENDS FrontEnd

-----------------------------------------------------------------------------
(* Types: what a value of each symbol is (the %type lines of parser.yy). *)

HasOp(v, ops) == "op" \in DOMAIN v /\ v.op \in ops
HasTag(v, tags) == "tag" \in DOMAIN v /\ v.tag \in tags
ListOf(v, tags) == DOMAIN v = 1 .. Len(v) /\ \A k \in DOMAIN v : HasTag(v[k], tags)

Operators == {"plus", "less", "times", "minus"}

Shape(symbol, v) ==
    CASE symbol \in {"expr", "term", "factor"} ->
             HasOp(v, Operators \cup {"int", "id", "index"})
      [] symbol = "loc"    -> HasOp(v, {"id", "index"})
      [] symbol = "id"     -> HasOp(v, {"id"})
      [] symbol = "intlit" -> HasOp(v, {"int"})
      [] symbol = "constdecl"       -> HasTag(v, {"const", "array"})
      [] symbol = "constdecls"      -> ListOf(v, {"const", "array"})
      [] symbol = "program"         -> ListOf(v, {"const", "array", "for"})
      [] symbol = "forstatement"    -> HasTag(v, {"for"})
      [] symbol = "unarystmt"       -> HasTag(v, {"inc"})
      [] symbol = "ifstatement"     -> HasTag(v, {"if"})
      [] symbol = "switchstatement" -> HasTag(v, {"switch"})
      [] symbol = "outstatement"    -> HasTag(v, {"out"})
      [] symbol \in {"outstatements", "casestatement"} -> ListOf(v, {"out"})
      [] symbol = "innernest"       -> ListOf(v, {"out", "if", "switch"})
      [] symbol = "casestatements"  -> \A k \in DOMAIN v : ListOf(v[k], {"out"})
      [] symbol = "intlist"         -> \A k \in DOMAIN v : v[k] \in Nat
      [] OTHER -> DOMAIN v = {"name", "num"}

SymbolName(sym) == At(yytname_, sym)

\* The type invariant: the pointers of the scanner stay in its buffer and the
\* buffer in its size, and every value on the stack has the type its symbol
\* declares, which the parser reads back without a check (as< T >()).
FrontTypeOK ==
    /\ text \in 0 .. cpos /\ cpos \in 0 .. Len(buf) /\ Len(buf) <= bufSize
    /\ state \in 1 .. 78 /\ scan \in {"idle", "yy_match", "yy_find_action"}
    /\ kind \in {NoToken, 0} \cup 258 .. 290
    /\ \A k \in DOMAIN stack : Shape(SymbolName(stack[k].sym), stack[k].value)
    /\ result \in {-1, 0, 1}
    /\ stage \in {"parse", "names", "types", "dump", "done"}
    /\ \A k \in DOMAIN scopes : \A s \in scopes[k] : s.type \in {"int", "intarray"}

-----------------------------------------------------------------------------
(* The patterns of lexer.l. *)

Literals == <<
    <<"o", "u", "t">>, <<"n", "o", "p", "t">>, <<"f", "o", "r">>,
    <<"i", "n", "t">>, <<"=">>, <<"+">>, <<"{">>, <<"<">>, <<"<", "=">>,
    <<">">>, <<">", "=">>, <<"(">>, <<"+", "+">>, <<"}">>, <<")">>, <<";">>,
    <<"*">>, <<",">>, <<"[">>, <<"]">>, <<"-">>, <<":">>, <<"|", "|">>,
    <<"&", "&">>, <<"i", "f">>, <<"i", "s", "E", "v", "e", "n", "?">>,
    <<"i", "s", "E", "d", "g", "e", "?">>, <<"s", "w", "i", "t", "c", "h">>,
    <<"c", "a", "s", "e">>, <<"e", "l", "s", "e">>, <<"p", "a", "d", "?">>>>

LongestLiteral == 7
DIGIT == DOMAIN Digits
LETTER == {"a", "b", "c", "d", "e", "f", "g", "h", "i", "j", "k", "l", "m", "n",
           "o", "p", "q", "r", "s", "t", "u", "v", "w", "x", "y", "z", "A", "B",
           "C", "D", "E", "F", "G", "H", "I", "J", "K", "L", "M", "N", "O", "P",
           "Q", "R", "S", "T", "U", "V", "W", "X", "Y", "Z"}

All(w, chars) == \A k \in DOMAIN w : w[k] \in chars

Matches(rule, w) ==
    CASE rule \in 1 .. 31 -> w = Literals[rule]
      [] rule = 32 -> w[1] \in LETTER \cup {"_"} /\ All(w, LETTER \cup DIGIT \cup {"_"})
      [] rule = 33 -> All(w, DIGIT)
      [] rule = 34 -> w \in {<<"\n">>, <<"\r", "\n">>}
      [] rule = 35 -> All(w, {" ", "\t"})
      [] rule = 36 -> Len(w) = 1 /\ w # <<"\n">>

\* The characters of the text from offset i, n of them.
Piece(i, n) == SubSeq(source, i + 1, i + n)

LongestFirst(l) ==
    LET w == Piece(l.from, l.to - l.from)
    IN  /\ w # <<>> /\ Matches(l.rule, w)
        /\ \A r \in 1 .. l.rule - 1 : ~Matches(r, w)
        /\ \A n \in l.to + 1 .. l.to + LongestLiteral :
               n <= Len(source) =>
                   \A r \in 1 .. 36 : ~Matches(r, Piece(l.from, n - l.from))

NewlinesBefore(i) == {k \in 1 .. i : source[k] = "\n"}
LineStart(i) == IF NewlinesBefore(i) = {} THEN 0
                ELSE CHOOSE k \in NewlinesBefore(i) : \A j \in NewlinesBefore(i) : j <= k

\* However the text is cut by the refills, the buffer holds the characters of
\* the text in their order; the lexemes follow one another without gap; and
\* each is the longest any rule of lexer.l matches, taken by the first such
\* rule, at the line and column it has in the text (lexer.yy.cc yylex,
\* yy_get_next_buffer).
TokensExact ==
    /\ buf = Piece(Offset, Len(buf))
    /\ input = SubSeq(source, Len(source) - Len(input) + 1, Len(source))
    /\ last # NoLexeme /\ cpos = text =>
           /\ last.from = last.after
           /\ LongestFirst(last)
           /\ last.line = 1 + Cardinality(NewlinesBefore(last.from))
           /\ last.col = 1 + last.from - LineStart(last.from)
    \* the end is answered only when every character has been taken
    /\ kind = 0 => last.to = Len(source)

-----------------------------------------------------------------------------
(* The rules of parser.yy, by number. *)

Branches == <<"LCURLY", "outstatements", "RCURLY", "ELSE",
              "LCURLY", "outstatements", "RCURLY">>
LoopHead == <<"FOR", "LPAREN", "constdecl", "expr", "SEMICOL", "unarystmt",
              "RPAREN", "LCURLY">>

Grammar == <<
    <<"$accept", <<"program", "end file">>>>,
    <<"program", <<"constdecls", "forstatement">>>>,
    <<"constdecls", <<"constdecls", "constdecl">>>>,
    <<"constdecls", <<>>>>,
    <<"constdecl", <<"type", "id", "ASSIGN", "intlit", "SEMICOL">>>>,
    <<"constdecl", <<"NOPT", "type", "id", "ASSIGN", "intlit", "SEMICOL">>>>,
    <<"constdecl", <<"type", "id", "ASSIGN", "LCURLY", "intlist", "RCURLY", "SEMICOL">>>>,
    <<"intlist", <<"intlit", "COMMA", "intlist">>>>,
    <<"intlist", <<"intlit">>>>,
    <<"intlist", <<>>>>,
    <<"forstatement", LoopHead \o <<"forstatement", "RCURLY">>>>,
    <<"forstatement", LoopHead \o <<"innernest", "RCURLY">>>>,
    <<"outstatements", <<"outstatements", "outstatement">>>>,
    <<"outstatements", <<"outstatement">>>>,
    <<"innernest", <<"outstatements">>>>,
    <<"innernest", <<"ifstatement">>>>,
    <<"innernest", <<"switchstatement">>>>,
    <<"ifstatement", <<"IF", "LPAREN", "ISEVEN", "id", "RPAREN">> \o Branches>>,
    <<"ifstatement", <<"IF", "LPAREN", "id", "LESS", "id", "RPAREN">> \o Branches>>,
    <<"ifstatement", <<"IF", "LPAREN", "id", "LESSEQUAL", "id", "RPAREN">> \o Branches>>,
    <<"ifstatement", <<"IF", "LPAREN", "id", "GREATER", "id", "RPAREN">> \o Branches>>,
    <<"ifstatement", <<"IF", "LPAREN", "id", "GREATEREQUAL", "id", "RPAREN">> \o Branches>>,
    <<"ifstatement", <<"IF", "LPAREN", "ISEDGE", "id", "RPAREN">> \o Branches>>,
    <<"ifstatement", <<"IF", "LPAREN", "ISEDGE", "id", "OR", "ISEDGE", "id", "RPAREN">>
                     \o Branches>>,
    <<"ifstatement", <<"IF", "LPAREN", "ISEDGE", "id", "AND", "ISEDGE", "id", "RPAREN">>
                     \o Branches>>,
    <<"ifstatement", <<"IF", "LPAREN", "PAD", "id", "id", "id", "id", "RPAREN">>
                     \o Branches>>,
    <<"switchstatement", <<"SWITCH", "LPAREN", "id", "RPAREN", "LCURLY",
                           "casestatements", "RCURLY">>>>,
    <<"casestatements", <<"casestatement", "casestatements">>>>,
    <<"casestatements", <<"casestatement">>>>,
    <<"casestatement", <<"CASE", "COLON", "outstatements">>>>,
    <<"outstatement", <<"OUT", "ASSIGN", "expr", "SEMICOL">>>>,
    <<"type", <<"INT">>>>,
    <<"expr", <<"expr", "CROSS", "expr">>>>,
    <<"expr", <<"expr", "LESS", "expr">>>>,
    <<"expr", <<"expr", "STAR", "expr">>>>,
    <<"expr", <<"expr", "MINUS", "expr">>>>,
    <<"expr", <<"term">>>>,
    <<"unarystmt", <<"loc", "POSTINC">>>>,
    <<"term", <<"factor">>>>,
    <<"term", <<"LPAREN", "expr", "RPAREN">>>>,
    <<"factor", <<"intlit">>>>,
    <<"factor", <<"loc">>>>,
    <<"intlit", <<"INTLITERAL">>>>,
    <<"loc", <<"id">>>>,
    <<"loc", <<"id", "LBRACKET", "id", "RBRACKET">>>>,
    <<"id", <<"ID">>>>>>

Handle(entries) == [k \in DOMAIN entries |-> SymbolName(entries[k].sym)]

\* Every reduction the tables choose undoes a rule of parser.yy: the symbols on
\* the top of the stack are its right-hand side, and the stack holds the symbol
\* each of its states is entered by.  What is accepted is therefore derived by
\* the grammar, whatever the default reductions did before an error was seen.
ReductionsFollowGrammar ==
    /\ \A k \in 2 .. Len(stack) : At(yystos_, stack[k].state) = stack[k].sym
    /\ stage = "parse" /\ Deciding /\ Decision[1] = "reduce" =>
           LET rule == Grammar[Decision[2]]
               n    == At(yyr2_, Decision[2])
           IN  /\ SymbolName(At(yyr1_, Decision[2])) = rule[1]
               /\ Handle(SubSeq(stack, Len(stack) - n + 1, Len(stack))) = rule[2]
    \* nothing is accepted before the text is over
    /\ result = 0 => input = <<>> /\ last.to = Len(source)

-----------------------------------------------------------------------------
(* The program the text was written from, and the tree. *)

\* Different names have different values, so that expressions that agree here
\* are not made to agree by chance.
ValueOfName(name) ==
    LET values == <<3, 5, 7, 11, 13, 17, 19>>
        letters == <<"i", "j", "A", "B", "N", "M", "z">>
    IN  values[CHOOSE k \in DOMAIN letters : letters[k] = name[1]]

RECURSIVE ValueOf(_)
ValueOf(e) ==
    CASE e.op = "int"   -> e.num
      [] e.op = "id"    -> ValueOfName(e.name)
      [] e.op = "index" -> 100 * ValueOfName(e.name) + 1000 * ValueOfName(e.index)
      [] e.op = "plus"  -> ValueOf(e.args[1]) + ValueOf(e.args[2])
      [] e.op = "minus" -> ValueOf(e.args[1]) - ValueOf(e.args[2])
      [] e.op = "times" -> ValueOf(e.args[1]) * ValueOf(e.args[2])
      [] e.op = "less"  -> IF ValueOf(e.args[1]) < ValueOf(e.args[2]) THEN 1 ELSE 0

RECURSIVE SameExp(_, _)
SameExp(e, f) ==
    IF "less" \in {e.op, f.op}
    THEN e.op = f.op /\ \A k \in 1 .. 2 : SameExp(e.args[k], f.args[k])
    ELSE ValueOf(e) = ValueOf(f)

SameOuts(s, t) ==
    Len(s) = Len(t) /\ \A k \in DOMAIN s : s[k].tag = "out" /\ t[k].tag = "out"
                                           /\ SameExp(s[k].exp, t[k].exp)

RECURSIVE SameStatement(_, _)
SameBody(s, t) == Len(s) = Len(t) /\ \A k \in DOMAIN s : SameStatement(s[k], t[k])
SameStatement(s, t) ==
    /\ s.tag = t.tag
    /\ CASE s.tag \in {"const", "array"} -> s = t
         [] s.tag = "for" -> /\ s.init = t.init /\ SameExp(s.cond, t.cond)
                             /\ s.update = t.update /\ SameBody(s.body, t.body)
         [] s.tag = "out" -> SameExp(s.exp, t.exp)
         [] s.tag = "if"  -> /\ s.type = t.type /\ s.ids = t.ids
                             /\ SameOuts(s.yes, t.yes) /\ SameOuts(s.no, t.no)
         [] s.tag = "switch" -> /\ s.ids = t.ids /\ Len(s.cases) = Len(t.cases)
                                /\ \A k \in DOMAIN s.cases :
                                       SameOuts(s.cases[k], t.cases[k])

\* The tree of an accepted text is the program it was written from: the same
\* statements in the same order, with the names, values and cases as written
\* (a literal too large for an int is reported and reads as 0, and so it is in
\* the program it is compared with),
\* and expressions of the value the conventional reading gives them, although
\* MINUS binds tighter than CROSS in parser.yy.
TreeIsProgram ==
    result = 0 /\ intent # Broken => SameBody(root.body, intent.body)

-----------------------------------------------------------------------------
(* When a program is right, stated over the program as written. *)

RECURSIVE LoopsOf(_)
LoopsOf(loop) == IF loop.body[1].tag = "for" THEN <<loop>> \o LoopsOf(loop.body[1])
                 ELSE <<loop>>

Globals(p) == SubSeq(p.body, 1, Len(p.body) - 1)
Loops(p) == LoopsOf(LoopOf(p))

\* Every declaration, in the order it is written.
Declarations(p) == Globals(p) \o [k \in DOMAIN Loops(p) |-> Loops(p)[k].init]

DeclaredBefore(p, k) == {Declarations(p)[j].name : j \in 1 .. k - 1}
Repeated(p, k) == Declarations(p)[k].name \in DeclaredBefore(p, k)
DeclaredAt(p, k) == DeclaredBefore(p, k) \cup {Declarations(p)[k].name}
NameSet(used) == {used[k] : k \in DOMAIN used}

InnerOf(p) == Innermost(LoopOf(p))
NamesInside(p) == UNION {NameSet(NamesOfStatement(InnerOf(p)[k])) : k \in DOMAIN InnerOf(p)}

\* What is wrong with the names at the k-th declaration, if anything.  An
\* undeclared name in the condition of a loop ends the process.
FaultAt(p, k) ==
    LET g == Len(Globals(p)) IN
    IF k <= g THEN IF Repeated(p, k) THEN "names" ELSE ""
    ELSE LET loop  == Loops(p)[k - g]
             known == DeclaredAt(p, k)
         IN  IF ~(NameSet(NamesIn(loop.cond)) \subseteq known) THEN "died"
             ELSE IF \/ Repeated(p, k)
                     \/ ~(NameSet(NamesIn(loop.update.loc)) \subseteq known)
                  THEN "names" ELSE ""

NameFaults(p) == {k \in DOMAIN Declarations(p) : FaultAt(p, k) # ""}

IsArray(p, name) == \E k \in DOMAIN Declarations(p) :
    Declarations(p)[k].name = name /\ Declarations(p)[k].tag = "array"

RECURSIVE Numeric(_, _)
Numeric(p, e) ==
    CASE e.op = "int"   -> TRUE
      [] e.op = "id"    -> ~IsArray(p, e.name)
      [] e.op = "index" -> IsArray(p, e.name) /\ ~IsArray(p, e.index)
      [] e.op = "less"  -> FALSE
      [] OTHER          -> Numeric(p, e.args[1]) /\ Numeric(p, e.args[2])

Alternatives(s) == IF s.tag = "if" THEN <<s.yes, s.no>> ELSE s.cases

RightStatement(p, s) ==
    IF s.tag = "out" THEN Numeric(p, s.exp)
    ELSE /\ \A k \in DOMAIN s.ids : ~IsArray(p, s.ids[k])
         /\ \A j, k \in DOMAIN Alternatives(s) :
                Len(Alternatives(s)[j]) = Len(Alternatives(s)[k])

RightLoop(p, loop) ==
    /\ loop.init.tag = "const"
    /\ loop.cond.op = "less"
    /\ Numeric(p, loop.cond.args[1]) /\ Numeric(p, loop.cond.args[2])

Verdict(p) ==
    IF p = Broken THEN "syntax"
    ELSE IF NameFaults(p) # {}
    THEN FaultAt(p, CHOOSE k \in NameFaults(p) : \A j \in NameFaults(p) : k <= j)
    ELSE IF ~(NamesInside(p) \subseteq NameSet([k \in DOMAIN Declarations(p) |->
                                                   Declarations(p)[k].name]))
    THEN "names"
    ELSE IF /\ \A k \in DOMAIN Loops(p) : RightLoop(p, Loops(p)[k])
            /\ \A k \in DOMAIN InnerOf(p) : RightStatement(p, InnerOf(p)[k])
    THEN "ok" ELSE "types"

\* Two rules the code states of itself and no pass looks at.
ComparesItsVariable(loop) ==
    loop.cond.op = "less" /\ loop.cond.args[1] = ID(loop.init.name)

OutsOf(s) == IF s.tag = "out" THEN <<s>> ELSE Flat(Alternatives(s))
TypedThroughout(p, s) == \A k \in DOMAIN OutsOf(s) : Numeric(p, OutsOf(s)[k].exp)

AsDocumented(p) ==
    /\ \A k \in DOMAIN Loops(p) : ComparesItsVariable(Loops(p)[k])
    /\ \A k \in DOMAIN InnerOf(p) : TypedThroughout(p, InnerOf(p)[k])

Claimed(p) == Verdict(p) = "ok" => AsDocumented(p)

\* A text is compiled exactly when it is a program, every name is declared once
\* and before it is used, every loop compares numbers, and conditionals are
\* balanced; otherwise the call fails in the pass the first fault belongs to
\* (API::Compile).  Nothing is claimed here of a program whose only fault is
\* against one of the two rules above: that the code takes it for right is
\* what CompilesAsDocumented is about.
AnalysesDecide ==
    stage = "done" /\ mode = "compile" /\ Claimed(intent) => answer = Verdict(intent)

\* A program that compiles obeys both rules.  First, the left-hand side of a
\* loop's condition is the loop's variable (name_analysis.cpp:29-32, "We need to
\* impose the constraint of making sure the init variable is the same as the
\* left hand side of the condition statement"); the code takes the right side
\* for the bound and looks no further (LessNode::Collapse).  Second, every OUT
\* statement has a number for a value, those in branches and cases included
\* (type_analysis.hpp:43-44, the analysis "will be passed over the entire AST");
\* IfStmtNode::typeAnalysis and SwitchStmtNode::typeAnalysis never visit them.
CompilesAsDocumented == answer = "ok" => AsDocumented(intent)

\* What the hardware is told of a conditional fits the statements it gets: with
\* outStatementsPerCond statements to an alternative, statement k of alternative
\* j is the one written there, and the variables are those of the condition, in
\* their order.  Without a conditional nothing is told.
CaseOfStatement ==
    answer = "ok" =>
        LET s == InnerOf(intent)[1]
            n == condInfo.outPerCond
        IN  IF s.tag = "out"
            THEN condInfo = NoCondition /\ SameOuts(collapsed, InnerOf(intent))
            ELSE /\ condInfo.code = IF s.tag = "if" THEN s.type ELSE "SWITCH"
                 /\ condInfo.ids = s.ids
                 /\ Len(collapsed) = n * Len(Alternatives(s))
                 /\ \A j \in DOMAIN Alternatives(s) : \A k \in 1 .. n :
                        SameExp(collapsed[(j - 1) * n + k].exp,
                                Alternatives(s)[j][k].exp)

\* Every call ends: with an answer, or with the end of the process.
Answered == <>(stage = "done" /\ answer # "")
====
