---- MODULE MCFrontEnd ----
(***************************************************************************)
(* Small programs, spelled out in characters, for the front end.           *)
(***************************************************************************)
EXTENDS FrontEndProperties, TLC

-----------------------------------------------------------------------------
(* Spelling: a program as its tokens, and the tokens as a text. *)

W(tokens) == [k \in DOMAIN tokens |->
    Literals[CHOOSE r \in 1 .. 31 : RuleToken[r] = tokens[k]]]

Level(e) == CASE e.op = "less" -> 1
              [] e.op \in {"plus", "minus"} -> 2
              [] e.op = "times" -> 3
              [] OTHER -> 4

Sign == [less |-> "LESS", plus |-> "CROSS", minus |-> "MINUS", times |-> "STAR"]

\* Parentheses only where the conventional reading needs them.
RECURSIVE ExpTokens(_, _)
ExpTokens(e, min) ==
    IF Level(e) < min THEN W(<<"LPAREN">>) \o ExpTokens(e, 1) \o W(<<"RPAREN">>)
    ELSE CASE e.op = "int"   -> <<<<ToString(e.num)>>>>
           [] e.op = "id"    -> <<e.name>>
           [] e.op = "index" -> <<e.name>> \o W(<<"LBRACKET">>) \o <<e.index>>
                                \o W(<<"RBRACKET">>)
           [] OTHER -> ExpTokens(e.args[1], Level(e)) \o W(<<Sign[e.op]>>)
                       \o ExpTokens(e.args[2], Level(e) + 1)

\* A list of values is spelled with a comma after the last when ends is TRUE.
RECURSIVE ListTokens(_, _)
ListTokens(vals, ends) ==
    IF vals = <<>> THEN <<>>
    ELSE <<<<ToString(Head(vals))>>>>
         \o (IF Len(vals) > 1 \/ ends THEN W(<<"COMMA">>) ELSE <<>>)
         \o ListTokens(Tail(vals), ends)

RECURSIVE OutTokens(_)
OutTokens(outs) ==
    IF outs = <<>> THEN <<>>
    ELSE W(<<"OUT", "ASSIGN">>) \o ExpTokens(Head(outs).exp, 1) \o W(<<"SEMICOL">>)
         \o OutTokens(Tail(outs))

Block(outs) == W(<<"LCURLY">>) \o OutTokens(outs) \o W(<<"RCURLY">>)

RECURSIVE CaseTokens(_)
CaseTokens(cases) ==
    IF cases = <<>> THEN <<>>
    ELSE W(<<"CASE", "COLON">>) \o OutTokens(Head(cases)) \o CaseTokens(Tail(cases))

Comparison == [LT |-> "LESS", LTE |-> "LESSEQUAL", GT |-> "GREATER", GTE |-> "GREATEREQUAL"]

ConditionTokens(type, ids) ==
    CASE type = "IS_EVEN"  -> W(<<"ISEVEN">>) \o ids
      [] type = "EDGE"     -> W(<<"ISEDGE">>) \o ids
      [] type = "EDGE2OR"  -> W(<<"ISEDGE">>) \o <<ids[1]>> \o W(<<"OR", "ISEDGE">>) \o <<ids[2]>>
      [] type = "EDGE2AND" -> W(<<"ISEDGE">>) \o <<ids[1]>> \o W(<<"AND", "ISEDGE">>) \o <<ids[2]>>
      [] type = "PAD"      -> W(<<"PAD">>) \o ids
      [] OTHER             -> <<ids[1]>> \o W(<<Comparison[type]>>) \o <<ids[2]>>

RECURSIVE Tokens(_)
Tokens(body) ==
    IF body = <<>> THEN <<>>
    ELSE LET s == Head(body) IN
         (CASE s.tag = "const" ->
                   (IF s.opt THEN <<>> ELSE W(<<"NOPT">>)) \o W(<<"INT">>) \o <<s.name>>
                   \o W(<<"ASSIGN">>) \o <<<<ToString(s.val)>>>> \o W(<<"SEMICOL">>)
            [] s.tag = "array" ->
                   W(<<"INT">>) \o <<s.name>> \o W(<<"ASSIGN", "LCURLY">>)
                   \o ListTokens(s.vals, Len(s.vals) = 3) \o W(<<"RCURLY", "SEMICOL">>)
            [] s.tag = "for" ->
                   W(<<"FOR", "LPAREN">>) \o Tokens(<<s.init>>) \o ExpTokens(s.cond, 1)
                   \o W(<<"SEMICOL">>) \o ExpTokens(s.update.loc, 1)
                   \o W(<<"POSTINC", "RPAREN", "LCURLY">>) \o Tokens(s.body) \o W(<<"RCURLY">>)
            [] s.tag = "out" -> OutTokens(<<s>>)
            [] s.tag = "if" ->
                   W(<<"IF", "LPAREN">>) \o ConditionTokens(s.type, s.ids) \o W(<<"RPAREN">>)
                   \o Block(s.yes) \o W(<<"ELSE">>) \o Block(s.no)
            [] s.tag = "switch" ->
                   W(<<"SWITCH", "LPAREN">>) \o s.ids \o W(<<"RPAREN", "LCURLY">>)
                   \o CaseTokens(s.cases) \o W(<<"RCURLY">>))
         \o Tokens(Tail(body))

Word == LETTER \cup DIGIT \cup {"_"}

\* The tokens with gap between them, or with a blank only where one is needed.
RECURSIVE Joined(_, _)
Joined(tokens, gap) ==
    IF Len(tokens) <= 1 THEN Flat(tokens)
    ELSE LET a == tokens[1] b == tokens[2] IN
         a \o (IF gap # <<>> THEN gap
               ELSE IF a[Len(a)] \in Word /\ b[1] \in Word THEN <<" ">> ELSE <<>>)
         \o Joined(Tail(tokens), gap)

Program(body) == [tag |-> "program", body |-> body]
Spelled(p, gap) == [text |-> Joined(Tokens(p.body), gap), intent |-> p]
NoProgram(tokens) == [text |-> Joined(tokens, <<>>), intent |-> Broken]

-----------------------------------------------------------------------------
(* The programs. *)

i == <<"i">>  j == <<"j">>  A == <<"A">>  B == <<"B">>
N == <<"N">>  M == <<"M">>  z == <<"z">>

Less(a, b) == Binary("less", a, b)
Loop(name, bound, body) ==
    For(Const(name, 0, TRUE), Less(ID(name), bound), PostInc(ID(name)), body)

Decls == <<Const(N, 4, TRUE), Array(A, <<1, 2>>)>>
Around(inner) == Program(Decls \o <<Loop(i, ID(N), inner)>>)
Short(inner) == Program(<<Loop(i, IntLit(2), inner)>>)
Outs(e) == <<Out(e)>>

Arith == {"plus", "minus", "times"}
x == ID(i)  y == ID(N)  c == IntLit(2)

Expressions ==
    {Binary(o, Binary(p, x, y), c) : o, p \in Arith}
    \cup {Binary(o, x, Binary(p, y, c)) : o, p \in Arith}
    \cup {Binary(o, Binary(p, x, y), Binary(q, y, c)) : o \in {"minus", "plus"},
             p \in Arith, q \in {"minus", "times"}}
    \cup {ArrayIndex(A, i), Binary("plus", ArrayIndex(A, i), c), ID(A), ArrayIndex(N, i),
          ArrayIndex(A, A), ArrayIndex(z, i), ArrayIndex(A, z), ID(z), Less(x, c),
          Binary("times", Less(x, c), y)}

Conditions ==
    {<<type, <<i>>>> : type \in {"IS_EVEN", "EDGE"}}
    \cup {<<type, <<i, N>>>> : type \in {"LT", "LTE", "GT", "GTE", "EDGE2OR", "EDGE2AND"}}
    \cup {<<"PAD", <<i, N, i, N>>>>, <<"LT", <<A, N>>>>, <<"GTE", <<i, z>>>>}

Branchings ==
    {If(k[1], k[2], Outs(x), Outs(c)) : k \in Conditions}
    \cup {If("LT", <<N, i>>, <<Out(x), Out(c)>>, <<Out(y), Out(x)>>),
          If("LT", <<N, i>>, <<Out(x), Out(c)>>, <<Out(y)>>),
          If("IS_EVEN", <<i>>, Outs(x), Outs(ID(z))),
          If("IS_EVEN", <<i>>, Outs(x), Outs(ID(A))),
          Switch(i, <<Outs(x)>>),
          Switch(i, <<Outs(x), Outs(c), Outs(y)>>),
          Switch(i, <<<<Out(x), Out(y)>>, <<Out(c), Out(x)>>, <<Out(y), Out(c)>>>>),
          Switch(i, <<Outs(x), <<Out(x), Out(c)>>>>),
          Switch(A, <<Outs(x)>>), Switch(z, <<Outs(x)>>)}

Heads ==
    {<<Const(N, 4, FALSE)>>, <<Const(N, 4, TRUE), Const(N, 5, TRUE)>>,
     <<Const(N, 4, TRUE), Array(N, <<>>)>>, <<Array(A, <<>>), Array(B, <<7>>)>>,
     <<Array(A, <<1, 2, 3>>), Const(M, 0, TRUE)>>, <<Const(i, 0, TRUE)>>}

LoopsOne ==
    {For(Const(i, 0, FALSE), Less(x, c), PostInc(x), Outs(x)),
     For(Array(i, <<0>>), Less(c, c), PostInc(x), Outs(c)),
     For(Const(i, 0, TRUE), x, PostInc(x), Outs(x)),
     For(Const(i, 0, TRUE), Binary("plus", x, c), PostInc(x), Outs(x)),
     For(Const(i, 0, TRUE), Less(Binary("times", c, x), c), PostInc(x), Outs(x)),
     For(Const(i, 0, TRUE), Less(ID(z), c), PostInc(x), Outs(x)),
     For(Const(i, 0, TRUE), Less(x, Less(x, c)), PostInc(x), Outs(x)),
     For(Const(i, 0, TRUE), Less(x, c), PostInc(ID(z)), Outs(x)),
     For(Const(i, 0, TRUE), Less(x, c), PostInc(ArrayIndex(i, i)), Outs(x)),
     Loop(i, c, <<Loop(j, c, Outs(ID(j)))>>),
     Loop(i, c, <<Loop(i, c, Outs(x))>>),
     Loop(i, c, <<Loop(j, x, <<Loop(z, ID(j), <<Switch(z, <<Outs(x)>>)>>)>>)>>),
     Loop(i, ID(j), <<Loop(j, c, Outs(x))>>)}

BigTokens(digits) ==
    W(<<"INT">>) \o <<N>> \o W(<<"ASSIGN">>) \o <<digits>> \o W(<<"SEMICOL">>)
    \o Tokens(Short(Outs(x)).body)
Big(digits, n) ==
    [text |-> Joined(BigTokens(digits), <<>>),
     intent |-> Program(<<Const(N, n, TRUE)>> \o Short(Outs(x)).body)]

Base == Tokens(Short(Outs(x)).body)
Without(t, k) == SubSeq(t, 1, k - 1) \o SubSeq(t, k + 1, Len(t))
Doubled(t, k) == SubSeq(t, 1, k) \o SubSeq(t, k, Len(t))

\* One token left out or doubled, and a text that stops early or goes on.
NoPrograms ==
    {NoProgram(Without(Base, k)) : k \in DOMAIN Base}
    \cup {NoProgram(Doubled(Base, k)) : k \in DOMAIN Base}
    \cup {NoProgram(SubSeq(Base, 1, k)) : k \in {0, 1, 9, 15}}
    \cup {NoProgram(Base \o Base), NoProgram(Base \o <<z>>)}

MCPrograms ==
    {Spelled(Around(Outs(e)), <<>>) : e \in Expressions}
    \cup {Spelled(Around(<<b>>), <<>>) : b \in Branchings}
    \cup {Spelled(Program(<<l>>), <<>>) : l \in LoopsOne}
    \cup {Spelled(Program(h \o <<Loop(i, c, <<Out(x), Out(c)>>)>>), <<>>) : h \in Heads}
    \cup {Spelled(Short(Outs(x)), gap) :
             gap \in {<<" ">>, <<"\n">>, <<"\r", "\n", "\t">>, <<"@">>, <<"NUL">>}}
    \cup {Big(<<"2", "1", "4", "7", "4", "8", "3", "6", "4", "7">>, 2147483647),
          Big(<<"2", "1", "4", "7", "4", "8", "3", "6", "4", "8">>, 0),
          Big(<<"0", "0", "1", "0", "0", "0", "0", "0", "0", "0", "0">>, 100000000),
          Big(<<"1", "0", "0", "0", "0", "0", "0", "0", "0", "0", "0">>, 0)}
    \cup NoPrograms

\* A program against both rules of AsDocumented, and against no other.
UndocumentedPrograms ==
    {Spelled(Program(Decls \o <<For(Const(i, 0, TRUE), Less(Binary("times", c, x), c), PostInc(x),
                                    <<If("IS_EVEN", <<i>>, Outs(ID(A)), Outs(c))>>)>>), <<>>)}

\* Short texts over characters whose patterns overlap.
TextsOver(chars, n) == UNION {[1 .. k -> chars] : k \in 0 .. n}

NoTexts == {}

MCTexts ==
    TextsOver({"i", "f", "?", "1", "<", "="}, 4)
    \cup TextsOver({"\n", "\r", " ", "NUL", "a", "+", "&"}, 3)
    \cup {a \o b : a \in {SubSeq(Literals[26], 1, k) : k \in 1 .. 7}
                         \cup {SubSeq(Literals[27], 1, k) : k \in 3 .. 7}
                         \cup {SubSeq(Literals[28], 1, k) : k \in 1 .. 6},
                  b \in {<<>>, <<"x">>, <<"?">>, <<"NUL">>, <<"\r">>}}
====
