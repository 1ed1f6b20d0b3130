---- MODULE Scanner ----
(***************************************************************************)
(* The generated scanner (lexer.yy.cc), the rules of lexer.l it runs and   *)
(* the positions Scanner keeps.  A text is a sequence of characters.  The  *)
(* scanner reads it one character at a time into a buffer that grows, so   *)
(* most lexemes are met in pieces: the automaton runs into the end-of-     *)
(* buffer mark, a character is read, and the run is taken up again.        *)
(*                                                                         *)
(* The caller of yylex is another component: it starts a call when scan is *)
(* "idle" and no result waits in kind, and takes the result.               *)
(***************************************************************************)
EXTENDS ScannerTables, FiniteSets

CONSTANT YY_BUF_SIZE      \* the size the buffer begins with

ASSUME BufSizeAssumption == YY_BUF_SIZE \in Nat \ {0}

VARIABLES
    input,      \* the characters of the stream not read yet
    buf,        \* yy_ch_buf up to yy_n_chars; two end marks follow
    bufSize,    \* yy_buf_size
    eofPending, \* yy_buffer_status = YY_BUFFER_EOF_PENDING
    text,       \* yytext_ptr: where the current lexeme begins
    cpos,       \* yy_c_buf_p
    state,      \* yy_current_state
    accepted,   \* yy_last_accepting_state and yy_last_accepting_cpos
    scan,       \* "idle", or the label control is at: yy_match, yy_find_action
    kind,       \* the token kind of the last call, NoToken when none waits
    lval,       \* the token the call left
    line, col,  \* lineNum, colNum
    source,     \* the whole text, for the properties
    last        \* the last lexeme taken, for the properties

scanVars == <<input, buf, bufSize, eofPending, text, cpos, state, accepted,
              scan, kind, lval, line, col, source, last>>

NoToken == -2
NoLexeme == [rule |-> 0, after |-> 0, from |-> 0, to |-> 0, line |-> 1, col |-> 1]
NoValue == [name |-> <<>>, num |-> 0]

ScanInit(s) ==
    /\ source = s /\ input = s
    /\ buf = <<>> /\ bufSize = YY_BUF_SIZE /\ eofPending = FALSE
    /\ text = 0 /\ cpos = 0 /\ state = 1 /\ accepted = <<0, 0>>
    /\ scan = "idle" /\ kind = NoToken /\ lval = NoValue
    /\ line = 1 /\ col = 1 /\ last = NoLexeme

-----------------------------------------------------------------------------
(* The automaton. *)

\* The state after s on a character of class c, through the compressed rows.
Trans[s \in 0 .. 79, c \in 0 .. 44] ==
    IF yy_chk(At(yy_base, s) + c) = s THEN yy_nxt(At(yy_base, s) + c)
    ELSE LET d == At(yy_def, s)
         IN  Trans[d, IF d >= 79 THEN At(yy_meta, c) ELSE c]

\* The last accepting state and position, once s has been seen at p.
Seen(s, p, acc) == IF At(yy_accept, s) # 0 THEN <<s, p>> ELSE acc

Positions == Nat \X Nat

\* yy_match: run until the automaton can go no further.
Run ==
    LET class(p) == IF p < Len(buf) THEN yy_ec(At(buf, p)) ELSE 0
        from[s \in 1 .. 78, p \in Nat, acc \in Positions] ==
            IF At(yy_base, Trans[s, class(p)]) = 91
            THEN [state |-> Trans[s, class(p)], cp |-> p + 1, acc |-> Seen(s, p, acc)]
            ELSE from[Trans[s, class(p)], p + 1, Seen(s, p, acc)]
    IN  from[state, cpos, accepted]

\* yy_find_action: back up to the last accepting state when this one is none.
BackedUp(run) ==
    IF At(yy_accept, run.state) = 0
    THEN [act |-> At(yy_accept, run.acc[1]), cp |-> run.acc[2], acc |-> run.acc]
    ELSE [act |-> At(yy_accept, run.state), cp |-> run.cp, acc |-> run.acc]

\* The action found from the label control is at, and where the lexeme ends.
Found == BackedUp(IF scan = "yy_match" THEN Run
                  ELSE [state |-> state, cp |-> cpos, acc |-> accepted])

\* yy_get_previous_state over chars from a position, a NUL being of class 1.
PreviousState(chars, start, found) ==
    LET class(c) == IF c = "NUL" THEN 1 ELSE yy_ec(c)
        over[p \in Nat, s \in 1 .. 78, acc \in Positions] ==
            IF p = Len(chars) THEN [state |-> s, acc |-> acc]
            ELSE over[p + 1, Trans[s, class(At(chars, p))], Seen(s, p, acc)]
    IN  over[start, 1, found]

-----------------------------------------------------------------------------
(* The rules of lexer.l, and what each does with the lexeme. *)

RuleToken == <<
    "OUT", "NOPT", "FOR", "INT", "ASSIGN", "CROSS", "LCURLY", "LESS",
    "LESSEQUAL", "GREATER", "GREATEREQUAL", "LPAREN", "POSTINC", "RCURLY",
    "RPAREN", "SEMICOL", "STAR", "COMMA", "LBRACKET", "RBRACKET", "MINUS",
    "COLON", "OR", "AND", "IF", "ISEVEN", "ISEDGE", "SWITCH", "CASE", "ELSE",
    "PAD", "ID", "INTLITERAL">>

\* The token kinds of frontend.hh, in the order of their codes from 258.
TokenNames == <<
    "ASSIGN", "NOPT", "ID", "INT", "INTLITERAL", "LCURLY", "LESS", "LESSEQUAL",
    "GREATER", "GREATEREQUAL", "LPAREN", "CROSS", "POSTINC", "RCURLY", "RPAREN",
    "SEMICOL", "STAR", "FOR", "OUT", "COMMA", "LBRACKET", "RBRACKET", "MINUS",
    "COLON", "CASE", "SWITCH", "IF", "ELSE", "ISEVEN", "ISEDGE", "OR", "AND",
    "PAD">>

TokenKind(name) == 257 + CHOOSE k \in DOMAIN TokenNames : TokenNames[k] = name

Lexeme(f) == SubSeq(buf, text + 1, f.cp)

Digits == [c \in {"0", "1", "2", "3", "4", "5", "6", "7", "8", "9"} |->
    CHOOSE d \in 0 .. 9 : <<"0", "1", "2", "3", "4", "5", "6", "7", "8", "9">>[d + 1] = c]

RECURSIVE NumberOf(_)
NumberOf(w) == IF w = <<>> THEN 0
               ELSE 10 * NumberOf(SubSeq(w, 1, Len(w) - 1)) + Digits[w[Len(w)]]

\* The part after the leading zeros.
RECURSIVE Significant(_)
Significant(w) == IF w # <<>> /\ Head(w) = "0" THEN Significant(Tail(w)) ELSE w

INT_MAX == <<2, 1, 4, 7, 4, 8, 3, 6, 4, 7>>

\* Rule 33 reports a literal above INT_MAX and goes on with the value 0.
Overflows(w) ==
    LET s == Significant(w) IN
    \/ Len(s) > 10
    \/ /\ Len(s) = 10
       /\ \E k \in 1 .. 10 : /\ Digits[s[k]] > INT_MAX[k]
                             /\ \A j \in 1 .. k - 1 : Digits[s[j]] = INT_MAX[j]

IntVal(w) == IF Overflows(w) THEN 0 ELSE NumberOf(Significant(w))

\* Where the buffer begins in the text.
Offset == Len(source) - Len(input) - Len(buf)

\* The lexeme of f is taken, and the next begins where it ends.
Take(f) ==
    /\ text' = f.cp /\ cpos' = f.cp /\ state' = 1 /\ accepted' = f.acc
    /\ last' = [rule |-> f.act, after |-> last.to, from |-> Offset + text,
                to |-> Offset + f.cp, line |-> line, col |-> col]
    /\ UNCHANGED <<input, buf, bufSize, eofPending, source>>

\* The call returns a token.
ReturnToken(f, value) ==
    /\ Take(f)
    /\ scan' = "idle"
    /\ kind' = TokenKind(RuleToken[f.act])
    /\ lval' = value
    /\ col' = col + f.cp - text
    /\ UNCHANGED line

ScanBareToken(f) ==
    /\ f.act \in 1 .. 31
    /\ ReturnToken(f, NoValue)

ScanID(f) ==
    /\ f.act = 32
    /\ ReturnToken(f, [NoValue EXCEPT !.name = Lexeme(f)])

ScanIntLiteral(f) ==
    /\ f.act = 33
    /\ ReturnToken(f, [NoValue EXCEPT !.num = IntVal(Lexeme(f))])

\* The rules that return nothing: the loop goes round again.
ScanNewline(f) ==
    /\ f.act = 34
    /\ Take(f)
    /\ scan' = "yy_match"
    /\ line' = line + 1 /\ col' = 1
    /\ UNCHANGED <<kind, lval>>

\* Blanks, and a character of no token, which is reported and passed over:
\* EXIT_ON_ERR is not set.
ScanBlankOrIllegal(f) ==
    /\ f.act \in {35, 36}
    /\ Take(f)
    /\ scan' = "yy_match"
    /\ col' = col + f.cp - text
    /\ UNCHANGED <<kind, lval, line>>

-----------------------------------------------------------------------------
(* YY_END_OF_BUFFER, at a real NUL or at the end of what was read. *)

EndOfBuffer(f) == f.act = 38

\* Fault: everything before the mark is kept, the lexemes already taken too.
MovedAll(f) == SubSeq(buf, 1, f.cp - 1)

\* The characters of the current lexeme before the mark, which
\* yy_get_next_buffer moves to the front of the buffer.
Moved(f) == SubSeq(buf, text + 1, f.cp - 1)

\* The mark lies inside the buffer: it is a character of the text, tried as
\* one of class 1.
ScanNul(f) ==
    /\ EndOfBuffer(f) /\ f.cp <= Len(buf)
    /\ LET at   == f.cp - 1
           prev == PreviousState(SubSeq(buf, 1, at), text, f.acc)
           next == Trans[prev.state, 1]
       IN  /\ accepted' = Seen(prev.state, at, prev.acc)
           /\ IF next = JamState
              THEN cpos' = at /\ state' = prev.state /\ scan' = "yy_find_action"
              ELSE cpos' = at + 1 /\ state' = next /\ scan' = "yy_match"
    /\ UNCHANGED <<input, buf, bufSize, eofPending, text, kind, lval, line, col,
                   source, last>>

\* Fault: the buffer keeps the size it has.
GrownNever(size, n) == size

\* The size that leaves room for one more character after n kept ones.
RECURSIVE Grown(_, _)
Grown(size, n) == IF size - n - 1 <= 0 THEN Grown(2 * size, n) ELSE size

\* EOB_ACT_CONTINUE_SCAN: LexerInput had a character.
ScanMore(f) ==
    /\ EndOfBuffer(f) /\ f.cp > Len(buf)
    /\ ~eofPending /\ input # <<>>
    /\ LET prev == PreviousState(Moved(f), 0, f.acc) IN
       /\ buf' = Append(Moved(f), Head(input))
       /\ input' = Tail(input)
       /\ bufSize' = Grown(bufSize, Len(Moved(f)))
       /\ text' = 0 /\ cpos' = Len(Moved(f))
       /\ state' = prev.state /\ accepted' = prev.acc /\ scan' = "yy_match"
    /\ UNCHANGED <<eofPending, kind, lval, line, col, source, last>>

AtEnd(f) == EndOfBuffer(f) /\ f.cp > Len(buf) /\ (eofPending \/ input = <<>>)

\* EOB_ACT_LAST_MATCH: the text is over inside a lexeme, which is taken as far
\* as it goes; the end is met again at the next call.
ScanLastMatch(f) ==
    /\ AtEnd(f) /\ Moved(f) # <<>>
    /\ LET prev == PreviousState(Moved(f), 0, f.acc) IN
       /\ buf' = Moved(f)
       /\ bufSize' = IF eofPending THEN bufSize ELSE Grown(bufSize, Len(Moved(f)))
       /\ eofPending' = TRUE
       /\ text' = 0 /\ cpos' = Len(Moved(f))
       /\ state' = prev.state /\ accepted' = prev.acc /\ scan' = "yy_find_action"
    /\ UNCHANGED <<input, kind, lval, line, col, source, last>>

\* Fault: at the end of the text the call goes round again.
ScanEndOfFileAgain(f) ==
    /\ AtEnd(f) /\ Moved(f) = <<>>
    /\ buf' = <<>> /\ eofPending' = FALSE
    /\ bufSize' = IF eofPending THEN bufSize ELSE Grown(bufSize, 0)
    /\ text' = 0 /\ cpos' = 0 /\ scan' = "yy_match" /\ state' = 1
    /\ UNCHANGED <<input, accepted, kind, lval, line, col, source, last>>

\* EOB_ACT_END_OF_FILE: yyrestart empties the buffer, and the call returns END.
ScanEndOfFile(f) ==
    /\ AtEnd(f) /\ Moved(f) = <<>>
    /\ buf' = <<>> /\ eofPending' = FALSE
    /\ bufSize' = IF eofPending THEN bufSize ELSE Grown(bufSize, 0)
    /\ text' = 0 /\ cpos' = 0 /\ scan' = "idle" /\ kind' = 0
    /\ UNCHANGED <<input, state, accepted, lval, line, col, source, last>>

\* A call of yylex begins.
CallScanner ==
    /\ scan = "idle" /\ kind = NoToken
    /\ scan' = "yy_match" /\ state' = 1 /\ text' = cpos
    /\ UNCHANGED <<input, buf, bufSize, eofPending, cpos, accepted, kind, lval,
                   line, col, source, last>>

\* One action of the switch, for what the automaton found.
ScanStep ==
    /\ scan # "idle"
    /\ \E f \in {Found} :
           \/ ScanBareToken(f) \/ ScanID(f) \/ ScanIntLiteral(f) \/ ScanNewline(f)
           \/ ScanBlankOrIllegal(f) \/ ScanNul(f) \/ ScanMore(f)
           \/ ScanLastMatch(f) \/ ScanEndOfFile(f)
====
