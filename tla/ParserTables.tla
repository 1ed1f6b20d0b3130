---- MODULE ParserTables ----
(***************************************************************************)
(* The tables bison generated for the parser, counting from zero like the *)
(* arrays they stand for.                                                  *)
(***************************************************************************)
EXTENDS ScannerTables

\* where the row of a state begins in yytable_; -92 when it always takes its default.
yypact_ == <<
    -92, 7, 18, -92, 4, -92, 31, -92, -92, 15, 15, 17, -92, 53, 54, 67, 24,
    66, -92, 67, 107, -92, -92, -92, -92, 61, 66, 80, 88, 121, 67, 67, 15,
    67, 67, 15, 71, 90, -92, -92, -92, 20, 21, 105, 118, -92, 101, 113, 123,
    66, 137, -92, -92, -92, -92, 50, 159, 152, 154, 153, 147, 155, -92, -92,
    -92, 67, 15, -2, -92, -92, -92, 125, 156, 15, 15, 15, 85, -92, 162, 157,
    -15, 15, 15, 15, 15, 15, 148, 164, 168, 146, 149, 15, 160, 163, 165,
    166, 158, 169, 148, 147, 147, 15, 15, 15, 171, 178, 179, 180, 147, -92,
    -92, -10, 34, 172, 173, 174, 147, 147, 147, 147, 147, 167, 170, 184,
    185, 186, 37, 38, 69, 70, 187, 188, 147, 147, 147, 175, 176, 177, 181,
    147, 147, 102, 103, 115, 190, 191, 193, 194, 126, 132, 182, 183, 189,
    147, 147, 147, 147, -92, -92, 195, 196, 200, 133, 135, 136, 139, 147,
    147, 147, -92, -92, -92, -92, 142, 143, 145, -92, -92, -92>>

\* the rule a state reduces by default, 0 for an error.
yydefact_ == <<
    4, 0, 0, 1, 0, 32, 0, 3, 2, 0, 0, 0, 46, 0, 0, 0, 0, 0, 43, 0, 0, 37,
    39, 41, 42, 44, 10, 0, 0, 0, 0, 0, 0, 0, 0, 0, 0, 9, 5, 6, 40, 34, 33,
    0, 0, 35, 36, 0, 0, 10, 0, 38, 45, 7, 8, 0, 0, 0, 0, 0, 15, 0, 16, 17,
    14, 0, 0, 0, 11, 13, 12, 0, 0, 0, 0, 0, 0, 31, 0, 0, 0, 0, 0, 0, 0, 0,
    0, 0, 0, 0, 0, 0, 0, 0, 0, 0, 0, 0, 29, 0, 0, 0, 0, 0, 0, 0, 0, 0, 0,
    27, 28, 0, 0, 0, 0, 0, 0, 0, 0, 0, 30, 0, 0, 0, 0, 0, 0, 0, 0, 0, 0, 0,
    0, 0, 0, 0, 0, 0, 0, 0, 0, 0, 0, 0, 0, 0, 0, 0, 0, 0, 0, 0, 0, 0, 0, 0,
    0, 18, 23, 0, 0, 0, 0, 0, 0, 0, 0, 0, 0, 19, 20, 21, 22, 0, 0, 0, 24,
    25, 26>>

\* where the gotos of a nonterminal begin in yytable_.
yypgoto_ == <<
    -92, -92, -92, 198, 161, 192, -91, -92, -92, -92, 116, -92, -60, 211,
    -18, -92, -92, -92, -12, 197, 26>>

\* the goto of a nonterminal from a state without an entry.
yydefgoto_ == <<
    0, 1, 2, 7, 36, 8, 60, 61, 62, 63, 97, 98, 64, 9, 20, 43, 21, 22, 23,
    24, 25>>

\* the state to shift to or to go to.
yytable_ == <<
    69, 29, 88, 12, 27, 28, 121, 3, 111, 112, 5, 56, 41, 42, 37, 45, 46,
    120, 89, 90, 12, 4, 4, 5, 5, 126, 127, 128, 129, 73, 74, 18, 26, 75, 31,
    13, 14, 37, 6, 33, 33, 141, 142, 143, 11, 34, 34, 71, 148, 149, 122, 69,
    69, 135, 136, 56, 16, 17, 56, 56, 69, 47, 162, 163, 164, 165, 69, 69,
    69, 69, 6, 56, 12, 18, 18, 173, 174, 175, 57, 58, 19, 69, 69, 69, 35,
    137, 138, 48, 69, 69, 56, 56, 72, 76, 82, 83, 84, 85, 38, 79, 80, 81,
    69, 69, 69, 69, 39, 91, 92, 93, 94, 95, 49, 69, 69, 69, 30, 103, 150,
    151, 33, 31, 50, 56, 56, 32, 33, 113, 114, 115, 30, 152, 34, 51, 30, 31,
    56, 52, 40, 31, 33, 53, 157, 77, 33, 55, 34, 56, 158, 169, 34, 170, 171,
    56, 56, 172, 56, 56, 176, 177, 56, 178, 65, 56, 56, 66, 56, 67, 56, 68,
    86, 70, 99, 78, 87, 96, 100, 104, 101, 116, 105, 102, 106, 107, 108,
    109, 117, 118, 119, 123, 124, 125, 132, 133, 134, 139, 140, 130, 153,
    154, 131, 155, 156, 166, 167, 144, 145, 146, 168, 15, 54, 147, 159, 160,
    110, 10, 0, 0, 0, 161, 0, 0, 0, 0, 0, 0, 0, 0, 0, 44, 0, 0, 0, 0, 0, 0,
    0, 0, 0, 0, 0, 0, 0, 0, 0, 0, 0, 59>>

\* the symbol, or the state for a goto, an entry of yytable_ belongs to.
yycheck_ == <<
    60, 19, 17, 5, 16, 17, 16, 0, 99, 100, 6, 21, 30, 31, 26, 33, 34, 108,
    33, 34, 5, 4, 4, 6, 6, 116, 117, 118, 119, 31, 32, 7, 8, 35, 14, 9, 10,
    49, 20, 19, 19, 132, 133, 134, 13, 25, 25, 65, 139, 140, 16, 111, 112,
    16, 16, 21, 3, 3, 21, 21, 120, 35, 153, 154, 155, 156, 126, 127, 128,
    129, 20, 21, 5, 7, 7, 166, 167, 168, 28, 29, 13, 141, 142, 143, 23, 16,
    16, 16, 148, 149, 21, 21, 66, 67, 9, 10, 11, 12, 18, 73, 74, 75, 162,
    163, 164, 165, 18, 81, 82, 83, 84, 85, 22, 173, 174, 175, 9, 91, 16, 16,
    19, 14, 17, 21, 21, 18, 19, 101, 102, 103, 9, 16, 25, 15, 9, 14, 21, 24,
    17, 14, 19, 18, 16, 18, 19, 8, 25, 21, 16, 16, 25, 16, 16, 21, 21, 16,
    21, 21, 16, 16, 21, 16, 3, 21, 21, 13, 21, 13, 21, 16, 8, 16, 8, 17, 17,
    27, 8, 17, 32, 8, 17, 32, 17, 17, 26, 16, 8, 8, 8, 17, 17, 17, 8, 8, 8,
    8, 8, 30, 8, 8, 30, 8, 8, 8, 8, 30, 30, 30, 8, 11, 49, 30, 30, 30, 98,
    4, -1, -1, -1, 30, -1, -1, -1, -1, -1, -1, -1, -1, -1, 32, -1, -1, -1,
    -1, -1, -1, -1, -1, -1, -1, -1, -1, -1, -1, -1, -1, -1, 55>>

\* the symbol a state is entered by.
yystos_ == <<
    0, 37, 38, 0, 4, 6, 20, 39, 41, 49, 49, 13, 5, 56, 56, 39, 3, 3, 7, 13,
    50, 52, 53, 54, 55, 56, 8, 54, 54, 50, 9, 14, 18, 19, 25, 23, 40, 54,
    18, 18, 17, 50, 50, 51, 55, 50, 50, 56, 16, 22, 17, 15, 24, 18, 40, 8,
    21, 28, 29, 41, 42, 43, 44, 45, 48, 3, 13, 13, 16, 48, 16, 50, 56, 31,
    32, 35, 56, 18, 17, 56, 56, 56, 9, 10, 11, 12, 8, 17, 17, 33, 34, 56,
    56, 56, 56, 56, 27, 46, 47, 8, 8, 32, 32, 56, 17, 17, 17, 17, 26, 16,
    46, 42, 42, 56, 56, 56, 8, 8, 8, 8, 42, 16, 16, 17, 17, 17, 42, 42, 42,
    42, 30, 30, 8, 8, 8, 16, 16, 16, 16, 8, 8, 42, 42, 42, 30, 30, 30, 30,
    42, 42, 16, 16, 16, 8, 8, 8, 8, 16, 16, 30, 30, 30, 42, 42, 42, 42, 8,
    8, 8, 16, 16, 16, 16, 42, 42, 42, 16, 16, 16>>

\* the left-hand side of a rule.
yyr1_ == <<
    0, 36, 37, 38, 38, 39, 39, 39, 40, 40, 40, 41, 41, 42, 42, 43, 43, 43,
    44, 44, 44, 44, 44, 44, 44, 44, 44, 45, 46, 46, 47, 48, 49, 50, 50, 50,
    50, 50, 51, 52, 52, 53, 53, 54, 55, 55, 56>>

\* the length of the right-hand side of a rule.
yyr2_ == <<
    0, 2, 2, 2, 0, 5, 6, 7, 3, 1, 0, 10, 10, 2, 1, 1, 1, 1, 12, 13, 13, 13,
    13, 12, 15, 15, 15, 7, 2, 1, 3, 4, 1, 3, 3, 3, 3, 1, 2, 1, 3, 1, 1, 1,
    1, 4, 1>>

YYNTOKENS == 36
yylast_ == 247
yyfinal_ == 3
yypact_ninf_ == -92

\* The names of the symbols, by number.
yytname_ == <<
    "end file", "error", "invalid token", "ASSIGN", "NOPT", "ID", "INT",
    "INTLITERAL", "LCURLY", "LESS", "LESSEQUAL", "GREATER", "GREATEREQUAL",
    "LPAREN", "CROSS", "POSTINC", "RCURLY", "RPAREN", "SEMICOL", "STAR",
    "FOR", "OUT", "COMMA", "LBRACKET", "RBRACKET", "MINUS", "COLON", "CASE",
    "SWITCH", "IF", "ELSE", "ISEVEN", "ISEDGE", "OR", "AND", "PAD", "$accept",
    "program", "constdecls", "constdecl", "intlist", "forstatement",
    "outstatements", "innernest", "ifstatement", "switchstatement",
    "casestatements", "casestatement", "outstatement", "type", "expr",
    "unarystmt", "term", "factor", "intlit", "loc", "id">>

\* The symbol of a token code: 258 is the first kind the grammar declares.
yytranslate_(t) == CASE t <= 0             -> 0
                     [] t \in 256 .. 290 -> t - 255
                     [] OTHER              -> 2
====
