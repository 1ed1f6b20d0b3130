---- MODULE ScannerTables ----
(***************************************************************************)
(* The tables flex generated for the scanner.  The arrays count from zero *)
(* and the sequences here from one, so entry i of an array is At(s, i).   *)
(***************************************************************************)
EXTENDS Integers, Sequences

At(table, i) == table[i + 1]

\* the rule a state accepts, 0 when none; 38 is the end-of-buffer action.
yy_accept == <<
    0, 0, 0, 38, 36, 35, 34, 36, 36, 12, 15, 17, 6, 18, 21, 33, 22, 16, 8,
    5, 10, 32, 19, 20, 32, 32, 32, 32, 32, 32, 32, 32, 7, 36, 14, 35, 34,
    24, 13, 33, 9, 11, 32, 32, 32, 32, 25, 32, 32, 32, 32, 32, 32, 23, 32,
    32, 3, 4, 32, 32, 1, 32, 32, 29, 30, 32, 32, 2, 31, 32, 32, 32, 32, 32,
    32, 28, 27, 26, 0>>

\* the class a template state (79 and above) sees in place of a class.
yy_meta == <<
    0, 1, 1, 1, 1, 1, 1, 1, 1, 1, 1, 1, 2, 1, 1, 1, 1, 1, 1, 2, 2, 1, 1, 2,
    2, 2, 2, 2, 2, 2, 2, 2, 2, 2, 2, 2, 2, 2, 2, 2, 2, 2, 1, 1, 1>>

\* where the row of a state begins in yy_nxt and yy_chk.
yy_base == <<
    0, 0, 0, 90, 91, 87, 91, 85, 82, 91, 91, 91, 77, 91, 91, 73, 91, 91, 68,
    91, 67, 0, 91, 91, 58, 49, 46, 17, 45, 39, 53, 35, 91, 32, 91, 72, 91,
    91, 91, 61, 91, 91, 0, 35, 34, 34, 0, 31, 48, 32, 28, 39, 33, 91, 36,
    35, 0, 0, 20, 23, 0, 41, 20, 0, 0, 28, 29, 0, 91, 30, 26, 19, 21, 31,
    30, 0, 91, 91, 91, 45>>

\* the state whose row stands in where a row has no entry.
yy_def == <<
    0, 78, 1, 78, 78, 78, 78, 78, 78, 78, 78, 78, 78, 78, 78, 78, 78, 78,
    78, 78, 78, 79, 78, 78, 79, 79, 79, 79, 79, 79, 79, 79, 78, 78, 78, 78,
    78, 78, 78, 78, 78, 78, 79, 79, 79, 79, 79, 79, 79, 79, 79, 79, 79, 78,
    79, 79, 79, 79, 79, 79, 79, 79, 79, 79, 79, 79, 79, 79, 78, 79, 79, 79,
    79, 79, 79, 79, 78, 78, 0, 78>>

JamState == 78

\* the next state; from 92 on every entry is the jam state.
yy_nxt_rows == <<
    0, 4, 5, 6, 7, 8, 9, 10, 11, 12, 13, 14, 15, 16, 17, 18, 19, 20, 4, 21,
    21, 22, 23, 21, 21, 24, 21, 25, 26, 21, 21, 27, 21, 28, 29, 30, 21, 31,
    21, 21, 21, 21, 32, 33, 34, 46, 65, 42, 77, 76, 47, 75, 74, 73, 48, 72,
    71, 70, 69, 68, 66, 67, 64, 63, 62, 61, 60, 59, 58, 57, 56, 55, 54, 39,
    35, 53, 52, 51, 50, 49, 45, 44, 43, 41, 40, 39, 38, 37, 36, 35, 78, 3>>

yy_nxt(i) == IF i < 92 THEN At(yy_nxt_rows, i) ELSE JamState

\* the state an entry belongs to; from 91 on every entry is the jam state.
yy_chk_rows == <<
    0, 1, 1, 1, 1, 1, 1, 1, 1, 1, 1, 1, 1, 1, 1, 1, 1, 1, 1, 1, 1, 1, 1, 1,
    1, 1, 1, 1, 1, 1, 1, 1, 1, 1, 1, 1, 1, 1, 1, 1, 1, 1, 1, 1, 1, 27, 58,
    79, 74, 73, 27, 72, 71, 70, 27, 69, 66, 65, 62, 61, 58, 59, 55, 54, 52,
    51, 50, 49, 48, 47, 45, 44, 43, 39, 35, 33, 31, 30, 29, 28, 26, 25, 24,
    20, 18, 15, 12, 8, 7, 5, 3>>

yy_chk(i) == IF i < 91 THEN At(yy_chk_rows, i) ELSE JamState

\* The class of a character; a character absent here is of class 1.
EquivalenceClasses == <<
    {" ", "\t"}, {"\n"}, {"\r"}, {"&"}, {"("}, {")"}, {"*"}, {"+"}, {","},
    {"-"}, {"0", "1", "2", "3", "4", "5", "6", "7", "8", "9"}, {":"}, {";"},
    {"<"}, {"="}, {">"}, {"?"},
    {"A", "B", "C", "D", "F", "G", "H", "I", "J", "K", "L", "M", "N", "O",
     "P", "Q", "R", "S", "T", "U", "V", "W", "X", "Y", "Z", "b", "j", "k",
     "m", "q", "x", "y", "z"},
    {"E"}, {"["}, {"]"}, {"_"}, {"a"}, {"c"}, {"d"}, {"e"}, {"f"}, {"g"},
    {"h"}, {"i"}, {"l"}, {"n"}, {"o"}, {"p"}, {"r"}, {"s"}, {"t"}, {"u"},
    {"v"}, {"w"}, {"{"}, {"|"}, {"}"}>>

ClassOf ==
    [c \in UNION {EquivalenceClasses[k] : k \in DOMAIN EquivalenceClasses} |->
        1 + CHOOSE k \in DOMAIN EquivalenceClasses : c \in EquivalenceClasses[k]]

\* NUL is the character the end-of-buffer marks are made of, of class 0.
yy_ec(c) == IF c = "NUL" THEN 0 ELSE IF c \in DOMAIN ClassOf THEN ClassOf[c] ELSE 1
====
