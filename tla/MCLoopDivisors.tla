---------------------------- MODULE MCLoopDivisors ----------------------------
(* Words of six bits: one and two OUT statements, every pair of bounds up  *)
(* to half a word, three loops of small bounds, and bounds whose product   *)
(* wraps, to 0 included.  A bound of 0 is what Collapse gives a variable.  *)
EXTENDS LoopDivisors

MCPow == [k \in 0 .. 12 |-> 2^k]

Small == {0, 1, 2, 3, 5}

MCNests == [outs : {1, 3}, incs : {<<a, b>> : a, b \in 0 .. 33}]
           \cup [outs : {1, 2, 5}, incs : {<<a, b, c>> : a, b, c \in Small}]
=============================================================================
