---- MODULE TypeAnalysis ----
(***************************************************************************)
(* The type analysis (type_analysis.cpp): it visits the tree to its end,   *)
(* gathers errors in hasError, and records the one conditional of the      *)
(* innermost loop for the configuration of the hardware.                   *)
(***************************************************************************)
EXTENDS NameAnalysis

VARIABLES
    types,    \* "no", "running", "ok" or "failed"
    hasError,
    condInfo  \* conditionalCode, outStatementsPerCond, condIndices

typeVars == <<types, hasError, condInfo>>

NoCondition == [code |-> "DISABLE", outPerCond |-> 0, ids |-> <<>>]

TypeInit == types = "no" /\ hasError = FALSE /\ condInfo = NoCondition

\* IDNode: the type of the symbol attached to the name.
TypeOfName(name) == (CHOOSE s \in attached : s.name = name).type

\* The type of an expression; an operand of a wrong type is an error, and so
\* is all that is built on it.
RECURSIVE TypeOfExp(_)
TypeOfExp(e) ==
    LET ints(args) == TypeOfExp(args[1]) = "int" /\ TypeOfExp(args[2]) = "int"
    IN  CASE e.op = "int"   -> "int"
          [] e.op = "id"    -> TypeOfName(e.name)
          [] e.op = "index" -> IF /\ TypeOfName(e.name) = "intarray"
                                  /\ TypeOfName(e.index) = "int"
                               THEN "int" ELSE "error"
          [] e.op = "less"  -> IF ints(e.args) THEN "bool" ELSE "error"
          [] OTHER          -> IF ints(e.args) THEN "int" ELSE "error"

validAssignOpd(type) == type \in {"bool", "int", "error"}

checkAssign(dst, src) ==
    IF validAssignOpd(dst) /\ validAssignOpd(src) /\ dst = src /\ dst # "error"
    THEN "void" ELSE "error"

\* The type of a declaration: void when its value may be assigned.
TypeOfDeclaration(decl) ==
    IF decl.tag = "const" THEN checkAssign(TypeOfName(decl.name), "int")
    ELSE "intarray"

Typing(tags) == types = "running" /\ todo # <<>> /\ Head(todo).tag \in tags

TypesStart ==
    /\ types = "no"
    /\ types' = "running" /\ todo' = root.body
    /\ UNCHANGED <<hasError, condInfo>>

TypesDeclare ==
    /\ Typing({"const", "array"})
    /\ hasError' = (hasError \/ TypeOfDeclaration(Head(todo)) = "error")
    /\ todo' = Tail(todo)
    /\ UNCHANGED <<types, condInfo>>

\* The rigid form of a loop that the hardware asks for.
LoopError(loop) ==
    \/ loop.init.tag # "const"
    \/ TypeOfDeclaration(loop.init) # "void"
    \/ loop.cond.op # "less"
    \/ TypeOfExp(loop.cond) # "bool"
    \/ loop.update.tag # "inc"

\* ForStmtNode; the form is checked after the body, which tells nothing but
\* the order of the messages.
TypesFor ==
    /\ Typing({"for"})
    /\ hasError' = (hasError \/ LoopError(Head(todo)))
    /\ todo' = Head(todo).body \o Tail(todo)
    /\ UNCHANGED <<types, condInfo>>

IdsAreInts(ids) == \A k \in DOMAIN ids : TypeOfName(ids[k]) = "int"

\* IfStmtNode: the variables, then the sizes of the branches.  The statements
\* of the branches are not visited.
TypesIf ==
    /\ Typing({"if"})
    /\ LET s == Head(todo) IN
       IF IdsAreInts(s.ids) /\ Len(s.yes) = Len(s.no)
       THEN /\ condInfo' = [code |-> s.type, outPerCond |-> Len(s.yes), ids |-> s.ids]
            /\ UNCHANGED hasError
       ELSE hasError' = TRUE /\ UNCHANGED condInfo
    /\ todo' = Tail(todo)
    /\ UNCHANGED types

SameSizes(cases) == \A k \in DOMAIN cases : Len(cases[k]) = Len(cases[1])

\* Fault: the count that is recorded is the number of cases.
SwitchInfoCountsCases(s) ==
    [code |-> "SWITCH", outPerCond |-> Len(s.cases), ids |-> s.ids]

SwitchInfo(s) == [code |-> "SWITCH", outPerCond |-> Len(s.cases[1]), ids |-> s.ids]

\* SwitchStmtNode.
TypesSwitch ==
    /\ Typing({"switch"})
    /\ LET s == Head(todo) IN
       IF IdsAreInts(s.ids) /\ SameSizes(s.cases)
       THEN condInfo' = SwitchInfo(s) /\ UNCHANGED hasError
       ELSE hasError' = TRUE /\ UNCHANGED condInfo
    /\ todo' = Tail(todo)
    /\ UNCHANGED types

TypesOut ==
    /\ Typing({"out"})
    /\ hasError' = (hasError \/ TypeOfExp(Head(todo).exp) # "int")
    /\ todo' = Tail(todo)
    /\ UNCHANGED <<types, condInfo>>

\* TypeAnalysis::build returns nullptr when anything was wrong.
TypesEnd ==
    /\ types = "running" /\ todo = <<>>
    /\ types' = IF hasError THEN "failed" ELSE "ok"
    /\ UNCHANGED <<todo, hasError, condInfo>>

TypeStep ==
    \/ TypesStart \/ TypesDeclare \/ TypesFor \/ TypesIf \/ TypesSwitch
    \/ TypesOut \/ TypesEnd
====
