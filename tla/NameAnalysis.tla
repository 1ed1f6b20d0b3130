---- MODULE NameAnalysis ----
(***************************************************************************)
(* The name analysis (name_analysis.cpp) over a chain of scopes            *)
(* (symbol_table.cpp).  The recursion over the tree is the list todo of    *)
(* what is still to be visited: statements, and the scopes to leave.       *)
(***************************************************************************)
EXTENDS Parser

VARIABLES
    todo,     \* what the pass in progress has still to visit
    scopes,   \* scopeTableChain, the innermost last: sets of symbols
    attached, \* the symbols attached to the names of the tree
    names     \* "no", "running", and then "ok", "failed" or "died"

nameVars == <<todo, scopes, attached, names>>

NameInit == todo = <<>> /\ scopes = <<>> /\ attached = {} /\ names = "no"

LeaveScope == [tag |-> "leave"]

Symbol(decl, depth) ==
    [name |-> decl.name, depth |-> depth,
     type |-> IF decl.tag = "const" THEN "int" ELSE "intarray"]

\* SymbolTable::find: the symbol of the innermost scope that has the name.
Declared(chain, name) == \E k \in DOMAIN chain : \E s \in chain[k] : s.name = name

find(chain, name) ==
    LET depth == CHOOSE k \in DOMAIN chain :
                     /\ \E s \in chain[k] : s.name = name
                     /\ \A j \in k + 1 .. Len(chain) :
                            \A s \in chain[j] : s.name # name
    IN  CHOOSE s \in chain[depth] : s.name = name

\* Fault: only the current scope is searched.
clashCurrent(chain, name) == \E s \in chain[Len(chain)] : s.name = name

\* SymbolTable::clash: names are unique over the whole chain.
clash(chain, name) == \E k \in DOMAIN chain : \E s \in chain[k] : s.name = name

\* ScopeTable::insert in the current scope.
insert(chain, s) == [chain EXCEPT ![Len(chain)] = @ \cup {s}]

\* The names an expression uses, in the order they are looked up.
RECURSIVE NamesIn(_)
NamesIn(e) ==
    CASE e.op = "int"   -> <<>>
      [] e.op = "id"    -> <<e.name>>
      [] e.op = "index" -> <<e.name, e.index>>
      [] OTHER          -> NamesIn(e.args[1]) \o NamesIn(e.args[2])

RECURSIVE NamesOfAll(_)
NamesOfAll(outs) == IF outs = <<>> THEN <<>>
                    ELSE NamesIn(Head(outs).exp) \o NamesOfAll(Tail(outs))

RECURSIVE Flat(_)
Flat(lists) == IF lists = <<>> THEN <<>> ELSE Head(lists) \o Flat(Tail(lists))

\* The names of a statement of the innermost loop: the condition's first.
NamesOfStatement(s) ==
    CASE s.tag = "out"    -> NamesIn(s.exp)
      [] s.tag = "if"     -> s.ids \o NamesOfAll(s.yes) \o NamesOfAll(s.no)
      [] s.tag = "switch" -> s.ids \o NamesOfAll(Flat(s.cases))

Resolves(chain, used) == \A k \in DOMAIN used : Declared(chain, used[k])
Symbols(chain, used) == {find(chain, used[k]) : k \in DOMAIN used}

-----------------------------------------------------------------------------
Visiting(tags) == names = "running" /\ todo # <<>> /\ Head(todo).tag \in tags

\* NameAnalysis::build and ProgramNode.
NamesStart ==
    /\ names = "no"
    /\ names' = "running"
    /\ scopes' = <<{}>>
    /\ todo' = root.body \o <<LeaveScope>>
    /\ UNCHANGED attached

\* ConstDeclNode and ConstArrayDeclNode: a name already declared is an error.
NamesDeclare ==
    /\ Visiting({"const", "array"})
    /\ LET s == Symbol(Head(todo), Len(scopes)) IN
       IF clash(scopes, s.name)
       THEN names' = "failed" /\ UNCHANGED <<todo, scopes, attached>>
       ELSE /\ scopes' = insert(scopes, s)
            /\ attached' = attached \cup {s}
            /\ todo' = Tail(todo)
            /\ UNCHANGED names

\* ForStmtNode: the condition is analysed even when the declaration failed,
\* and an undeclared name in it fails an assertion.
NamesFor ==
    /\ Visiting({"for"})
    /\ LET loop   == Head(todo)
           inner  == Append(scopes, {})
           s      == Symbol(loop.init, Len(inner))
           init   == ~clash(inner, s.name)
           chain  == IF init THEN insert(inner, s) ELSE inner
           cond   == NamesIn(loop.cond)
           update == NamesIn(loop.update.loc)
       IN  CASE ~Resolves(chain, cond) ->
                    names' = "died" /\ UNCHANGED <<todo, scopes, attached>>
             [] Resolves(chain, cond) /\ ~(init /\ Resolves(chain, update)) ->
                    names' = "failed" /\ UNCHANGED <<todo, scopes, attached>>
             [] OTHER ->
                    /\ scopes' = chain
                    /\ attached' = attached \cup {s} \cup Symbols(chain, cond \o update)
                    /\ todo' = loop.body \o <<LeaveScope>> \o Tail(todo)
                    /\ UNCHANGED names

\* OutStmtNode, IfStmtNode, SwitchStmtNode, and the expressions in them.
NamesUse ==
    /\ Visiting({"out", "if", "switch"})
    /\ LET used == NamesOfStatement(Head(todo)) IN
       IF Resolves(scopes, used)
       THEN /\ attached' = attached \cup Symbols(scopes, used)
            /\ todo' = Tail(todo)
            /\ UNCHANGED <<scopes, names>>
       ELSE names' = "failed" /\ UNCHANGED <<todo, scopes, attached>>

NamesLeave ==
    /\ Visiting({"leave"})
    /\ scopes' = SubSeq(scopes, 1, Len(scopes) - 1)
    /\ todo' = Tail(todo)
    /\ UNCHANGED <<attached, names>>

NamesEnd ==
    /\ names = "running" /\ todo = <<>>
    /\ names' = "ok"
    /\ UNCHANGED <<todo, scopes, attached>>

NameStep ==
    NamesStart \/ NamesDeclare \/ NamesFor \/ NamesUse \/ NamesLeave \/ NamesEnd
====
