---- MODULE FrontEnd ----
(***************************************************************************)
(* The front end of API::Compile (dtl_api.cpp): scanner, parser, name      *)
(* analysis, type analysis, and the flattening of the conditional that the *)
(* transform pass begins with; and Scanner::outputTokens, which only       *)
(* scans.  A behaviour is one call, on one text.                           *)
(*                                                                         *)
(* intent is the program the text was written from, or Broken for a text   *)
(* that is no program.  The properties compare what comes out with it.     *)
(***************************************************************************)
EXTENDS TypeAnalysis

CONSTANTS
    Programs,  \* records of a text and the intent it was written from
    Texts      \* texts for the dump of the tokens

VARIABLES
    mode,      \* "compile" or "dump"
    intent,
    stage,     \* "parse", "names", "types", "dump" and then "done"
    answer,    \* how the call ended
    collapsed  \* the output statements in the order the hardware gets them

frontVars == <<mode, intent, stage, answer, collapsed>>
vars == <<scanVars, parserVars, nameVars, typeVars, frontVars>>

Broken == [tag |-> "broken"]

Init ==
    /\ ParserInit /\ NameInit /\ TypeInit
    /\ answer = "" /\ collapsed = <<>>
    /\ \/ /\ mode = "compile" /\ stage = "parse"
          /\ \E p \in Programs : ScanInit(p.text) /\ intent = p.intent
       \/ /\ mode = "dump" /\ stage = "dump" /\ intent = Broken
          /\ \E t \in Texts : ScanInit(t)

-----------------------------------------------------------------------------
Answer(a) == stage' = "done" /\ answer' = a

\* Parser::parse runs until it returns.
Parse ==
    /\ stage = "parse" /\ result = -1
    /\ ParserStep
    /\ UNCHANGED <<nameVars, typeVars, frontVars>>

ParseReturns ==
    /\ stage = "parse" /\ result # -1
    /\ IF result = 0 THEN stage' = "names" /\ UNCHANGED answer ELSE Answer("syntax")
    /\ UNCHANGED <<scanVars, parserVars, nameVars, typeVars, mode, intent, collapsed>>

AnalyseNames ==
    /\ stage = "names" /\ names \in {"no", "running"}
    /\ NameStep
    /\ UNCHANGED <<scanVars, parserVars, typeVars, frontVars>>

NamesReturn ==
    /\ stage = "names" /\ names \in {"ok", "failed", "died"}
    /\ IF names = "ok" THEN stage' = "types" /\ UNCHANGED answer
       ELSE Answer(IF names = "failed" THEN "names" ELSE "died")
    /\ UNCHANGED <<scanVars, parserVars, nameVars, typeVars, mode, intent, collapsed>>

AnalyseTypes ==
    /\ stage = "types" /\ types \in {"no", "running"}
    /\ TypeStep
    /\ UNCHANGED <<scanVars, parserVars, scopes, attached, names, frontVars>>

\* CollapseStatements: the branches one after the other.
Collapse(body) ==
    CASE body[1].tag = "if"     -> body[1].yes \o body[1].no
      [] body[1].tag = "switch" -> Flat(body[1].cases)
      [] OTHER                  -> body

\* The body of the innermost loop.
RECURSIVE Innermost(_)
Innermost(loop) == IF loop.body[1].tag = "for" THEN Innermost(loop.body[1])
                   ELSE loop.body

LoopOf(program) == program.body[Len(program.body)]

TypesReturn ==
    /\ stage = "types" /\ types \in {"ok", "failed"}
    /\ Answer(IF types = "ok" THEN "ok" ELSE "types")
    /\ collapsed' = IF types = "ok" THEN Collapse(Innermost(LoopOf(root)))
                    ELSE collapsed
    /\ UNCHANGED <<scanVars, parserVars, nameVars, typeVars, mode, intent>>

\* Scanner::outputTokens calls the scanner until it says END.
DumpCalls ==
    /\ stage = "dump"
    /\ CallScanner
    /\ UNCHANGED <<parserVars, nameVars, typeVars, frontVars>>

DumpScans ==
    /\ stage = "dump"
    /\ ScanStep
    /\ UNCHANGED <<parserVars, nameVars, typeVars, frontVars>>

DumpReturns ==
    /\ stage = "dump" /\ scan = "idle" /\ kind # NoToken
    /\ kind' = NoToken
    /\ IF kind = 0 THEN Answer("dumped") ELSE UNCHANGED <<stage, answer>>
    /\ UNCHANGED <<input, buf, bufSize, eofPending, text, cpos, state, accepted,
                   scan, lval, line, col, source, last, parserVars, nameVars,
                   typeVars, mode, intent, collapsed>>

Next ==
    \/ Parse \/ ParseReturns \/ AnalyseNames \/ NamesReturn \/ AnalyseTypes
    \/ TypesReturn \/ DumpCalls \/ DumpScans \/ DumpReturns

\* One thread runs the call and never waits, so it takes its next step.
Spec == Init /\ [][Next]_vars /\ WF_vars(Next)
====
