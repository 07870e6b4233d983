------------------------------- MODULE Parser -------------------------------
(***************************************************************************)
(* Parser (parser.cpp): the recursive descent over the tokens, as a stack  *)
(* of what is left to parse, the next item first.  One Production per      *)
(* parse function gives the items that it comes down to with the tokens    *)
(* ahead; a step matches a token, expands an item, or fails.  The syntax   *)
(* tree is kept as far as the grouping of its binary operators, and the    *)
(* kind of the type or expression parsed last.                             *)
(***************************************************************************)
EXTENDS Lexer

VARIABLES pos,     \* pos_, counted from 1
          stack,   \* the parse functions in progress
          result,  \* the kind of the Expr or TypeSyntax returned last
          nodes    \* the binary expressions built

parserVars == <<pos, stack, result, nodes>>

Eof == "eof"
TypeKinds == {"named", "builtin", "array", "aggregate"}
Results == TypeKinds \cup {"variable", "call", "other"}

\* Parser::peek, which stays at the last token, and Parser::at.
Peek(n) == IF pos + n <= Len(tokens) THEN tokens[pos + n] ELSE Eof

-----------------------------------------------------------------------------
(* Items.  Each remembers where it was pushed; `set' holds the tokens that   *)
(* "want" consumes, `arg' a precedence, a flag or the place of an operator.  *)
(* consume and match look at the token they take.  advance takes one that    *)
(* the parse function has seen n tokens ahead when it pushed the item, and   *)
(* looks at it no more: `set' only says what was seen, `arg' is n + 1.       *)
Item(symbol, set, arg) == [symbol |-> symbol, set |-> set, arg |-> arg, from |-> pos]
Want(kind) == Item("want", {kind}, 0)
WantAny(set) == Item("want", set, 0)
WantName == WantAny(Identifiers)
Seen(set, n) == Item("want", set, n + 1)
P(symbol) == Item(symbol, {}, 0)
PArg(symbol, arg) == Item(symbol, {}, arg)
Gives(kind) == Item("gives", {kind}, 0)
Fail == <<P("fail")>>
Nothing == <<>>
Expression == PArg("expression", 1)
Condition == <<Want("("), Expression, Want(")")>>
CallArguments == <<Want("("), P("arguments"), Want(")"), Gives("call")>>

Precedence(t) ==
  CASE t = "||" -> 1 [] t = "&&" -> 2 [] t = "|" -> 3 [] t = "^" -> 4 [] t = "&" -> 5
    [] t \in {"==", "!="} -> 6 [] t \in {"<", "<=", ">", ">="} -> 7
    [] t \in {"<<", ">>"} -> 8 [] t \in {"+", "-"} -> 9 [] t \in {"*", "/", "%"} -> 10
    [] OTHER -> 0

StartsExpression(t) ==
  t \in Identifiers \cup Integers64 \cup {"variable", "float", "string", "(", "-", "!", "~", "&"}

\* How many of the tokens from..to open a bracket that is not closed there.
Depth(opening, closing, from, to) ==
  Cardinality({i \in from..to : tokens[i] = opening}) - Cardinality({i \in from..to : tokens[i] = closing})

IsAggregateDefinitionStart ==
  Peek(0) \in {"struct", "union"} /\ Peek(1) \in Identifiers /\ (Peek(2) = "{" \/ Peek(2) = "pack")

\* Mutant of LooksLikeFunctionDefinition: a call of a function with a result is one.
LooksLikeFunctionDefinitionAnyHeader == Peek(0) \in Identifiers /\ Peek(1) \in Identifiers /\ Peek(2) = "("

LooksLikeFunctionDefinition ==
  /\ Peek(0) \in Identifiers /\ Peek(1) \in Identifiers /\ Peek(2) = "("
  /\ \E i \in (pos + 3)..(Len(tokens) - 1) :
       /\ Depth("(", ")", pos + 2, i) = 0
       /\ \A j \in (pos + 2)..(i - 1) : Depth("(", ")", pos + 2, j) > 0
       /\ tokens[i + 1] = "{"

\* A name, groups of brackets, and '@'.
LooksLikeTypedMemoryAccessStart ==
  /\ Peek(0) \in Identifiers
  /\ \E i \in (pos + 1)..Len(tokens) :
       /\ tokens[i] = "@"
       /\ \A j \in (pos + 1)..(i - 1) :
            Depth("[", "]", pos + 1, j) > 0 \/ (tokens[j] = "]" /\ Depth("[", "]", pos + 1, j) = 0)
       /\ Depth("[", "]", pos + 1, i - 1) = 0

LooksLikeTypedArgument ==
  /\ Peek(0) \in Identifiers
  /\ \/ Peek(1) = "@"
     \/ /\ ~(Peek(1) = "(" /\ Peek(0) \notin Builtins)
        /\ Peek(1) \notin {"{", "."}
        /\ StartsExpression(Peek(1))

-----------------------------------------------------------------------------
(* Types and definitions.                                                    *)

PackSuffix ==
  IF Peek(0) # "pack" THEN Nothing
  ELSE <<Want("pack"), Want("("), WantAny(Integers64), P("pack value"), Want(")")>>
\* The digit "1" stands for the alignments 1, 2, 4, 8 and 16.
PackValue == IF tokens[pos - 1] = "1" THEN Nothing ELSE Fail

TypeSyntax(allowAnonymous) ==
  IF allowAnonymous /\ Peek(0) \in {"struct", "union"}
  THEN <<Seen({Peek(0)}, 0), P("pack"), Want("{"), P("fields"), Want("}"), Gives("aggregate"), P("type suffix")>>
  ELSE <<WantName, Gives(IF Peek(0) \in Builtins THEN "builtin" ELSE "named"), P("type suffix")>>
TypeSuffix == IF Peek(0) = "[" THEN <<Want("["), P("array suffix"), P("type suffix")>> ELSE Nothing
ArraySuffix ==
  CASE Peek(0) \in Integers64 /\ Peek(1) = "]" ->
         <<Seen({Peek(0)}, 0), Want("]")>> \o (IF Peek(0) = "0" THEN Fail ELSE <<Gives("array")>>)
    [] Peek(0) = "]" -> Fail
    [] OTHER -> <<Expression, Want("]"), Gives("array")>>

FieldList ==
  IF Peek(0) = "}" THEN Nothing
  ELSE IF Peek(0) = Eof THEN Fail
  ELSE <<PArg("type", 1), WantName, P("field suffix"), P("field separator")>>
FieldSuffix == IF Peek(0) = "[" THEN <<Want("["), P("array suffix")>> ELSE Nothing
FieldSeparator ==
  CASE Peek(0) = "," -> <<Want(","), P("fields")>>
    [] Peek(0) = "}" -> Nothing
    [] OTHER -> Fail

AggregateDefinition ==
  <<Seen({"struct", "union"}, 0), WantName, P("pack"), Want("{"), P("fields"), Want("}")>>

FunctionDefinition ==
  <<PArg("type", 0), WantName, Want("("), P("parameters"), Want(")"), P("block")>>
Parameters == IF Peek(0) = ")" THEN Nothing ELSE <<P("parameter")>>
Parameter == <<PArg("type", 0), Want("variable"), P("more parameters")>>
MoreParameters == IF Peek(0) = "," THEN <<Want(","), P("parameter")>> ELSE Nothing

-----------------------------------------------------------------------------
(* Statements.                                                               *)

Block == <<Want("{"), P("statements")>>
\* Mutant of Statements: a block ends with the tokens as with its brace.
StatementsToTheEnd ==
  IF Peek(0) \in {"}", Eof} THEN <<Seen({"}"}, 0)>>
  ELSE <<PArg("statement", 0), P("statements")>>

Statements ==
  CASE Peek(0) = "}" -> <<Seen({"}"}, 0)>>
    [] Peek(0) = Eof -> Fail
    [] OTHER -> <<PArg("statement", 0), P("statements")>>

ElseBranch ==
  IF Peek(0) # "else" THEN Nothing
  ELSE <<Want("else"), IF Peek(1) = "if" THEN PArg("statement", 0) ELSE P("block")>>

TryStatement == <<Want("try"), P("block"), Want("catch"), Want("("), Want("variable"), Want(")"), P("block")>>

SwitchStatement == <<Want("switch")>> \o Condition \o <<Want("{"), PArg("arms", 0)>>
Arms(sawDefault) ==
  CASE Peek(0) = "}" -> <<Seen({"}"}, 0)>>
    [] Peek(0) = "case" ->
         <<Want("case")>> \o (IF sawDefault THEN Fail ELSE <<Expression, P("more cases"), P("block"), PArg("arms", 0)>>)
    [] Peek(0) = "default" ->
         <<Want("default")>> \o (IF sawDefault THEN Fail ELSE <<P("block"), PArg("arms", 1)>>)
    [] OTHER -> Fail
MoreCases == IF Peek(0) = "," THEN <<Want(","), P("next case")>> ELSE Nothing
NextCase == IF Peek(0) = "{" THEN Fail ELSE <<Expression, P("more cases")>>

AssertMessage == IF Peek(0) = "," THEN <<Want(","), Want("string")>> ELSE Nothing

KeywordStatement ==
  CASE Peek(0) = "if" -> <<Want("if")>> \o Condition \o <<P("block"), P("else")>>
    [] Peek(0) = "switch" -> SwitchStatement
    [] Peek(0) = "try" -> TryStatement
    [] Peek(0) = "while" -> <<Want("while")>> \o Condition \o <<P("block")>>
    [] Peek(0) = "throw" -> <<Want("throw"), Expression>>
    [] Peek(0) \in {"break", "continue"} -> <<Want(Peek(0))>>
    [] Peek(0) = "return" -> <<Want("return")>> \o (IF Peek(1) = "}" THEN Nothing ELSE <<Expression>>)
    [] Peek(0) = "assert" -> <<Want("assert"), Want("("), Expression, P("assert message"), Want(")")>>
    [] Peek(0) \in {"case", "default", "catch"} -> Fail
StatementKeywords ==
  {"if", "switch", "try", "while", "throw", "break", "continue", "return", "assert", "case",
   "default", "catch"}

\* A target is tried before an expression.
OtherStatement ==
  IF Peek(0) \in Identifiers /\ Peek(1) = "{" THEN Fail
  ELSE IF Peek(0) = "variable" \/ LooksLikeTypedMemoryAccessStart THEN <<P("place"), P("assignment")>>
  ELSE <<P("call statement")>>

Statement(topLevel) ==
  IF IsAggregateDefinitionStart THEN AggregateDefinition
  ELSE IF topLevel /\ LooksLikeFunctionDefinition THEN FunctionDefinition
  ELSE IF Peek(0) = "{" THEN Block
  ELSE IF Peek(0) \in StatementKeywords THEN KeywordStatement
  ELSE OtherStatement

CallStatement == <<Expression, P("only calls")>>
OnlyCalls == IF result = "call" THEN Nothing ELSE Fail

-----------------------------------------------------------------------------
(* Expressions.                                                              *)

Place ==
  IF LooksLikeTypedMemoryAccessStart
  THEN <<PArg("type", 0), Want("@"), P("unary"), P("place suffix")>>
  ELSE <<Want("variable"), P("place suffix")>>

Suffix(loop) ==
  CASE Peek(0) = "." -> <<Want("."), WantName, Gives("other"), P(loop)>>
    [] Peek(0) = "[" -> <<Want("["), Expression, Want("]"), Gives("other"), P(loop)>>
    [] OTHER -> Nothing
PlaceSuffix == Suffix("place suffix")
PostfixSuffix ==
  IF result = "variable" /\ Peek(0) = "("
  THEN CallArguments \o <<P("postfix suffix")>>
  ELSE Suffix("postfix suffix")

\* parse_expression: an operand, then operators that bind at least as tightly as minPrec.
\* The item of the loop keeps where the left operand starts.
ExpressionFrom(minPrec) == <<P("unary"), PArg("operators", minPrec)>>
\* Mutant of Operators: operators group to the right.
OperatorsToTheRight(item) ==
  LET p == Precedence(Peek(0)) IN
  IF p < item.arg THEN Nothing
  ELSE <<Seen({Peek(0)}, 0), PArg("expression", p), [PArg("binary", pos) EXCEPT !.from = item.from], item>>

Operators(item) ==
  LET p == Precedence(Peek(0)) IN
  IF p < item.arg THEN Nothing
  ELSE <<Seen({Peek(0)}, 0), PArg("expression", p + 1), [PArg("binary", pos) EXCEPT !.from = item.from], item>>

Unary ==
  CASE Peek(0) \in {"-", "!", "~"} -> <<Seen({Peek(0)}, 0), P("unary"), Gives("other")>>
    [] Peek(0) = "&" ->
         <<Want("&"),
           IF Peek(1) \in Identifiers /\ Peek(2) # "(" THEN Seen(Identifiers, 1) ELSE P("place"),
           Gives("other")>>
    [] OTHER -> <<P("primary"), P("postfix suffix")>>

Primary ==
  CASE Peek(0) \in Integers64 \cup {"float"} -> <<Want(Peek(0)), Gives("other")>>
    [] Peek(0) = "string" -> <<Want("string"), P("strings"), Gives("other")>>
    [] Peek(0) = "variable" -> <<Want("variable"), Gives("variable")>>
    [] Peek(0) = "(" -> Condition
    [] Peek(0) \in {"sizeof", "alignof"} ->
         <<Seen({Peek(0)}, 0), Want("("), IF Peek(2) = "variable" THEN Expression ELSE PArg("type", 1), Want(")"), Gives("other")>>
    [] Peek(0) = "offsetof" ->
         <<Seen({"offsetof"}, 0), Want("("), PArg("type", 1), Want(","), WantName, P("member path"), Want(")"), Gives("other")>>
    [] Peek(0) \in {"struct", "union"} -> <<PArg("type", 1), P("anonymous")>>
    [] Peek(0) \in Identifiers \ {"sizeof", "alignof", "offsetof", "struct", "union"} -> <<P("external")>>
    [] OTHER -> Fail
Strings == IF Peek(0) = "string" THEN <<Seen({"string"}, 0), P("strings")>> ELSE Nothing
MemberPath == IF Peek(0) = "." THEN <<Want("."), WantName, P("member path")>> ELSE Nothing

ArrayInitializer == <<Want("{"), P("elements"), Want("}"), Gives("other")>>
Elements == IF Peek(0) = "}" THEN Nothing ELSE <<Expression, P("more elements")>>
MoreElements == IF Peek(0) = "," THEN <<Want(","), P("elements")>> ELSE Nothing
AggregateInitializer == <<Want("{"), P("initializers"), Want("}"), Gives("other")>>
Initializers == IF Peek(0) = "}" THEN Nothing
                ELSE <<Want("."), WantName, Want("="), Expression, P("more initializers")>>
MoreInitializers == IF Peek(0) = "," THEN <<Want(","), P("initializers")>> ELSE Nothing

Initializer == IF result = "array" THEN ArrayInitializer ELSE AggregateInitializer
Anonymous ==
  IF Peek(0) = "{" THEN Initializer
  ELSE IF result = "array" THEN <<Gives("other")>> ELSE Fail

\* module.dll return_type target(...)
External ==
  IF /\ Peek(0) \in Identifiers /\ Peek(1) = "." /\ Peek(2) \in Identifiers /\ Peek(3) \in Identifiers
  THEN <<Seen(Identifiers, 0), Seen({"."}, 1), Seen(Identifiers, 2), PArg("type", 0),
         P("external target")>>
  ELSE <<P("named")>>
IsCallTarget(n) == Peek(n) \in Identifiers \cup {"variable"} /\ Peek(n + 1) = "("
ExternalTarget == <<Seen(Identifiers \cup {"variable"}, 0)>> \o CallArguments

\* return_type target(...), or something that starts with a type.
Named ==
  IF Peek(0) \in Identifiers /\ IsCallTarget(1)
  THEN <<PArg("type", 0), Seen(Identifiers \cup {"variable"}, 1)>> \o CallArguments
  ELSE <<PArg("type", 0), P("after type")>>
AfterType ==
  CASE Peek(0) = "@" -> <<Want("@"), P("unary"), Gives("other")>>
    [] Peek(0) = "{" -> Initializer
    [] result = "array" /\ Peek(0) \notin {"@", "{"} -> <<Gives("other")>>
    [] result = "builtin" /\ Peek(0) = "(" -> <<P("primary"), Gives("other")>>
    [] result = "named" /\ Peek(0) = "(" -> CallArguments
    [] result # "array" /\ Peek(0) # "(" /\ StartsExpression(Peek(0)) -> <<P("unary"), Gives("other")>>
    [] OTHER -> Fail

\* Arguments are all typed or all untyped, as the first one is.
Arguments == IF Peek(0) = ")" THEN Nothing
             ELSE <<PArg("argument", IF LooksLikeTypedArgument THEN 1 ELSE 0)>>
Argument(typed) ==
  (IF typed /\ ~LooksLikeTypedMemoryAccessStart THEN <<PArg("type", 0)>> ELSE Nothing)
    \o <<Expression, PArg("more arguments", IF typed THEN 1 ELSE 0)>>
MoreArguments(typed) ==
  IF Peek(0) = "," THEN <<Want(","), PArg("next argument", typed)>> ELSE Nothing
NextArgument(typed) ==
  IF Peek(0) = ")" \/ (typed = 1) # LooksLikeTypedArgument THEN Fail ELSE <<PArg("argument", typed)>>

-----------------------------------------------------------------------------
\* parse: statements until the end of the tokens.
ModuleStatements == IF Peek(0) = Eof THEN Nothing ELSE <<PArg("statement", 1), P("module")>>

Production(item) ==
  CASE item.symbol = "module" -> ModuleStatements
    [] item.symbol = "statement" -> Statement(item.arg = 1)
    [] item.symbol = "block" -> Block
    [] item.symbol = "statements" -> Statements
    [] item.symbol = "else" -> ElseBranch
    [] item.symbol = "arms" -> Arms(item.arg = 1)
    [] item.symbol = "more cases" -> MoreCases
    [] item.symbol = "next case" -> NextCase
    [] item.symbol = "assert message" -> AssertMessage
    [] item.symbol = "call statement" -> CallStatement
    [] item.symbol = "only calls" -> OnlyCalls
    [] item.symbol = "pack" -> PackSuffix
    [] item.symbol = "pack value" -> PackValue
    [] item.symbol = "type" -> TypeSyntax(item.arg = 1)
    [] item.symbol = "type suffix" -> TypeSuffix
    [] item.symbol = "array suffix" -> ArraySuffix
    [] item.symbol = "fields" -> FieldList
    [] item.symbol = "field suffix" -> FieldSuffix
    [] item.symbol = "field separator" -> FieldSeparator
    [] item.symbol = "parameters" -> Parameters
    [] item.symbol = "parameter" -> Parameter
    [] item.symbol = "more parameters" -> MoreParameters
    [] item.symbol = "place" -> Place
    [] item.symbol = "place suffix" -> PlaceSuffix
    [] item.symbol = "postfix suffix" -> PostfixSuffix
    [] item.symbol = "expression" -> ExpressionFrom(item.arg)
    [] item.symbol = "operators" -> Operators(item)
    [] item.symbol = "unary" -> Unary
    [] item.symbol = "primary" -> Primary
    [] item.symbol = "strings" -> Strings
    [] item.symbol = "member path" -> MemberPath
    [] item.symbol = "elements" -> Elements
    [] item.symbol = "more elements" -> MoreElements
    [] item.symbol = "initializers" -> Initializers
    [] item.symbol = "more initializers" -> MoreInitializers
    [] item.symbol = "anonymous" -> Anonymous
    [] item.symbol = "external" -> External
    [] item.symbol = "named" -> Named
    [] item.symbol = "after type" -> AfterType
    [] item.symbol = "arguments" -> Arguments
    [] item.symbol = "argument" -> Argument(item.arg = 1)
    [] item.symbol = "more arguments" -> MoreArguments(item.arg)
    [] item.symbol = "next argument" -> NextArgument(item.arg)

\* The items that a step of their own handles.
Special == {"want", "gives", "binary", "fail", "assignment", "external target"}

Start == [symbol |-> "module", set |-> {}, arg |-> 0, from |-> 1]
ReadyToParse == pos = 1 /\ stack = <<Start>> /\ result = "other" /\ nodes = {}
BeginParse == pos' = 1 /\ stack' = <<Start>> /\ result' = "other" /\ nodes' = {}

Top == stack[1]
Parsing(symbols) == outcome = "parsing" /\ stack # <<>> /\ Top.symbol \in symbols
Fails ==
  CASE Top.symbol = "want" -> Top.arg = 0 /\ Peek(0) \notin Top.set
    [] Top.symbol \notin Special -> Production(Top) = Fail
    [] OTHER -> Top.symbol = "fail"

\* Parser::advance, called directly, by consume or by match.
Match ==
  /\ Parsing({"want"}) /\ ~Fails
  /\ pos' = pos + 1
  /\ stack' = Tail(stack)
  /\ UNCHANGED <<lexerVars, result, nodes>>

Expand ==
  /\ outcome = "parsing" /\ stack # <<>> /\ Top.symbol \notin Special /\ ~Fails
  /\ stack' = Production(Top) \o Tail(stack)
  /\ UNCHANGED <<lexerVars, pos, result, nodes>>

Return ==
  /\ Parsing({"gives"})
  /\ result' = CHOOSE kind \in Top.set : TRUE
  /\ stack' = Tail(stack)
  /\ UNCHANGED <<lexerVars, pos, nodes>>

BuildBinary ==
  /\ Parsing({"binary"})
  /\ nodes' = nodes \cup {[from |-> Top.from, op |-> Top.arg, to |-> pos - 1]}
  /\ result' = "other"
  /\ stack' = Tail(stack)
  /\ UNCHANGED <<lexerVars, pos>>

\* pos_ = save: what was parsed since the item i was pushed is parsed again.
Rewind(i, symbol) ==
  /\ pos' = stack[i].from
  /\ stack' = <<[Start EXCEPT !.symbol = symbol, !.from = pos']>> \o SubSeq(stack, i + 1, Len(stack))
  /\ nodes' = {n \in nodes : n.from < stack[i].from}
  /\ UNCHANGED <<lexerVars, result>>

\* Mutant of Assignment: what is no assignment is tried again as any statement.
AssignmentAgain ==
  /\ Parsing({"assignment"})
  /\ IF Peek(0) = "="
     THEN /\ stack' = <<Want("="), Expression>> \o Tail(stack)
          /\ UNCHANGED <<lexerVars, pos, result, nodes>>
     ELSE Rewind(1, "statement")

\* After a target, '=' makes the statement an assignment.
Assignment ==
  /\ Parsing({"assignment"})
  /\ IF Peek(0) = "="
     THEN /\ stack' = <<Want("="), Expression>> \o Tail(stack)
          /\ UNCHANGED <<lexerVars, pos, result, nodes>>
     ELSE Rewind(1, "call statement")

\* Without a call target after the type, module.dll is no module.
ExternalCall ==
  /\ Parsing({"external target"})
  /\ IF IsCallTarget(0)
     THEN /\ stack' = ExternalTarget \o Tail(stack)
          /\ UNCHANGED <<lexerVars, pos, result, nodes>>
     ELSE Rewind(1, "named")

\* fail and consume: at the end of the tokens the input is incomplete, whatever
\* is wrong.  A wrong target is parsed again as an expression.
Failure ==
  /\ outcome = "parsing" /\ stack # <<>> /\ Fails
  /\ IF Peek(0) = Eof THEN Throw("incomplete") /\ UNCHANGED parserVars
     ELSE LET handlers == {i \in 1..Len(stack) : stack[i].symbol = "assignment"} IN
          IF handlers = {} THEN Throw("rejected") /\ UNCHANGED parserVars
          ELSE Rewind(CHOOSE i \in handlers : TRUE, "call statement")

Accept ==
  /\ outcome = "parsing" /\ stack = <<>>
  /\ Throw("accepted")
  /\ UNCHANGED parserVars

Parse == Match \/ Expand \/ Return \/ BuildBinary \/ Assignment \/ ExternalCall \/ Failure \/ Accept

-----------------------------------------------------------------------------
\* advance() reads tokens_[pos_++] without a check, and most of its callers have only
\* looked at the token before, some of them several tokens before: no sequence of
\* tokens makes the parser go past the end-of-input token.
ReadsStayInside ==
  outcome \in {"parsing", "accepted", "incomplete"} /\ tokens # <<>> /\ tokens[Len(tokens)] = Eof =>
    /\ pos \in 1..Len(tokens)
    /\ \A i \in 1..Len(stack) : stack[i].from \in 1..Len(tokens)

\* Outside of the brackets in it, an operand of a binary operator has no operator
\* that binds less tightly, and the right one none that binds equally: operators
\* group to the left (parse_expression passes p + 1 to the right).
Outside(i, from, to) ==
  /\ i \in from..to
  /\ \A b \in {<<"(", ")">>, <<"[", "]">>, <<"{", "}">>} : Depth(b[1], b[2], from, i) <= 0
OperatorsGroup ==
  \A n, m \in nodes :
    /\ Outside(m.op, n.from, n.op - 1) => Precedence(tokens[m.op]) >= Precedence(tokens[n.op])
    /\ Outside(m.op, n.op + 1, n.to) => Precedence(tokens[m.op]) > Precedence(tokens[n.op])
=============================================================================
