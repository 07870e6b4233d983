------------------------------- MODULE Session -------------------------------
(***************************************************************************)
(* Modules over one Runtime: check_and_execute (main.cpp 82-90), as the    *)
(* REPL calls it again and again.  A module is checked statement by        *)
(* statement against a snapshot of the Runtime (checker.cpp), the FFI      *)
(* descriptors it declares are installed, and it is executed statement by  *)
(* statement (interpreter.cpp) until it ends or fails; what it has done    *)
(* by then stays.                                                          *)
(*                                                                         *)
(* The checker decides the static type of every expression and whether a   *)
(* bare call means a script function.  The interpreter trusts both, but    *)
(* reads types of variables and results of calls at run time.  Of a value  *)
(* only its type is kept, and whether its bits are a representation of     *)
(* that type.  Function bodies and branches are one simple statement;      *)
(* functions have no parameters.                                           *)
(***************************************************************************)
EXTENDS Naturals, SequencesExt

CONSTANTS Vars,        \* global variables
          Funs,        \* names of script and native functions
          Statements,  \* statements a module may contain
          MaxModule,   \* bound: statements in a module
          MaxFrames    \* bound: nested calls

ASSUME MaxModuleIsNat == MaxModule \in Nat
ASSUME MaxFramesIsNat == MaxFrames \in Nat

VARIABLES globals,    \* globals_: variable -> its type and value
          functions,  \* the current version of each script function
          ffi,        \* ffi_functions_: name -> remembered return type
          static,     \* state_ of the checker
          module,     \* statements checked, or still to be executed
          executing,  \* the module has been accepted
          stack       \* statements in execution, the innermost last

runtimeVars == <<globals, functions, ffi>>
vars == <<runtimeVars, static, module, executing, stack>>

(* Types: one integer type, two float types, one struct.                     *)
Floats == {"f32", "f64"}
Scalars == {"i64"} \cup Floats
NoType == "none"
Types == Scalars \cup {"S", "void"}
TypeOrNone == Types \cup {NoType}

Value == [type : TypeOrNone, fits : BOOLEAN]
Fitting(t) == [type |-> t, fits |-> TRUE]
NoValue == Fitting(NoType)

(* Expressions: a literal, a variable, a bare call, or a call with a         *)
(* caller-provided signature, each with or without "+ 1".                    *)
Expression(of, name, type, plus) == [of |-> of, name |-> name, type |-> type, plus |-> plus]
Literal(t) == Expression("literal", NoType, t, FALSE)
Variable(x) == Expression("variable", x, NoType, FALSE)
Call(f) == Expression("call", f, NoType, FALSE)
TypedCall(f, t) == Expression("typed", f, t, FALSE)
Plus1(e) == [e EXCEPT !.plus = TRUE]

(* Simple statements, and the others.                                        *)
Assign(x, e) == [does |-> "assign", to |-> x, expr |-> e]
Evaluate(e) == [does |-> "evaluate", to |-> NoType, expr |-> e]
ReturnOf(e) == [does |-> "return", to |-> NoType, expr |-> e]
AssertFalse == [does |-> "fail", to |-> NoType, expr |-> Literal("i64")]

Simple(s) == [kind |-> "simple", then |-> s]
IfElse(s, t) == [kind |-> "if", then |-> s, else |-> t]
Define(f, t, s) == [kind |-> "define", name |-> f, returns |-> t, then |-> s]

\* Names are names of what they are used as; only calls have the type void.
Expressions ==
  {e \in [of : {"literal", "variable", "call", "typed"}, name : Vars \cup Funs \cup {NoType},
          type : TypeOrNone, plus : BOOLEAN] :
     /\ e.of = "literal" => e.type \in Types \ {"void"}
     /\ e.of = "variable" => e.name \in Vars
     /\ e.of \in {"call", "typed"} => e.name \in Funs}
SimpleStatements ==
  {s \in [does : {"assign", "evaluate", "return", "fail"}, to : Vars \cup {NoType}, expr : Expressions] :
     s.does = "assign" => s.to \in Vars}
AllStatements ==
  [kind : {"simple"}, then : SimpleStatements]
  \cup [kind : {"if"}, then : SimpleStatements, else : SimpleStatements]
  \cup [kind : {"define"}, name : Funs, returns : Types, then : SimpleStatements]

ASSUME StatementsAreStatements == Statements \subseteq AllStatements

Undefined == [returns |-> NoType, body |-> AssertFalse]

\* Runtime::semantic_snapshot.
Snapshot(g, fs, n) == [vars |-> [x \in Vars |-> g[x].type],
                       funs |-> [f \in Funs |-> fs[f].returns],
                       ffi |-> n]

Init ==
  /\ globals = [x \in Vars |-> NoValue]
  /\ functions = [f \in Funs |-> Undefined]
  /\ ffi = [f \in Funs |-> NoType]
  /\ static = Snapshot(globals, functions, ffi)
  /\ module = <<>> /\ executing = FALSE /\ stack = <<>>

-----------------------------------------------------------------------------
(* The checker.  Each operator takes the checker's state st.                 *)

\* check_call: a known script function is meant before a native one.
MeansScript(st, e) == e.of \in {"call", "typed"} /\ st.funs[e.name] # NoType

\* The static type of an expression without its "+ 1".
OperandType(st, e) ==
  CASE e.of \in {"literal", "typed"} -> e.type
    [] e.of = "variable" -> st.vars[e.name]
    [] e.of = "call" -> IF MeansScript(st, e) THEN st.funs[e.name] ELSE st.ffi[e.name]

\* Mutant of StaticType: the sum of a float and an integer is an integer.
StaticTypeInteger(st, e) == IF e.plus THEN "i64" ELSE OperandType(st, e)

\* The arithmetic conversions, with the i64 literal 1.
StaticType(st, e) ==
  IF e.plus /\ OperandType(st, e) \notin Floats THEN "i64" ELSE OperandType(st, e)

\* The name is known, and operands of + are numeric.
ExpressionOK(st, e) ==
  /\ OperandType(st, e) # NoType
  /\ e.plus => OperandType(st, e) \in Scalars

\* The annotated expression: its types, and what a call means.
Annotated(st, e) ==
  [of |-> e.of, name |-> e.name, plus |-> e.plus, operand |-> OperandType(st, e),
   type |-> StaticType(st, e), script |-> MeansScript(st, e)]

\* remember_ffi_call.
Remembering(st, e) ==
  IF e.of = "typed" /\ ~MeansScript(st, e) THEN [st EXCEPT !.ffi[e.name] = e.type] ELSE st

\* A scalar variable may take another scalar type.
CanRetype(old, new) == old = new \/ {old, new} \subseteq Scalars

\* check_statement and check_assignment, for simple statements.
SimpleOK(st, s) ==
  LET t == StaticType(st, s.expr)
  IN /\ ExpressionOK(st, s.expr)
     /\ s.does = "assign" => st.vars[s.to] = NoType \/ CanRetype(st.vars[s.to], t)
     /\ s.does = "return" => t \in Scalars

\* Mutant of AfterSimple: a branch declares its new variables in the module.
AfterSimpleGlobal(st, s, top) ==
  LET r == Remembering(st, s.expr)
  IN IF s.does = "assign" THEN [r EXCEPT !.vars[s.to] = StaticType(st, s.expr)] ELSE r

\* Mutant of AfterSimple: a variable keeps its first type.
AfterSimpleOnce(st, s, top) ==
  LET r == Remembering(st, s.expr)
  IN IF s.does = "assign" /\ top /\ st.vars[s.to] = NoType
     THEN [r EXCEPT !.vars[s.to] = StaticType(st, s.expr)]
     ELSE r

\* A new variable belongs to the scope of the statement: it is global only at
\* the top level.
AfterSimple(st, s, top) ==
  LET r == Remembering(st, s.expr)
  IN IF s.does = "assign" /\ (top \/ st.vars[s.to] # NoType)
     THEN [r EXCEPT !.vars[s.to] = StaticType(st, s.expr)]
     ELSE r

AnnotatedSimple(st, s) == [s EXCEPT !.expr = Annotated(st, s.expr)]

\* check_function: the function is visible to its own body, and the body
\* leaves the variables alone.
InBody(st, d) == [st EXCEPT !.funs[d.name] = d.returns]
AfterDefine(st, d) == [AfterSimple(InBody(st, d), d.then, FALSE) EXCEPT !.vars = st.vars]

\* "return outside function".
InModule(s) == s.does # "return"

\* check_statement.  The else branch is checked after the then branch.
StatementOK(st, s) ==
  \/ s.kind = "simple" /\ InModule(s.then) /\ SimpleOK(st, s.then)
  \/ /\ s.kind = "if" /\ InModule(s.then) /\ InModule(s.else)
     /\ SimpleOK(st, s.then) /\ SimpleOK(AfterSimple(st, s.then, FALSE), s.else)
  \/ /\ s.kind = "define" /\ SimpleOK(InBody(st, s), s.then)
     /\ s.then.does = "return" <=> s.returns # "void"

\* Mutant of After: the descriptors declared in bodies are forgotten.
AfterForgetting(st, s) ==
  CASE s.kind = "simple" -> AfterSimple(st, s.then, TRUE)
    [] s.kind = "if" -> AfterSimple(AfterSimple(st, s.then, FALSE), s.else, FALSE)
    [] s.kind = "define" -> InBody(st, s)

After(st, s) ==
  CASE s.kind = "simple" -> AfterSimple(st, s.then, TRUE)
    [] s.kind = "if" -> AfterSimple(AfterSimple(st, s.then, FALSE), s.else, FALSE)
    [] s.kind = "define" -> AfterDefine(st, s)

AnnotatedStatement(st, s) ==
  CASE s.kind = "simple" -> [s EXCEPT !.then = AnnotatedSimple(st, s.then)]
    [] s.kind = "if" -> [s EXCEPT !.then = AnnotatedSimple(st, s.then),
                                  !.else = AnnotatedSimple(AfterSimple(st, s.then, FALSE), s.else)]
    [] s.kind = "define" -> [s EXCEPT !.then = AnnotatedSimple(InBody(st, s), s.then)]

\* check_module's loop: one more statement of the module is accepted, ...
CheckStatement(s) ==
  /\ ~executing /\ Len(module) < MaxModule
  /\ StatementOK(static, s)
  /\ module' = Append(module, AnnotatedStatement(static, s))
  /\ static' = After(static, s)
  /\ UNCHANGED <<runtimeVars, executing, stack>>

\* ... or is an error, and the module is dropped.
RejectModule(s) ==
  /\ ~executing /\ Len(module) < MaxModule
  /\ ~StatementOK(static, s)
  /\ module' = <<>>
  /\ static' = Snapshot(globals, functions, ffi)
  /\ UNCHANGED <<runtimeVars, executing, stack>>

\* install_ffi_bindings: the descriptors of the whole module, before any of it
\* is executed.
AcceptModule ==
  /\ ~executing /\ module # <<>>
  /\ ffi' = static.ffi
  /\ executing' = TRUE
  /\ UNCHANGED <<globals, functions, static, module, stack>>

-----------------------------------------------------------------------------
(* The interpreter.                                                          *)

\* A statement in execution: whether it is at the top level, the type its
\* function returns, and the value its call has returned.
Frame(s, top, returns) == [stmt |-> s, top |-> top, returns |-> returns, value |-> NoValue]

CanStart == executing /\ stack = <<>> /\ module # <<>>
Innermost == Last(stack)
Expr == Innermost.stmt.expr

StartStatement ==
  /\ CanStart /\ Head(module).kind = "simple"
  /\ stack' = <<Frame(Head(module).then, TRUE, NoType)>>
  /\ module' = Tail(module)
  /\ UNCHANGED <<runtimeVars, static, executing>>

\* StmtKind::If, for either value of the condition.
TakeBranch ==
  /\ CanStart /\ Head(module).kind = "if"
  /\ \E s \in {Head(module).then, Head(module).else} : stack' = <<Frame(s, FALSE, NoType)>>
  /\ module' = Tail(module)
  /\ UNCHANGED <<runtimeVars, static, executing>>

\* Mutant of InstallFunction: the body is kept, but not published.
InstallFunctionLate ==
  /\ CanStart /\ Head(module).kind = "define"
  /\ IF Len(module) = 1
     THEN functions' = [functions EXCEPT ![Head(module).name] =
                          [returns |-> Head(module).returns, body |-> Head(module).then]]
     ELSE UNCHANGED functions
  /\ module' = Tail(module)
  /\ UNCHANGED <<globals, ffi, static, executing, stack>>

\* execute_top_level of a function definition.
InstallFunction ==
  /\ CanStart /\ Head(module).kind = "define"
  /\ functions' = [functions EXCEPT ![Head(module).name] =
                     [returns |-> Head(module).returns, body |-> Head(module).then]]
  /\ module' = Tail(module)
  /\ UNCHANGED <<globals, ffi, static, executing, stack>>

(* eval_call.                                                                *)
Calls(f) == f.stmt.expr.of \in {"call", "typed"} /\ f.value = NoValue

CallScript ==
  /\ stack # <<>> /\ Calls(Innermost) /\ Expr.script
  /\ functions[Expr.name] # Undefined /\ Len(stack) < MaxFrames
  /\ stack' = Append(stack, Frame(functions[Expr.name].body, FALSE, functions[Expr.name].returns))
  /\ UNCHANGED <<runtimeVars, static, module, executing>>

\* The bits that a native function returns are taken as a value of the
\* declared type.
CallNative ==
  /\ stack # <<>> /\ Calls(Innermost) /\ ~Expr.script
  /\ stack' = [stack EXCEPT ![Len(stack)].value = Fitting(Expr.operand)]
  /\ UNCHANGED <<runtimeVars, static, module, executing>>

\* The expression of the innermost statement can be evaluated, and its value.
\* eval_binary computes in floating point if the operand is a float, and gives
\* the result the static type.
Ready == stack # <<>> /\ ~Calls(Innermost)

Operand ==
  CASE Expr.of = "literal" -> Fitting(Expr.operand)
    [] Expr.of = "variable" -> globals[Expr.name]
    [] OTHER -> Innermost.value

Result ==
  IF ~Expr.plus THEN Operand
  ELSE [type |-> Expr.type,
        fits |-> Operand.fits /\ (Operand.type \in Floats <=> Expr.type \in Floats)]

\* The innermost statement is done, and is worth v if it was a function body.
Pop(v) ==
  stack' = IF Len(stack) = 1 THEN <<>>
           ELSE [Front(stack) EXCEPT ![Len(stack) - 1].value = v]

\* define_variable: an existing variable is retyped where it is, a new one is
\* global only at the top level.
CanDefine(x, t) == globals[x] = NoValue \/ CanRetype(globals[x].type, t)
DefineVariable(x, v) ==
  globals' = IF Innermost.top \/ globals[x] # NoValue THEN [globals EXCEPT ![x] = v]
                                                      ELSE globals

AssignVariable ==
  /\ Ready /\ Innermost.stmt.does = "assign"
  /\ CanDefine(Innermost.stmt.to, Result.type) /\ Result.type # "void"
  /\ DefineVariable(Innermost.stmt.to, Result)
  /\ Pop(Fitting("void"))
  /\ UNCHANGED <<functions, ffi, static, module, executing>>

EvaluateExpression ==
  /\ Ready /\ Innermost.stmt.does = "evaluate"
  /\ Pop(Fitting("void"))
  /\ UNCHANGED <<runtimeVars, static, module, executing>>

\* return: the value is cast to the function's own return type.
ReturnValue ==
  /\ Ready /\ Innermost.stmt.does = "return"
  /\ Pop([type |-> Innermost.returns, fits |-> Result.fits])
  /\ UNCHANGED <<runtimeVars, static, module, executing>>

\* The module is over; the next is checked against a new snapshot.
End ==
  /\ executing' = FALSE /\ module' = <<>> /\ stack' = <<>>
  /\ UNCHANGED <<functions, ffi>>
  /\ static' = Snapshot(globals', functions, ffi)

\* An assertion fails, or a variable cannot take the value's type.
Fail ==
  /\ Ready
  /\ \/ Innermost.stmt.does = "fail"
     \/ Innermost.stmt.does = "assign" /\ ~CanDefine(Innermost.stmt.to, Result.type)
  /\ UNCHANGED globals
  /\ End

\* A void value is stored: define_variable has made or found the variable when
\* store_binding fails.
FailToStore ==
  /\ Ready /\ Innermost.stmt.does = "assign"
  /\ CanDefine(Innermost.stmt.to, Result.type) /\ Result.type = "void"
  /\ DefineVariable(Innermost.stmt.to, Result)
  /\ End

FinishModule ==
  /\ executing /\ stack = <<>> /\ module = <<>>
  /\ UNCHANGED globals
  /\ End

Next ==
  \/ \E s \in Statements : CheckStatement(s) \/ RejectModule(s)
  \/ AcceptModule
  \/ StartStatement \/ TakeBranch \/ InstallFunction
  \/ CallScript \/ CallNative
  \/ AssignVariable \/ EvaluateExpression \/ ReturnValue
  \/ Fail \/ FailToStore \/ FinishModule

Spec == Init /\ [][Next]_vars

-----------------------------------------------------------------------------
\* The expressions of accepted statements and of installed functions.
InstalledExpressions ==
  {functions[f].body.expr : f \in {g \in Funs : functions[g] # Undefined}}
  \cup IF executing
       THEN {s.then.expr : s \in ToSet(module)}
            \cup {s.else.expr : s \in {t \in ToSet(module) : t.kind = "if"}}
       ELSE {}

\* Everything a running statement names is there: "undefined variable" and
\* "script function is not installed" are never thrown, whichever modules
\* failed half-way before this one.
NamesResolve ==
  \A i \in DOMAIN stack :
    LET e == stack[i].stmt.expr
    IN /\ e.of = "variable" => globals[e.name] # NoValue
       /\ e.of \in {"call", "typed"} /\ e.script => functions[e.name] # Undefined

\* A module that ends without failing leaves exactly the variables, functions and
\* descriptors that the checker predicted, whatever branches and functions have done
\* to the types of variables: what a branch or a function has created is gone again,
\* in the checker as in the Runtime.
PredictedNamesHold ==
  executing /\ stack = <<>> /\ module = <<>> =>
    /\ \A x \in Vars : static.vars[x] # NoType <=> globals[x] # NoValue
    /\ \A f \in Funs : static.funs[f] = functions[f].returns
    /\ static.ffi = ffi

\* A module that ends without failing leaves its variables with the types that the
\* checker predicted, if types change along the text only: not in functions, and in
\* branches only if there is no way around them to the end of the module.
PredictedTypesHold ==
  executing /\ stack = <<>> /\ module = <<>> =>
    \A x \in Vars : globals[x] # NoValue => static.vars[x] = globals[x].type

\* "Typed FFI calls declare module-global remembered call descriptors during
\* checking, even when they occur inside a function or an untaken branch"
\* (main.cpp 86): every native call of a statement that may still be executed
\* has its descriptor in the Runtime, also after modules have failed.
NativeCallsAreDeclared ==
  \A e \in InstalledExpressions :
    e.of \in {"call", "typed"} /\ ~e.script => ffi[e.name] # NoType

\* "Scalar variables adopt the value and type of the right-hand side when
\* assigned" (README.md 57): no variable holds bits that were computed for
\* another type than its own.
ValuesFitTheirTypes == \A x \in Vars : globals[x].fits
=============================================================================
