----------------------------- MODULE Statements -----------------------------
(***************************************************************************)
(* The control flow and the scopes of one body: check_statement and        *)
(* check_function (checker.cpp) decide which bodies are accepted, and      *)
(* Executor::execute (interpreter.cpp) runs them.  A body is a module or   *)
(* the body of a function.  Conditions and case values take any outcome,   *)
(* every expression may raise a native fault, and a call is an expression: *)
(* a called function has an Executor of its own.                           *)
(*                                                                         *)
(* Of a type only the storage class is kept: scalar, or NATIVE_EXCEPTION.  *)
(* Arrays and other aggregates behave as NATIVE_EXCEPTION does, except     *)
(* that they cannot be thrown.                                             *)
(***************************************************************************)
EXTENDS Naturals, SequencesExt

CONSTANTS Names,     \* variables
          Bodies,    \* statement lists: bodies and their parts
          Size(_),   \* how much of a syntax tree a statement list is
          Programs,  \* bodies, with their contexts
          Unbound    \* no type

VARIABLES program,   \* the body in execution, and what it is the body of
          globals,   \* globals_: variable -> type
          scopes,    \* scopes_ of the Executor
          frames,    \* statement lists in execution, the innermost last
          flow       \* Flow, or the C++ exception in flight

vars == <<program, globals, scopes, frames, flow>>

Types == {"scalar", "exception"}
Scope == [Names -> Types \cup {Unbound}]
NoNames == [x \in Names |-> Unbound]
Only(x, t) == [NoNames EXCEPT ![x] = t]

Flows == {"normal", "break", "continue", "return", "fault", "error"}

(* Statements.  The else branch of an if is itself one statement; the last   *)
(* arm of a switch is its default when the switch has one.                   *)
Kinds ==
  {"assign", "read", "throw", "break", "continue", "return", "assert", "block", "if",
   "switch", "switch default", "try", "while"}
Statements ==
  {s \in [kind : Kinds, name : Names \cup {Unbound}, type : Types \cup {Unbound}, bodies : Seq(Bodies)] :
     /\ s.kind \in {"assign", "read", "throw", "try"} => s.name \in Names
     /\ s.kind = "assign" => s.type \in Types
     /\ s.kind \in {"block", "while"} => Len(s.bodies) = 1
     /\ s.kind = "try" => Len(s.bodies) = 2
     /\ s.kind = "if" =>
          \/ Len(s.bodies) = 1
          \/ Len(s.bodies) = 2 /\ Len(s.bodies[2]) = 1 /\ s.bodies[2][1].kind \in {"block", "if"}}

Stmt(kind, name, type, bodies) ==
  [kind |-> kind, name |-> name, type |-> type, bodies |-> bodies]

Assign(x, t) == Stmt("assign", x, t, <<>>)
Read(x) == Stmt("read", x, Unbound, <<>>)
Throw(x) == Stmt("throw", x, Unbound, <<>>)
Jump(kind) == Stmt(kind, Unbound, Unbound, <<>>)
ReturnValue == Stmt("return", Unbound, "scalar", <<>>)
Assertion == Stmt("assert", Unbound, Unbound, <<>>)
Block(b) == Stmt("block", Unbound, Unbound, <<b>>)
If(b) == Stmt("if", Unbound, Unbound, <<b>>)
IfElse(b, s) == Stmt("if", Unbound, Unbound, <<b, <<s>>>>)
Switch(arms, default) == Stmt(IF default THEN "switch default" ELSE "switch", Unbound, Unbound, arms)
Try(b, x, c) == Stmt("try", x, Unbound, <<b, c>>)
While(b) == Stmt("while", Unbound, Unbound, <<b>>)

\* What a body is the body of: a module, or a function with its return type
\* and perhaps a scalar parameter.
Contexts == {"module", "value", "void"}
Program(of, parameter, body) == [of |-> of, parameter |-> parameter, body |-> body]
IsFunction(p) == p.of # "module"
ParameterScope(p) == [x \in Names |-> IF x = p.parameter THEN "scalar" ELSE Unbound]

HasElse(s) == s.kind = "if" /\ Len(s.bodies) = 2

\* Bodies are what the parser makes, and what is left of it in execution: an
\* else branch is executed in place of its if statement.
ASSUME BodiesAreLists ==
  /\ Bodies \subseteq Seq(Statements) /\ <<>> \in Bodies
  /\ {Tail(b) : b \in Bodies \ {<<>>}} \subseteq Bodies
  /\ {Head(b).bodies[2] \o Tail(b) : b \in {c \in Bodies \ {<<>>} : HasElse(Head(c))}} \subseteq Bodies

\* The parser makes finite trees: what is nested in a list, or left of it, is smaller.
ASSUME BodiesAreFinite ==
  \A b \in Bodies :
    /\ Size(b) \in Nat
    /\ \A i \in DOMAIN b : \A j \in DOMAIN b[i].bodies : Size(b[i].bodies[j]) < Size(b)
    /\ b # <<>> => Size(Tail(b)) < Size(b)

ASSUME ProgramsArePrograms ==
  /\ Programs \subseteq [of : Contexts, parameter : Names \cup {Unbound}, body : Bodies]
  /\ \A p \in Programs : p.of = "module" => p.parameter = Unbound

ASSUME UnboundIsNone == Unbound \notin Names \cup Types

-----------------------------------------------------------------------------
(* Scopes, in the checker and in the interpreter.                            *)

\* The innermost scope that binds x, or 0: find_variable_scope.
ScopeOf(scs, x) == Max({0} \cup {i \in DOMAIN scs : scs[i][x] # Unbound})

TypeIn(scs, x) == IF ScopeOf(scs, x) = 0 THEN Unbound ELSE scs[ScopeOf(scs, x)][x]

\* check_assignment: an existing variable keeps its storage class, where it
\* is; a new one is made in the innermost scope.
CanAssign(old, t) == old \in {Unbound, t}
Assigned(scs, x, t) ==
  LET i == IF ScopeOf(scs, x) = 0 THEN Len(scs) ELSE ScopeOf(scs, x)
  IN [scs EXCEPT ![i][x] = t]

-----------------------------------------------------------------------------
(* The checker.  Its state st: the code is accepted so far, variable_scopes_, *)
(* loop_depth_, and the context (in_function_ and function_return_).          *)
CheckerStates == [ok : BOOLEAN, loops : Nat, in : Contexts, scopes : Seq(Scope)]

CheckerState(p, g) ==
  [ok |-> TRUE, loops |-> 0, in |-> p.of,
   scopes |-> IF IsFunction(p) THEN <<g, ParameterScope(p)>> ELSE <<g>>]

\* Mutant of JumpOK: only break is refused outside a loop.
JumpOKBreakOnly(st, s) == s.kind = "break" => st.loops > 0

JumpOK(st, s) == s.kind \in {"break", "continue"} => st.loops > 0

\* check_statement of a return: void functions return nothing, others a value.
ReturnOK(st, s) ==
  s.kind = "return" =>
    st.in # "module" /\ (st.in = "void" <=> s.type = Unbound)

StatementOK(st, s) ==
  /\ s.kind = "assign" => CanAssign(TypeIn(st.scopes, s.name), s.type)
  /\ s.kind = "read" => TypeIn(st.scopes, s.name) # Unbound
  /\ s.kind = "throw" => TypeIn(st.scopes, s.name) = "exception"
  /\ JumpOK(st, s)
  /\ ReturnOK(st, s)

(* In what follows, `check' is CheckBody, which checks the parts of a        *)
(* statement.                                                                *)

Pushed(st, scope) == [st EXCEPT !.scopes = Append(@, scope)]

\* Mutant of CheckScoped: names made in a nested scope stay visible after it.
CheckScopedOpen(check, st, scope, b) == check[b][st]

\* A body in a scope of its own, with the names it starts with.
CheckScoped(check, st, scope, b) ==
  [check[b][Pushed(st, scope)] EXCEPT !.scopes = Front(@)]

\* The arms of a switch are each checked in the state before it.
CheckArms(check, st, arms) ==
  [st EXCEPT !.ok = \A i \in DOMAIN arms : CheckScoped(check, st, NoNames, arms[i]).ok]

CheckIf(check, st, s) ==
  LET r == CheckScoped(check, st, NoNames, s.bodies[1])
  IN IF HasElse(s) THEN check[s.bodies[2]][r] ELSE r

CheckTry(check, st, s) ==
  CheckScoped(check, CheckScoped(check, st, NoNames, s.bodies[1]),
              Only(s.name, "exception"), s.bodies[2])

CheckWhile(check, st, s) ==
  [CheckScoped(check, [st EXCEPT !.loops = @ + 1], NoNames, s.bodies[1]) EXCEPT !.loops = st.loops]

\* check_statement.
CheckStatement(check, st, s) ==
  IF ~st.ok \/ ~StatementOK(st, s) THEN [st EXCEPT !.ok = FALSE]
  ELSE CASE s.kind = "assign" -> [st EXCEPT !.scopes = Assigned(@, s.name, s.type)]
         [] s.kind = "block" -> CheckScoped(check, st, NoNames, s.bodies[1])
         [] s.kind = "if" -> CheckIf(check, st, s)
         [] s.kind \in {"switch", "switch default"} -> CheckArms(check, st, s.bodies)
         [] s.kind = "try" -> CheckTry(check, st, s)
         [] s.kind = "while" -> CheckWhile(check, st, s)
         [] OTHER -> st

\* A list, statement by statement.
CheckBody[b \in Bodies] ==
  [st \in CheckerStates |->
     IF b = <<>> THEN st ELSE CheckBody[Tail(b)][CheckStatement(CheckBody, st, Head(b))]]

\* Mutant of CoversAllCases: a switch without a default runs some arm.
CoversAllCasesAnyway(s) == s.kind # "if" \/ Len(s.bodies) = 2

\* An if without else and a switch without default may run none of their bodies.
CoversAllCases(s) ==
  /\ s.kind = "if" => Len(s.bodies) = 2
  /\ s.kind # "switch"

\* definitely_returns, where `returns' says it of a body.
DefinitelyReturns(returns, s) ==
  \/ s.kind \in {"return", "throw"}
  \/ /\ s.kind \in {"block", "if", "switch", "switch default", "try"}
     /\ s.bodies # <<>> /\ CoversAllCases(s)
     /\ \A i \in DOMAIN s.bodies : returns[s.bodies[i]]

BodyDefinitelyReturns[b \in Bodies] ==
  \E i \in DOMAIN b : DefinitelyReturns(BodyDefinitelyReturns, b[i])

\* Checker::run of a module, check_function of a function: its parameter must
\* not shadow a global.
Accepted(p, g) ==
  /\ p.parameter # Unbound => g[p.parameter] = Unbound
  /\ p.of = "value" => BodyDefinitelyReturns[p.body]
  /\ CheckBody[p.body][CheckerState(p, g)].ok

-----------------------------------------------------------------------------
(* The interpreter.  A frame is a statement list in execution; every frame   *)
(* has a scope in scopes_.                                                   *)
Frame(does, rest, try) == [does |-> does, rest |-> rest, try |-> try]
NoTry == Stmt("none", Unbound, Unbound, <<>>)

Init ==
  /\ program \in Programs
  /\ globals \in Scope
  /\ Accepted(program, globals)
  /\ scopes = <<ParameterScope(program)>>
  /\ frames = <<Frame("body", program.body, NoTry)>>
  /\ flow = "normal"

\* resolve_binding.
TypeOf(x) == IF TypeIn(scopes, x) # Unbound THEN TypeIn(scopes, x) ELSE globals[x]

Running == frames # <<>> /\ flow = "normal" /\ Last(frames).rest # <<>>
Current == Head(Last(frames).rest)
Does(kind) == Running /\ Current.kind = kind

\* The innermost list without its first statement, and with a frame for a
\* nested list.
Advanced == [frames EXCEPT ![Len(frames)].rest = Tail(@)]
Entering(fs, does, b, try, scope) ==
  /\ frames' = Append(fs, Frame(does, b, try))
  /\ scopes' = Append(scopes, scope)
  /\ UNCHANGED <<program, globals, flow>>

Raise(f) == flow' = f /\ UNCHANGED <<program, globals, scopes, frames>>

\* define_variable: an existing variable stays where it is, a new one is
\* global at the top level of a module.
Store(x, t) ==
  IF \/ TypeIn(scopes, x) = Unbound /\ globals[x] # Unbound
     \/ TypeOf(x) = Unbound /\ ~IsFunction(program) /\ Len(scopes) = 1
  THEN globals' = [globals EXCEPT ![x] = t] /\ UNCHANGED scopes
  ELSE scopes' = Assigned(scopes, x, t) /\ UNCHANGED globals

AssignVariable ==
  /\ Does("assign")
  /\ CanAssign(TypeOf(Current.name), Current.type)
  /\ Store(Current.name, Current.type)
  /\ frames' = Advanced
  /\ UNCHANGED <<program, flow>>

\* A variable is read, or an assertion holds.
Evaluate ==
  /\ Does("read") \/ Does("assert")
  /\ frames' = Advanced
  /\ UNCHANGED <<program, globals, scopes, flow>>

\* A native fault in an expression, or the throw statement.
Fault ==
  /\ Running /\ Current.kind \notin {"block", "try", "break", "continue"}
  /\ Current.kind = "return" => Current.type # Unbound
  /\ Raise("fault")

\* An assertion fails, a variable has another storage class than the checker
\* saw, or does not exist.
CanFail(s) ==
  \/ s.kind = "assert"
  \/ s.kind = "assign" /\ ~CanAssign(TypeOf(s.name), s.type)
  \/ s.kind \in {"read", "throw"} /\ TypeOf(s.name) = Unbound

Fail == Running /\ CanFail(Current) /\ Raise("error")

JumpAway ==
  /\ Running /\ Current.kind \in {"break", "continue", "return"}
  /\ Raise(Current.kind)

EnterBlock ==
  /\ Does("block")
  /\ Entering(Advanced, "block", Current.bodies[1], NoTry, NoNames)

\* The condition is true; or it is false, and the else branch is executed in
\* the scope of the if.
EnterThen ==
  /\ Does("if")
  /\ Entering(Advanced, "block", Current.bodies[1], NoTry, NoNames)

ExecuteElse ==
  /\ Does("if")
  /\ frames' = [frames EXCEPT ![Len(frames)].rest =
                  IF Len(Current.bodies) = 2 THEN Current.bodies[2] \o Tail(@) ELSE Tail(@)]
  /\ UNCHANGED <<program, globals, scopes, flow>>

\* Some arm matches, or the default is taken.
EnterArm ==
  /\ Running /\ Current.kind \in {"switch", "switch default"}
  /\ \E i \in DOMAIN Current.bodies :
       Entering(Advanced, "block", Current.bodies[i], NoTry, NoNames)

SkipSwitch ==
  /\ Does("switch")
  /\ frames' = Advanced
  /\ UNCHANGED <<program, globals, scopes, flow>>

EnterTry ==
  /\ Does("try")
  /\ Entering(Advanced, "try", Current.bodies[1], Current, NoNames)

\* The while statement stays in place until its condition is false.
EnterWhile ==
  /\ Does("while")
  /\ Entering(frames, "while", Current.bodies[1], NoTry, NoNames)

LeaveWhile ==
  /\ Does("while")
  /\ frames' = Advanced
  /\ UNCHANGED <<program, globals, scopes, flow>>

Nested == Len(frames) > 1

\* run_scoped: the list is done.
LeaveList ==
  /\ Nested /\ flow = "normal" /\ Last(frames).rest = <<>>
  /\ frames' = Front(frames) /\ scopes' = Front(scopes)
  /\ UNCHANGED <<program, globals, flow>>

\* The loop in which a break or continue is.
EndIteration ==
  /\ Nested /\ flow \in {"break", "continue"} /\ Last(frames).does = "while"
  /\ scopes' = Front(scopes) /\ flow' = "normal"
  /\ frames' = IF flow = "continue" THEN Front(frames)
               ELSE [Front(frames) EXCEPT ![Len(frames) - 1].rest = Tail(@)]
  /\ UNCHANGED <<program, globals>>

\* StmtKind::Try: the exception is bound in the scope of the catch body.
Catch ==
  /\ Nested /\ flow = "fault" /\ Last(frames).does = "try"
  /\ LET s == Last(frames).try
     IN /\ frames' = Append(Front(frames), Frame("catch", s.bodies[2], s))
        /\ scopes' = Append(Front(scopes), Only(s.name, "exception"))
  /\ flow' = "normal"
  /\ UNCHANGED <<program, globals>>

\* Mutant of Unwind: the scope is popped on return, but not when an exception
\* passes.
UnwindNormally ==
  /\ Nested /\ flow # "normal"
  /\ flow \in {"break", "continue"} => Last(frames).does # "while"
  /\ flow = "fault" => Last(frames).does # "try"
  /\ frames' = Front(frames)
  /\ scopes' = IF flow \in {"fault", "error"} THEN scopes ELSE Front(scopes)
  /\ UNCHANGED <<program, globals, flow>>

\* run_scoped: a flow or an exception passes.
Unwind ==
  /\ Nested /\ flow # "normal"
  /\ flow \in {"break", "continue"} => Last(frames).does # "while"
  /\ flow = "fault" => Last(frames).does # "try"
  /\ frames' = Front(frames) /\ scopes' = Front(scopes)
  /\ UNCHANGED <<program, globals, flow>>

\* The body is over: normally, with a flow, or with an exception.
BodyEnds ==
  Len(frames) = 1 /\ (flow # "normal" \/ Last(frames).rest = <<>>)

EndBody ==
  /\ BodyEnds
  /\ frames' = <<>> /\ scopes' = <<>>
  /\ UNCHANGED <<program, globals, flow>>

Ended == frames = <<>> /\ UNCHANGED vars

\* While a function runs as a callback on another thread, the top level of a
\* module makes a variable that was not there when the function was checked.
OthersDefineGlobal ==
  /\ frames # <<>> /\ IsFunction(program)
  /\ \E x \in Names, t \in Types :
       globals[x] = Unbound /\ globals' = [globals EXCEPT ![x] = t]
  /\ UNCHANGED <<program, scopes, frames, flow>>

Next ==
  \/ AssignVariable \/ Evaluate \/ Fault \/ Fail \/ JumpAway
  \/ EnterBlock \/ EnterThen \/ ExecuteElse \/ EnterArm \/ SkipSwitch
  \/ EnterTry \/ EnterWhile \/ LeaveWhile
  \/ LeaveList \/ EndIteration \/ Catch \/ Unwind \/ EndBody \/ Ended
  \/ OthersDefineGlobal

Spec == Init /\ [][Next]_vars

-----------------------------------------------------------------------------
\* The state is well-formed, and scopes_ has one scope for each statement list
\* in execution, on every path into and out of nested lists, exceptional ones
\* included: run_scoped and the catch clauses pop what they pushed.
ScopesFollowFrames ==
  /\ globals \in Scope /\ flow \in Flows
  /\ scopes \in Seq(Scope)
  /\ Len(scopes) = Len(frames)

\* What the checker has accepted finds its variables: a variable that is read
\* exists ("undefined variable" is never thrown), and one that is thrown is a
\* NATIVE_EXCEPTION, however control got there and whichever globals have
\* appeared since.
UsesAreAsChecked ==
  Running =>
    /\ Current.kind = "read" => TypeOf(Current.name) # Unbound
    /\ Current.kind = "throw" => TypeOf(Current.name) = "exception"

\* Every break and continue reaches a loop of its own body: neither leaves a
\* function as if it had ended, nor a module ("control flow escaped top-level
\* execution", interpreter.cpp 782).
JumpsReachTheirLoop ==
  BodyEnds => /\ flow \notin {"break", "continue"}
              /\ flow = "return" => IsFunction(program)

\* No function that returns a value reaches its end without returning
\* (interpreter.cpp 794), whatever its conditions, faults and jumps do.
FunctionsReturn ==
  BodyEnds /\ program.of = "value" => flow # "normal"
=============================================================================
