----------------------------- MODULE MCSession ------------------------------
(***************************************************************************)
(* Session with two variables and two functions, and the statements that   *)
(* each run is about.                                                      *)
(***************************************************************************)
EXTENDS Session

CONSTANTS x, y,  \* variables
          f, n, m  \* functions; m is always native

Integer(e) == Simple(Assign(e, Literal("i64")))
Float(e) == Simple(Assign(e, Literal("f64")))

\* Straight-line code: variables change their types, f is redefined with
\* another return type, n is native until it is not, a branch has a variable of its
\* own or retypes the global one, and modules fail.
PlainStatements ==
  {Integer(x), Float(x), Simple(Assign(y, Plus1(Variable(x)))),
   Simple(Assign(y, Plus1(Call(f)))), Simple(Assign(x, Literal("S"))),
   Define(f, "i64", ReturnOf(Literal("f64"))), Define(f, "f64", ReturnOf(TypedCall(m, "i64"))),
   Define(n, "void", Evaluate(Call(f))), Simple(Evaluate(Call(n))),
   Simple(Assign(y, Call(n))), IfElse(Evaluate(TypedCall(n, "i64")), AssertFalse),
   IfElse(Assign(y, Literal("i64")), AssertFalse)}

\* A function computes with a variable that is retyped after its definition, or
\* with the result of another one that is redefined with another return type.
RetypeStatements ==
  {Integer(x), Float(x), Define(f, "i64", ReturnOf(Plus1(Variable(x)))),
   Simple(Assign(y, Call(f))),
   Define(f, "f64", ReturnOf(Literal("f64"))), Define(n, "i64", ReturnOf(Plus1(Call(f)))),
   Simple(Assign(y, Call(n)))}
=============================================================================
