--------------------------- MODULE SessionProofs ----------------------------
(***************************************************************************)
(* What the checker has accepted finds its names and descriptors, and a    *)
(* finished module has left the names that the checker predicted, for any  *)
(* variables, functions and statements and any number of modules, failed   *)
(* or finished.  Nothing is proved about the types of variables: they may  *)
(* be others than the checker believes.                                    *)
(***************************************************************************)
EXTENDS Session, SequenceTheorems, TLAPS

-----------------------------------------------------------------------------
(* Types.                                                                    *)

CheckerStates ==
  [vars : [Vars -> TypeOrNone], funs : [Funs -> TypeOrNone], ffi : [Funs -> TypeOrNone]]

\* Annotated expressions and statements, as the checker makes them.
AnnotatedExpressions ==
  {e \in [of : {"literal", "variable", "call", "typed"}, name : Vars \cup Funs \cup {NoType},
          plus : BOOLEAN, operand : Types, type : Types, script : BOOLEAN] :
     /\ e.of = "variable" => e.name \in Vars
     /\ e.of \in {"call", "typed"} => e.name \in Funs
     /\ e.script => e.of \in {"call", "typed"}
     /\ e.type = IF e.plus /\ e.operand \notin Floats THEN "i64" ELSE e.operand}
AnnotatedSimples ==
  {s \in [does : {"assign", "evaluate", "return", "fail"}, to : Vars \cup {NoType},
          expr : AnnotatedExpressions] :
     s.does = "assign" => s.to \in Vars}
AnnotatedStatements ==
  [kind : {"simple"}, then : AnnotatedSimples]
  \cup [kind : {"if"}, then : AnnotatedSimples, else : AnnotatedSimples]
  \cup [kind : {"define"}, name : Funs, returns : Types, then : AnnotatedSimples]

FunctionVersions == [returns : Types, body : AnnotatedSimples] \cup {Undefined}
Frames == [stmt : AnnotatedSimples, top : BOOLEAN, returns : TypeOrNone, value : Value]

SessionTypeOK ==
  /\ globals \in [Vars -> Value]
  /\ functions \in [Funs -> FunctionVersions]
  /\ ffi \in [Funs -> TypeOrNone]
  /\ static \in CheckerStates
  /\ module \in Seq(AnnotatedStatements)
  /\ executing \in BOOLEAN
  /\ stack \in Seq(Frames)

-----------------------------------------------------------------------------
(* A step of the checker, from st to n, that annotates a statement as a.     *)

NamesKnown(e, st) ==
  /\ e.of = "variable" => st.vars[e.name] # NoType
  /\ e.script => st.funs[e.name] # NoType
IsNative(e) == e.of \in {"call", "typed"} /\ ~e.script
Declared(e, descriptors) == IsNative(e) => descriptors[e.name] # NoType
Remembers(old, new) == \A f \in Funs : old[f] # NoType => new[f] # NoType

SimpleStep(st, a, n) ==
  /\ NamesKnown(a.expr, st) /\ Declared(a.expr, n.ffi)
  /\ n.funs = st.funs
  /\ n.vars = IF a.does = "assign" THEN [st.vars EXCEPT ![a.to] = a.expr.type] ELSE st.vars
BranchStep(st, a, n) ==
  /\ \A s \in {a.then, a.else} : NamesKnown(s.expr, st) /\ Declared(s.expr, n.ffi)
  /\ n.funs = st.funs
  /\ \A x \in Vars : n.vars[x] # NoType <=> st.vars[x] # NoType
DefineStep(st, a, n) ==
  /\ NamesKnown(a.then.expr, n) /\ Declared(a.then.expr, n.ffi)
  /\ a.then.does = "return" <=> a.returns # "void"
  /\ n.funs = [st.funs EXCEPT ![a.name] = a.returns]
  /\ n.vars = st.vars

Step(st, a, n) ==
  /\ a.kind = "simple" => SimpleStep(st, a.then, n)
  /\ a.kind = "if" => BranchStep(st, a, n)
  /\ a.kind = "define" => DefineStep(st, a, n)
  /\ Remembers(st.ffi, n.ffi)

-----------------------------------------------------------------------------
(* The checker makes such steps.                                             *)

LEMMA ExpressionFacts ==
  ASSUME NEW st \in CheckerStates, NEW e \in Expressions, ExpressionOK(st, e)
  PROVE  /\ Annotated(st, e) \in AnnotatedExpressions
         /\ NamesKnown(Annotated(st, e), st)
         /\ StaticType(st, e) \in Types
         /\ Remembering(st, e) \in CheckerStates
         /\ Remembering(st, e).vars = st.vars /\ Remembering(st, e).funs = st.funs
         /\ Remembers(st.ffi, Remembering(st, e).ffi)
         /\ Declared(Annotated(st, e), Remembering(st, e).ffi)
<1>1. OperandType(st, e) \in Types
  BY DEF ExpressionOK, OperandType, MeansScript, Expressions, CheckerStates, TypeOrNone
<1>2. StaticType(st, e) \in Types
  BY <1>1 DEF StaticType, Types, Scalars
<1>3. Annotated(st, e) \in AnnotatedExpressions
  BY <1>1, <1>2 DEF Annotated, AnnotatedExpressions, Expressions, MeansScript, StaticType
<1>4. NamesKnown(Annotated(st, e), st)
  BY DEF Annotated, NamesKnown, ExpressionOK, OperandType, MeansScript, Expressions
<1>5. /\ Remembering(st, e) \in CheckerStates
      /\ Remembering(st, e).vars = st.vars /\ Remembering(st, e).funs = st.funs
  BY DEF Remembering, CheckerStates, Expressions, TypeOrNone
<1>6. e.of = "typed" => e.type # NoType
  BY DEF ExpressionOK, OperandType
<1>7. Remembers(st.ffi, Remembering(st, e).ffi)
  BY <1>6 DEF Remembering, Remembers, CheckerStates
<1>8. Declared(Annotated(st, e), Remembering(st, e).ffi)
  BY <1>6 DEF Declared, IsNative, Annotated, Remembering, ExpressionOK, OperandType, MeansScript,
    Expressions, CheckerStates
<1> QED
  BY <1>2, <1>3, <1>4, <1>5, <1>7, <1>8

LEMMA SimpleFacts ==
  ASSUME NEW st \in CheckerStates, NEW s \in SimpleStatements, SimpleOK(st, s), NEW top \in BOOLEAN
  PROVE  /\ AnnotatedSimple(st, s) \in AnnotatedSimples
         /\ AnnotatedSimple(st, s).does = s.does /\ AnnotatedSimple(st, s).to = s.to
         /\ AnnotatedSimple(st, s).expr = Annotated(st, s.expr)
         /\ NamesKnown(Annotated(st, s.expr), st)
         /\ AfterSimple(st, s, top) \in CheckerStates
         /\ AfterSimple(st, s, top).funs = st.funs
         /\ AfterSimple(st, s, top).vars =
              IF s.does = "assign" /\ (top \/ st.vars[s.to] # NoType)
              THEN [st.vars EXCEPT ![s.to] = Annotated(st, s.expr).type] ELSE st.vars
         /\ Remembers(st.ffi, AfterSimple(st, s, top).ffi)
         /\ Declared(Annotated(st, s.expr), AfterSimple(st, s, top).ffi)
<1>1. s.expr \in Expressions /\ ExpressionOK(st, s.expr)
  BY DEF SimpleStatements, SimpleOK
<1> DEFINE r == Remembering(st, s.expr)
<1>2. /\ Annotated(st, s.expr) \in AnnotatedExpressions
      /\ NamesKnown(Annotated(st, s.expr), st)
      /\ StaticType(st, s.expr) \in Types
      /\ r \in CheckerStates /\ r.vars = st.vars /\ r.funs = st.funs
      /\ Remembers(st.ffi, r.ffi) /\ Declared(Annotated(st, s.expr), r.ffi)
  BY <1>1, ExpressionFacts
<1>3. Annotated(st, s.expr).type = StaticType(st, s.expr)
  BY DEF Annotated
<1>4. /\ AnnotatedSimple(st, s) \in AnnotatedSimples
      /\ AnnotatedSimple(st, s).does = s.does /\ AnnotatedSimple(st, s).to = s.to
      /\ AnnotatedSimple(st, s).expr = Annotated(st, s.expr)
  BY <1>2 DEF AnnotatedSimple, AnnotatedSimples, SimpleStatements
<1>5. AfterSimple(st, s, top) =
        IF s.does = "assign" /\ (top \/ st.vars[s.to] # NoType)
        THEN [r EXCEPT !.vars[s.to] = StaticType(st, s.expr)] ELSE r
  BY DEF AfterSimple
<1> HIDE DEF r
<1>6. /\ AfterSimple(st, s, top) \in CheckerStates
      /\ AfterSimple(st, s, top).funs = r.funs /\ AfterSimple(st, s, top).ffi = r.ffi
      /\ AfterSimple(st, s, top).vars =
              IF s.does = "assign" /\ (top \/ st.vars[s.to] # NoType)
              THEN [r.vars EXCEPT ![s.to] = StaticType(st, s.expr)] ELSE r.vars
  BY <1>2, <1>5 DEF CheckerStates, SimpleStatements, TypeOrNone
<1> QED
  BY <1>2, <1>3, <1>4, <1>6

LEMMA StepFacts ==
  ASSUME NEW st \in CheckerStates, NEW s \in Statements, StatementOK(st, s)
  PROVE  /\ AnnotatedStatement(st, s) \in AnnotatedStatements
         /\ After(st, s) \in CheckerStates
         /\ Step(st, AnnotatedStatement(st, s), After(st, s))
<1> DEFINE a == AnnotatedStatement(st, s)
           n == After(st, s)
<1>1. s \in AllStatements
  BY StatementsAreStatements
<1>3. CASE s.kind = "simple"
  <2>1. s.then \in SimpleStatements /\ SimpleOK(st, s.then) /\ s.then.does # "return"
    BY <1>1, <1>3 DEF AllStatements, StatementOK, InModule
  <2>2. a = [s EXCEPT !.then = AnnotatedSimple(st, s.then)] /\ n = AfterSimple(st, s.then, TRUE)
    BY <1>3 DEF AnnotatedStatement, After
  <2> HIDE DEF n
  <2> DEFINE e == Annotated(st, s.then.expr)
             b == AnnotatedSimple(st, s.then)
  <2>3. /\ b \in AnnotatedSimples /\ b.does = s.then.does /\ b.to = s.then.to /\ b.expr = e
        /\ NamesKnown(e, st) /\ Declared(e, n.ffi)
        /\ n \in CheckerStates /\ n.funs = st.funs /\ Remembers(st.ffi, n.ffi)
        /\ n.vars = IF s.then.does = "assign" THEN [st.vars EXCEPT ![s.then.to] = e.type]
                                              ELSE st.vars
    BY <2>1, <2>2, SimpleFacts
  <2> HIDE DEF e, b
  <2>5. a \in AnnotatedStatements /\ a.kind = "simple" /\ a.then = b
    BY <1>1, <1>3, <2>2, <2>3 DEF AllStatements, AnnotatedStatements, b
  <2> HIDE DEF a
  <2>6. SimpleStep(st, a.then, n)
    BY <2>1, <2>3, <2>5 DEF SimpleStep
  <2> QED
    BY <2>3, <2>5, <2>6 DEF Step, a, n
<1>4. CASE s.kind = "if"
  <2> DEFINE m == AfterSimple(st, s.then, FALSE)
  <2>1. /\ s.then \in SimpleStatements /\ SimpleOK(st, s.then) /\ s.then.does # "return"
        /\ s.else \in SimpleStatements /\ SimpleOK(m, s.else) /\ s.else.does # "return"
    BY <1>1, <1>4 DEF AllStatements, StatementOK, InModule
  <2> DEFINE e == Annotated(st, s.then.expr)
             f == Annotated(m, s.else.expr)
             b == AnnotatedSimple(st, s.then)
             c == AnnotatedSimple(m, s.else)
  <2>2. a = [s EXCEPT !.then = b, !.else = c] /\ n = AfterSimple(m, s.else, FALSE)
    BY <1>4 DEF AnnotatedStatement, After
  <2> HIDE DEF n
  <2>3. /\ b \in AnnotatedSimples /\ b.does = s.then.does /\ b.to = s.then.to /\ b.expr = e
        /\ NamesKnown(e, st) /\ Declared(e, m.ffi)
        /\ m \in CheckerStates /\ m.funs = st.funs /\ Remembers(st.ffi, m.ffi)
        /\ m.vars = IF s.then.does = "assign" /\ st.vars[s.then.to] # NoType
                    THEN [st.vars EXCEPT ![s.then.to] = e.type] ELSE st.vars
    BY <2>1, SimpleFacts
  <2> HIDE DEF m
  <2>4. /\ c \in AnnotatedSimples /\ c.does = s.else.does /\ c.to = s.else.to /\ c.expr = f
        /\ NamesKnown(f, m) /\ Declared(f, n.ffi)
        /\ n \in CheckerStates /\ n.funs = m.funs /\ Remembers(m.ffi, n.ffi)
        /\ n.vars = IF s.else.does = "assign" /\ m.vars[s.else.to] # NoType
                    THEN [m.vars EXCEPT ![s.else.to] = f.type] ELSE m.vars
    BY <2>1, <2>2, <2>3, SimpleFacts
  <2>6. e \in AnnotatedExpressions /\ f \in AnnotatedExpressions
    BY <2>3, <2>4 DEF AnnotatedSimples
  <2> HIDE DEF e, f, b, c
  <2>7. a \in AnnotatedStatements /\ a.kind = "if" /\ a.then = b /\ a.else = c
    BY <1>1, <1>4, <2>2, <2>3, <2>4 DEF AllStatements, AnnotatedStatements
  <2> HIDE DEF a
  <2>8. \A x \in Vars : m.vars[x] # NoType <=> st.vars[x] # NoType
    BY <2>3, <2>6 DEF CheckerStates, AnnotatedExpressions, Types, Scalars, Floats, NoType
  <2>9. \A x \in Vars : n.vars[x] # NoType <=> m.vars[x] # NoType
    BY <2>3, <2>4, <2>6 DEF CheckerStates, AnnotatedExpressions, Types, Scalars, Floats, NoType
  <2>10. NamesKnown(f, st)
    BY <2>3, <2>4, <2>8, <2>6 DEF NamesKnown, AnnotatedExpressions
  <2>11. Declared(e, n.ffi)
    BY <2>3, <2>4, <2>6 DEF Declared, Remembers, IsNative, AnnotatedExpressions
  <2>12. BranchStep(st, a, n)
    BY <2>1, <2>3, <2>4, <2>7, <2>8, <2>9, <2>10, <2>11 DEF BranchStep
  <2>13. Remembers(st.ffi, n.ffi)
    BY <2>3, <2>4 DEF Remembers
  <2> QED
    BY <2>4, <2>7, <2>12, <2>13 DEF Step, a, n
<1>5. CASE s.kind = "define"
  <2> DEFINE m == InBody(st, s)
             q == AfterSimple(m, s.then, FALSE)
  <2>1. /\ s.then \in SimpleStatements /\ SimpleOK(m, s.then)
        /\ s.then.does = "return" <=> s.returns # "void"
        /\ s.name \in Funs /\ s.returns \in Types
    BY <1>1, <1>5 DEF AllStatements, StatementOK
  <2>2. a = [s EXCEPT !.then = AnnotatedSimple(m, s.then)] /\ n = [q EXCEPT !.vars = st.vars]
    BY <1>5 DEF AnnotatedStatement, After, AfterDefine
  <2>3. /\ m \in CheckerStates /\ m.funs = [st.funs EXCEPT ![s.name] = s.returns]
        /\ m.vars = st.vars /\ m.ffi = st.ffi
    BY <2>1 DEF InBody, CheckerStates, TypeOrNone
  <2> HIDE DEF m
  <2>4. /\ q \in CheckerStates /\ q.funs = m.funs /\ Remembers(m.ffi, q.ffi)
        /\ AnnotatedSimple(m, s.then) \in AnnotatedSimples
        /\ AnnotatedSimple(m, s.then).does = s.then.does
        /\ AnnotatedSimple(m, s.then).expr = Annotated(m, s.then.expr)
        /\ NamesKnown(Annotated(m, s.then.expr), m)
        /\ Declared(Annotated(m, s.then.expr), q.ffi)
    BY <2>1, <2>3, SimpleFacts
  <2> HIDE DEF q
  <2>5. n \in CheckerStates /\ n.vars = st.vars /\ n.funs = q.funs /\ n.ffi = q.ffi
    BY <2>2, <2>4 DEF CheckerStates
  <2>6. /\ a \in AnnotatedStatements /\ a.kind = "define" /\ a.then = AnnotatedSimple(m, s.then)
        /\ a.name = s.name /\ a.returns = s.returns
    BY <1>1, <1>5, <2>1, <2>2, <2>4 DEF AllStatements, AnnotatedStatements
  <2> HIDE DEF a, n
  <2>7. NamesKnown(a.then.expr, n)
    BY <2>3, <2>4, <2>5, <2>6 DEF NamesKnown
  <2>8. DefineStep(st, a, n) /\ Remembers(st.ffi, n.ffi)
    BY <2>1, <2>3, <2>4, <2>5, <2>6, <2>7 DEF DefineStep
  <2> QED
    BY <2>5, <2>6, <2>8 DEF Step, a, n
<1> QED
  BY <1>1, <1>3, <1>4, <1>5 DEF AllStatements

-----------------------------------------------------------------------------
(* The inductive invariant.                                                  *)

\* What the checker believes of the Runtime at the start of a module, or of what
\* is left of it: functions as they are, and the variables that there will be when
\* the statement in execution has made its assignment.
Pending(x) ==
  stack # <<>> /\ stack[1].top /\ stack[1].stmt.does = "assign" /\ stack[1].stmt.to = x
Believes(st) ==
  /\ \A f \in Funs : st.funs[f] = functions[f].returns
  /\ \A x \in Vars : st.vars[x] # NoType <=> globals[x] # NoValue \/ Pending(x)

\* The checker has come through the statements m to its state "last".
Checks(run, m, last) ==
  /\ run \in [1 .. Len(m) + 1 -> CheckerStates]
  /\ \A i \in 1 .. Len(m) : Step(run[i], m[i], run[i + 1])
  /\ run[Len(m) + 1] = last
  /\ \A i \in 1 .. Len(m) + 1 : Remembers(run[i].ffi, last.ffi)
ModuleIsChecked == \E run : Checks(run, module, static) /\ Believes(run[1])

Here(e) ==
  /\ e.of = "variable" => globals[e.name] # NoValue
  /\ e.script => functions[e.name] # Undefined

GlobalsOK == \A x \in Vars : globals[x].type = NoType => globals[x] = NoValue

VersionOK(v) ==
  /\ Here(v.body.expr) /\ Declared(v.body.expr, ffi)
  /\ v.body.does = "return" <=> v.returns # "void"
FunctionsOK == \A f \in Funs : functions[f] # Undefined => VersionOK(functions[f])

DescriptorsOK == Remembers(ffi, static.ffi) /\ (executing => ffi = static.ffi)

\* A caller waits for the function it called, as it was then.
ValueOK(g) ==
  g.value # NoValue =>
    g.value.type = IF g.stmt.expr.script THEN functions[g.stmt.expr.name].returns
                                        ELSE g.stmt.expr.operand
FrameOK(g) == Here(g.stmt.expr) /\ ValueOK(g)
Calling(c, g) ==
  /\ c.stmt.expr.script /\ c.value = NoValue
  /\ g.returns = functions[c.stmt.expr.name].returns
  /\ g.stmt = functions[c.stmt.expr.name].body
StackOK ==
  \A i \in 1 .. Len(stack) :
    FrameOK(stack[i]) /\ (i > 1 => ~stack[i].top /\ Calling(stack[i - 1], stack[i]))

SessionInv ==
  /\ SessionTypeOK
  /\ GlobalsOK /\ FunctionsOK /\ DescriptorsOK /\ StackOK /\ ModuleIsChecked
  /\ ~executing => stack = <<>>

-----------------------------------------------------------------------------
(* Sequences.                                                                *)

\* The first statement is taken from the module.
LEMMA TailRun ==
  ASSUME NEW m \in Seq(AnnotatedStatements), m # <<>>, NEW run, NEW last, Checks(run, m, last)
  PROVE  /\ \E r : Checks(r, Tail(m), last) /\ r[1] = run[2]
         /\ Step(run[1], Head(m), run[2])
         /\ Head(m) \in AnnotatedStatements /\ Tail(m) \in Seq(AnnotatedStatements)
         /\ run[1] \in CheckerStates /\ run[2] \in CheckerStates
         /\ Remembers(run[2].ffi, last.ffi)
<1> DEFINE r == [i \in 1 .. Len(m) |-> run[i + 1]]
<1>1. /\ Len(m) \in Nat \ {0} /\ Head(m) = m[1] /\ Len(Tail(m)) = Len(m) - 1
      /\ \A i \in 1 .. Len(m) - 1 : Tail(m)[i] = m[i + 1]
      /\ Head(m) \in AnnotatedStatements /\ Tail(m) \in Seq(AnnotatedStatements)
  OBVIOUS
<1>2. \A i \in 1 .. Len(m) : i + 1 \in 1 .. Len(m) + 1 /\ r[i] = run[i + 1]
  BY <1>1
<1>3. r \in [1 .. Len(Tail(m)) + 1 -> CheckerStates]
  BY <1>1, <1>2 DEF Checks
<1> HIDE DEF r
<1>4. \A i \in 1 .. Len(Tail(m)) : Step(r[i], Tail(m)[i], r[i + 1])
  <2> SUFFICES ASSUME NEW i \in 1 .. Len(Tail(m)) PROVE Step(r[i], Tail(m)[i], r[i + 1])
    OBVIOUS
  <2>1. i \in 1 .. Len(m) /\ i + 1 \in 1 .. Len(m) /\ Tail(m)[i] = m[i + 1]
    BY <1>1
  <2>2. Step(run[i + 1], m[i + 1], run[(i + 1) + 1])
    BY <2>1 DEF Checks
  <2> QED
    BY <1>2, <2>1, <2>2
<1>5. Checks(r, Tail(m), last)
  <2>1. Len(Tail(m)) + 1 = Len(m) /\ Len(m) \in 1 .. Len(m)
    BY <1>1
  <2>2. r[Len(m)] = last /\ \A i \in 1 .. Len(m) : Remembers(r[i].ffi, last.ffi)
    BY <1>2, <2>1 DEF Checks
  <2> QED
    BY <1>3, <1>4, <2>1, <2>2 DEF Checks
<1>6. 1 \in 1 .. Len(m) /\ 1 \in 1 .. Len(m) + 1 /\ 2 \in 1 .. Len(m) + 1
  BY <1>1
<1>7. r[1] = run[2] /\ Step(run[1], m[1], run[2])
  <2>1. r[1] = run[1 + 1] /\ Step(run[1], m[1], run[1 + 1])
    BY <1>2, <1>6 DEF Checks
  <2> QED
    BY <2>1
<1> QED
  BY <1>1, <1>5, <1>6, <1>7 DEF Checks

\* A statement is added to the module.
LEMMA AppendRun ==
  ASSUME NEW m \in Seq(AnnotatedStatements), NEW run, NEW last, Checks(run, m, last),
         NEW a \in AnnotatedStatements, NEW next \in CheckerStates, Step(last, a, next)
  PROVE  \E r : Checks(r, Append(m, a), next) /\ r[1] = run[1]
<1> DEFINE r == [i \in 1 .. Len(m) + 2 |-> IF i = Len(m) + 2 THEN next ELSE run[i]]
           q == Append(m, a)
<1>1. /\ Len(m) \in Nat /\ Len(q) = Len(m) + 1 /\ q[Len(m) + 1] = a
      /\ \A i \in 1 .. Len(m) : q[i] = m[i]
  OBVIOUS
<1>2. r[Len(m) + 2] = next /\ \A i \in 1 .. Len(m) + 1 : r[i] = run[i]
  BY <1>1
<1>3. r \in [1 .. Len(q) + 1 -> CheckerStates]
  BY <1>1 DEF Checks
<1> HIDE DEF r, q
<1>4. \A i \in 1 .. Len(q) : Step(r[i], q[i], r[i + 1])
  <2> SUFFICES ASSUME NEW i \in 1 .. Len(q) PROVE Step(r[i], q[i], r[i + 1])
    OBVIOUS
  <2>1. CASE i \in 1 .. Len(m)
    <3>1. i \in 1 .. Len(m) + 1 /\ i + 1 \in 1 .. Len(m) + 1
      BY <1>1, <2>1
    <3> QED
      BY <1>1, <1>2, <2>1, <3>1 DEF Checks
  <2>2. CASE i = Len(m) + 1
    <3>1. i \in 1 .. Len(m) + 1 /\ i + 1 = Len(m) + 2
      BY <1>1, <2>2
    <3>2. r[i] = last /\ r[i + 1] = next /\ q[i] = a
      BY <1>1, <1>2, <2>2, <3>1 DEF Checks
    <3> QED
      BY <3>2
  <2> QED
    BY <1>1, <2>1, <2>2
<1>5. Remembers(last.ffi, next.ffi)
  BY DEF Step
<1>6. \A i \in 1 .. Len(q) + 1 : Remembers(r[i].ffi, next.ffi)
  <2> SUFFICES ASSUME NEW i \in 1 .. Len(q) + 1 PROVE Remembers(r[i].ffi, next.ffi)
    OBVIOUS
  <2>1. CASE i \in 1 .. Len(m) + 1
    <3>1. r[i] = run[i] /\ Remembers(run[i].ffi, last.ffi)
      BY <1>2, <2>1 DEF Checks
    <3> QED
      BY <1>5, <2>1, <3>1 DEF Checks, Remembers
  <2>2. CASE i = Len(m) + 2
    BY <1>2, <2>2 DEF Remembers
  <2> QED
    BY <1>1, <2>1, <2>2
<1>7. Checks(r, q, next)
  BY <1>1, <1>2, <1>3, <1>4, <1>6 DEF Checks
<1>8. r[1] = run[1]
  BY <1>1, <1>2
<1> QED
  BY <1>7, <1>8 DEF q

\* A frame is pushed.
LEMMA PushFacts ==
  ASSUME NEW s \in Seq(Frames), NEW g \in Frames
  PROVE  /\ Append(s, g) \in Seq(Frames) /\ Len(Append(s, g)) = Len(s) + 1
         /\ Append(s, g)[Len(s) + 1] = g
         /\ \A i \in 1 .. Len(s) : Append(s, g)[i] = s[i]
OBVIOUS

\* The value of the last frame is set.
LEMMA AnswerFacts ==
  ASSUME NEW s \in Seq(Frames), s # <<>>, NEW v \in Value
  PROVE  LET r == [s EXCEPT ![Len(s)].value = v]
         IN /\ r \in Seq(Frames) /\ Len(r) = Len(s)
            /\ r[Len(s)] = [s[Len(s)] EXCEPT !.value = v]
            /\ \A i \in 1 .. Len(s) - 1 : r[i] = s[i]
<1> DEFINE e == [s[Len(s)] EXCEPT !.value = v]
<1>1. Len(s) \in 1 .. Len(s) /\ s[Len(s)] \in Frames
  OBVIOUS
<1>2. e \in Frames
  BY <1>1 DEF Frames
<1>3. [s EXCEPT ![Len(s)].value = v] = [s EXCEPT ![Len(s)] = e]
  OBVIOUS
<1> HIDE DEF e
<1>4. /\ [s EXCEPT ![Len(s)] = e] \in Seq(Frames) /\ Len([s EXCEPT ![Len(s)] = e]) = Len(s)
      /\ \A j \in 1 .. Len(s) : [s EXCEPT ![Len(s)] = e][j] = IF j = Len(s) THEN e ELSE s[j]
  BY <1>1, <1>2, ExceptSeq
<1> QED
  BY <1>1, <1>3, <1>4 DEF e

\* The last frame is popped, and the frame below it is given a value.
LEMMA PopFacts ==
  ASSUME NEW s \in Seq(Frames), Len(s) > 1, NEW v \in Value
  PROVE  LET r == [Front(s) EXCEPT ![Len(s) - 1].value = v]
         IN /\ r \in Seq(Frames) /\ Len(r) = Len(s) - 1
            /\ r[Len(r)] = [s[Len(r)] EXCEPT !.value = v]
            /\ \A i \in 1 .. Len(r) - 1 : r[i] = s[i]
<1> DEFINE n == Len(s) - 1
<1>1. Len(s) \in Nat /\ n \in Nat \ {0} /\ \A i \in 1 .. n : s[i] \in Frames
  <2>1. Len(s) \in Nat /\ \A i \in 1 .. Len(s) : s[i] \in Frames
    OBVIOUS
  <2> QED
    BY <2>1
<1> HIDE DEF n
<1>2. /\ n \in Int /\ 1 \in Int /\ n - 1 + 1 = n /\ (IF 1 <= n THEN n - 1 + 1 ELSE 0) = n
      /\ \A i \in 1 .. n : 1 + i - 1 = i
  BY <1>1
<1>3. /\ SubSeq(s, 1, n) \in Seq(Frames)
      /\ Len(SubSeq(s, 1, n)) = IF 1 <= n THEN n - 1 + 1 ELSE 0
      /\ \A i \in 1 .. n - 1 + 1 : SubSeq(s, 1, n)[i] = s[1 + i - 1]
  BY <1>1, <1>2, SubSeqProperties
<1>4. PICK q \in Seq(Frames) : q = SubSeq(s, 1, n)
  BY <1>3
<1>5. Len(q) = n /\ q # <<>> /\ \A i \in 1 .. n : q[i] = s[i]
  BY <1>1, <1>2, <1>3, <1>4
<1>6. Front(s) = q
  BY <1>4 DEF Front, n
<1>7. LET r == [q EXCEPT ![Len(q)].value = v]
      IN /\ r \in Seq(Frames) /\ Len(r) = Len(q)
         /\ r[Len(q)] = [q[Len(q)] EXCEPT !.value = v]
         /\ \A i \in 1 .. Len(q) - 1 : r[i] = q[i]
  BY <1>5, AnswerFacts
<1>8. [Front(s) EXCEPT ![Len(s) - 1].value = v] = [q EXCEPT ![Len(q)].value = v]
  BY <1>5, <1>6 DEF n
<1>9. n \in 1 .. n /\ \A i \in 1 .. n - 1 : i \in 1 .. n
  BY <1>1
<1>10. PICK r : r = [q EXCEPT ![Len(q)].value = v]
  OBVIOUS
<1>11. /\ r \in Seq(Frames) /\ Len(r) = n /\ r[n] = [s[n] EXCEPT !.value = v]
       /\ \A i \in 1 .. n - 1 : r[i] = s[i]
  BY <1>5, <1>7, <1>9, <1>10
<1> QED
  BY <1>8, <1>10, <1>11 DEF n

-----------------------------------------------------------------------------
(* The steps.                                                                *)

LEMMA VersionFacts ==
  ASSUME NEW v \in FunctionVersions
  PROVE  /\ v # Undefined <=> v.returns # NoType
         /\ v # Undefined => v.returns \in Types /\ v.body \in AnnotatedSimples
BY DEF FunctionVersions, Undefined, Types, Scalars, Floats, NoType

LEMMA FunctionFacts ==
  ASSUME SessionInv, NEW f \in Funs
  PROVE  /\ functions[f] # Undefined <=> functions[f].returns # NoType
         /\ functions[f] # Undefined => /\ functions[f].returns \in Types
                                       /\ functions[f].body \in AnnotatedSimples
<1>1. functions[f] \in FunctionVersions
  BY DEF SessionInv, SessionTypeOK
<1> QED
  BY <1>1, VersionFacts

\* The innermost statement.
LEMMA InnermostFacts ==
  ASSUME SessionInv, stack # <<>>
  PROVE  /\ Len(stack) \in Nat \ {0} /\ Innermost = stack[Len(stack)] /\ Innermost \in Frames
         /\ FrameOK(Innermost) /\ Expr \in AnnotatedExpressions
         /\ Innermost.top => Len(stack) = 1
         /\ Len(stack) > 1 => (Innermost.stmt.does = "return" <=> Innermost.returns # "void")
<1>1. /\ stack \in Seq(Frames) /\ Len(stack) \in Nat \ {0} /\ Innermost = stack[Len(stack)]
      /\ Len(stack) \in 1 .. Len(stack) /\ Innermost \in Frames
  BY DEF SessionInv, SessionTypeOK, Innermost, Last
<1>2. FrameOK(Innermost) /\ (Innermost.top => Len(stack) = 1)
  <2>1. FrameOK(stack[Len(stack)]) /\ (Len(stack) > 1 => ~stack[Len(stack)].top)
    BY <1>1 DEF SessionInv, StackOK
  <2>2. FrameOK(Innermost)
    BY <1>1, <2>1
  <2>3. ~Innermost.top \/ ~(Len(stack) > 1)
    BY <1>1, <2>1
  <2>4. PICK n \in Nat \ {0} : n = Len(stack)
    BY <1>1
  <2>5. ~(n > 1) => n = 1
    OBVIOUS
  <2> QED
    BY <2>2, <2>3, <2>4, <2>5
<1>3. Innermost.stmt \in AnnotatedSimples /\ Expr \in AnnotatedExpressions
  BY <1>1 DEF Frames, AnnotatedSimples, Expr
<1>4. ASSUME Len(stack) > 1
      PROVE  Innermost.stmt.does = "return" <=> Innermost.returns # "void"
  <2>1. PICK c \in Frames : FrameOK(c) /\ Calling(c, Innermost)
    <3>1. Len(stack) - 1 \in 1 .. Len(stack)
      BY <1>1, <1>4
    <3> QED
      BY <1>1, <1>4, <3>1 DEF SessionInv, StackOK
  <2>2. c.stmt.expr \in AnnotatedExpressions
    BY <2>1 DEF Frames, AnnotatedSimples
  <2>3. c.stmt.expr.name \in Funs /\ functions[c.stmt.expr.name] # Undefined
    BY <2>1, <2>2 DEF FrameOK, Here, Calling, AnnotatedExpressions
  <2> QED
    BY <2>1, <2>3 DEF SessionInv, FunctionsOK, VersionOK, Calling
<1> QED
  BY <1>1, <1>2, <1>3, <1>4

\* A module is over, or dropped: the next one is checked from a new snapshot.
LEMMA SnapshotKeepsInv ==
  ASSUME globals' \in [Vars -> Value], functions' \in [Funs -> FunctionVersions],
         ffi' \in [Funs -> TypeOrNone], GlobalsOK', FunctionsOK',
         module' = <<>>, stack' = <<>>, executing' = FALSE,
         static' = Snapshot(globals', functions', ffi')
  PROVE  SessionInv'
<1>1. \A f \in Funs : functions'[f].returns \in TypeOrNone
  BY DEF FunctionVersions, Undefined, TypeOrNone
<1>2. \A x \in Vars : globals'[x].type \in TypeOrNone
  BY DEF Value
<1>3. static' \in CheckerStates
  BY <1>1, <1>2 DEF Snapshot, CheckerStates
<1>4. SessionTypeOK'
  <2>1. <<>> \in Seq(AnnotatedStatements) /\ <<>> \in Seq(Frames)
    OBVIOUS
  <2> QED
    BY <1>3, <2>1, Zenon DEF SessionTypeOK
<1>5. PICK run : run = [i \in 1 .. 1 |-> static']
  OBVIOUS
<1>6. Checks(run, <<>>, static')
  <2>1. Len(<<>>) = 0 /\ Len(<<>>) + 1 = 1 /\ 1 .. Len(<<>>) = {}
    OBVIOUS
  <2>2. run \in [1 .. 1 -> CheckerStates] /\ \A i \in 1 .. 1 : run[i] = static'
    BY <1>3, <1>5
  <2> QED
    BY <2>1, <2>2 DEF Checks, Remembers
<1>7. Believes(run[1])'
  <2>1. run[1] = static'
    BY <1>5
  <2>2. \A x \in Vars : ~Pending(x)'
    BY DEF Pending
  <2>3. \A x \in Vars : static'.vars[x] = globals'[x].type
    BY DEF Snapshot
  <2>4. \A f \in Funs : static'.funs[f] = functions'[f].returns
    BY DEF Snapshot
  <2>5. \A x \in Vars : globals'[x].type # NoType <=> globals'[x] # NoValue
    BY DEF GlobalsOK, NoValue, Fitting
  <2> QED
    BY <2>1, <2>2, <2>3, <2>4, <2>5 DEF Believes
<1>8. ModuleIsChecked'
  BY <1>6, <1>7 DEF ModuleIsChecked
<1>9. StackOK' /\ DescriptorsOK'
  BY DEF StackOK, DescriptorsOK, Remembers, Snapshot
<1> QED
  BY <1>4, <1>8, <1>9 DEF SessionInv

LEMMA CheckStatementKeepsInv ==
  ASSUME SessionInv, NEW s \in Statements, CheckStatement(s)
  PROVE  SessionInv'
<1> DEFINE a == AnnotatedStatement(static, s)
<1>1. /\ ~executing /\ StatementOK(static, s) /\ module' = Append(module, a)
      /\ static' = After(static, s)
      /\ UNCHANGED <<globals, functions, ffi, executing, stack>>
  BY DEF CheckStatement, runtimeVars
<1>2. static \in CheckerStates /\ module \in Seq(AnnotatedStatements)
  BY DEF SessionInv, SessionTypeOK
<1>3. a \in AnnotatedStatements /\ static' \in CheckerStates /\ Step(static, a, static')
  BY <1>1, <1>2, StepFacts
<1> HIDE DEF a
<1>4. SessionTypeOK'
  BY <1>1, <1>2, <1>3 DEF SessionInv, SessionTypeOK
<1>5. PICK run : Checks(run, module, static) /\ Believes(run[1])
  BY DEF SessionInv, ModuleIsChecked
<1>6. PICK r : Checks(r, Append(module, a), static') /\ r[1] = run[1]
  BY <1>2, <1>3, <1>5, AppendRun
<1>7. Believes(r[1])'
  BY <1>1, <1>5, <1>6 DEF Believes, Pending
<1>8. ModuleIsChecked'
  BY <1>1, <1>6, <1>7 DEF ModuleIsChecked
<1>9. DescriptorsOK'
  BY <1>1, <1>3 DEF SessionInv, DescriptorsOK, Step, Remembers
<1>10. GlobalsOK' /\ FunctionsOK' /\ StackOK' /\ stack' = <<>>
  BY <1>1 DEF SessionInv, GlobalsOK, FunctionsOK, VersionOK, Here, StackOK
<1> QED
  BY <1>1, <1>4, <1>8, <1>9, <1>10 DEF SessionInv

LEMMA RejectModuleKeepsInv ==
  ASSUME SessionInv, NEW s \in Statements, RejectModule(s)
  PROVE  SessionInv'
<1>1. /\ ~executing /\ module' = <<>> /\ static' = Snapshot(globals', functions', ffi')
      /\ UNCHANGED <<globals, functions, ffi, executing, stack>>
  BY DEF RejectModule, runtimeVars
<1>2. GlobalsOK' /\ FunctionsOK' /\ stack' = <<>> /\ executing' = FALSE
  BY <1>1 DEF SessionInv, SessionTypeOK, GlobalsOK, FunctionsOK, VersionOK, Here
<1> QED
  BY <1>1, <1>2, SnapshotKeepsInv DEF SessionInv, SessionTypeOK

\* The descriptors of the module are installed.
LEMMA AcceptModuleKeepsInv ==
  ASSUME SessionInv, AcceptModule
  PROVE  SessionInv'
<1>1. /\ ffi' = static.ffi /\ executing' = TRUE /\ ~executing
      /\ UNCHANGED <<globals, functions, static, module, stack>>
  BY DEF AcceptModule
<1>2. SessionTypeOK' /\ DescriptorsOK'
  BY <1>1 DEF SessionInv, SessionTypeOK, DescriptorsOK, CheckerStates, Remembers
<1>3. FunctionsOK'
  <2> SUFFICES ASSUME NEW f \in Funs, functions[f] # Undefined
               PROVE  Declared(functions[f].body.expr, ffi')
    BY <1>1 DEF SessionInv, FunctionsOK, VersionOK, Here
  <2>1. functions[f].body.expr \in AnnotatedExpressions
    BY FunctionFacts DEF AnnotatedSimples
  <2>2. Declared(functions[f].body.expr, ffi) /\ Remembers(ffi, ffi')
    BY <1>1 DEF SessionInv, FunctionsOK, VersionOK, DescriptorsOK
  <2> QED
    BY <2>1, <2>2 DEF Declared, IsNative, Remembers, AnnotatedExpressions
<1>4. ModuleIsChecked'
  <2>1. PICK run : Checks(run, module, static) /\ Believes(run[1])
    BY DEF SessionInv, ModuleIsChecked
  <2>2. Believes(run[1])'
    BY <1>1, <2>1 DEF Believes, Pending
  <2> QED
    BY <1>1, <2>1, <2>2 DEF ModuleIsChecked
<1>5. GlobalsOK' /\ StackOK'
  BY <1>1 DEF SessionInv, GlobalsOK, StackOK
<1> QED
  BY <1>1, <1>2, <1>3, <1>4, <1>5 DEF SessionInv

\* A simple statement starts: its assignment is pending.
LEMMA StartStatementKeepsInv ==
  ASSUME SessionInv, StartStatement
  PROVE  SessionInv'
<1> DEFINE a == Head(module)
<1>1. /\ executing /\ stack = <<>> /\ module # <<>> /\ a.kind = "simple"
      /\ stack' = <<Frame(a.then, TRUE, NoType)>> /\ module' = Tail(module)
      /\ UNCHANGED <<globals, functions, ffi, static, executing>>
  BY DEF StartStatement, CanStart, runtimeVars
<1>2. PICK run : Checks(run, module, static) /\ Believes(run[1])
  BY DEF SessionInv, ModuleIsChecked
<1>3. /\ \E r : Checks(r, Tail(module), static) /\ r[1] = run[2]
      /\ Step(run[1], a, run[2])
      /\ a \in AnnotatedStatements /\ Tail(module) \in Seq(AnnotatedStatements)
      /\ run[1] \in CheckerStates /\ run[2] \in CheckerStates
  BY <1>1, <1>2, TailRun DEF SessionInv, SessionTypeOK
<1> HIDE DEF a
<1>4. PICK s \in AnnotatedSimples : s = a.then
  BY <1>1, <1>3 DEF AnnotatedStatements
<1>5. s.expr \in AnnotatedExpressions /\ SimpleStep(run[1], s, run[2])
  BY <1>1, <1>3, <1>4 DEF Step, AnnotatedSimples
<1>7. PICK g \in Frames : /\ g.stmt = s /\ g.top /\ g.value = NoValue
                          /\ stack' = <<g>>
  <2>1. s \in AnnotatedSimples /\ TRUE \in BOOLEAN /\ NoType \in TypeOrNone
    BY DEF TypeOrNone
  <2>2. /\ Frame(s, TRUE, NoType) \in Frames
        /\ Frame(s, TRUE, NoType).stmt = s /\ Frame(s, TRUE, NoType).value = NoValue
    BY <2>1 DEF Frame, Frames, NoValue, Fitting, Value, TypeOrNone
  <2>4. Frame(s, TRUE, NoType).top
    BY DEF Frame
  <2>3. stack' = <<Frame(s, TRUE, NoType)>>
    BY <1>1, <1>4
  <2> QED
    BY <2>2, <2>3, <2>4
<1>8. stack' \in Seq(Frames) /\ Len(stack') = 1 /\ stack'[1] = g /\ stack' # <<>>
  BY <1>7
<1>9. \A x \in Vars : ~Pending(x) /\ (Pending(x)' <=> s.does = "assign" /\ s.to = x)
  BY <1>1, <1>7, <1>8 DEF Pending
<1>10. FrameOK(g)'
  <2>1. Here(s.expr)
    BY <1>2, <1>5, <1>9, FunctionFacts DEF SimpleStep, NamesKnown, Here, Believes, AnnotatedExpressions
  <2> QED
    BY <1>1, <1>7, <2>1 DEF FrameOK, Here, ValueOK
<1>11. StackOK'
  BY <1>8, <1>10 DEF StackOK
<1>12. Believes(run[2])'
  <2>1. /\ run[2].funs = run[1].funs
        /\ \A x \in Vars : run[2].vars[x] = IF s.does = "assign" /\ s.to = x THEN s.expr.type
                                                                          ELSE run[1].vars[x]
    BY <1>3, <1>5 DEF SimpleStep, CheckerStates
  <2>2. \A f \in Funs : run[2].funs[f] = functions'[f].returns
    BY <1>1, <1>2, <2>1 DEF Believes
  <2>3. s.expr.type # NoType
    BY <1>5 DEF AnnotatedExpressions, Types, Scalars, Floats, NoType
  <2>4. \A x \in Vars : run[2].vars[x] # NoType <=> globals'[x] # NoValue \/ Pending(x)'
    BY <1>1, <1>2, <1>9, <2>1, <2>3 DEF Believes
  <2> QED
    BY <2>2, <2>4 DEF Believes
<1>13. ModuleIsChecked'
  BY <1>1, <1>3, <1>12 DEF ModuleIsChecked
<1>14. SessionTypeOK' /\ GlobalsOK' /\ FunctionsOK' /\ DescriptorsOK'
  BY <1>1, <1>3, <1>8 DEF SessionInv, SessionTypeOK, GlobalsOK, FunctionsOK, VersionOK, Here, DescriptorsOK
<1> QED
  BY <1>1, <1>11, <1>13, <1>14 DEF SessionInv

\* A branch is chosen: what is left of the module was checked after both.
LEMMA TakeBranchKeepsInv ==
  ASSUME SessionInv, TakeBranch
  PROVE  SessionInv'
<1> DEFINE a == Head(module)
<1>1. /\ executing /\ stack = <<>> /\ module # <<>> /\ a.kind = "if"
      /\ module' = Tail(module)
      /\ UNCHANGED <<globals, functions, ffi, static, executing>>
  BY DEF TakeBranch, CanStart, runtimeVars
<1>2. PICK run : Checks(run, module, static) /\ Believes(run[1])
  BY DEF SessionInv, ModuleIsChecked
<1>3. /\ \E r : Checks(r, Tail(module), static) /\ r[1] = run[2]
      /\ Step(run[1], a, run[2])
      /\ a \in AnnotatedStatements /\ Tail(module) \in Seq(AnnotatedStatements)
      /\ run[1] \in CheckerStates /\ run[2] \in CheckerStates
  BY <1>1, <1>2, TailRun DEF SessionInv, SessionTypeOK
<1>4. PICK s \in {a.then, a.else} : stack' = <<Frame(s, FALSE, NoType)>>
  BY DEF TakeBranch
<1> HIDE DEF a
<1>5. s \in AnnotatedSimples /\ BranchStep(run[1], a, run[2])
  BY <1>1, <1>3, <1>4 DEF Step, AnnotatedStatements
<1>6. s.expr \in AnnotatedExpressions /\ NamesKnown(s.expr, run[1])
  BY <1>4, <1>5 DEF AnnotatedSimples, BranchStep
<1>8. PICK g \in Frames : /\ g.stmt = s /\ ~g.top /\ g.value = NoValue
                          /\ stack' = <<g>>
  <2>1. s \in AnnotatedSimples /\ FALSE \in BOOLEAN /\ NoType \in TypeOrNone
    BY <1>5 DEF TypeOrNone
  <2>2. /\ Frame(s, FALSE, NoType) \in Frames
        /\ Frame(s, FALSE, NoType).stmt = s /\ ~Frame(s, FALSE, NoType).top
        /\ Frame(s, FALSE, NoType).value = NoValue
    BY <2>1 DEF Frame, Frames, NoValue, Fitting, Value, TypeOrNone
  <2>3. stack' = <<Frame(s, FALSE, NoType)>>
    BY <1>4
  <2> QED
    BY <2>2, <2>3
<1>9. stack' \in Seq(Frames) /\ Len(stack') = 1 /\ stack'[1] = g
  BY <1>8
<1>10. \A x \in Vars : ~Pending(x) /\ ~Pending(x)'
  BY <1>1, <1>8, <1>9 DEF Pending
<1>11. FrameOK(g)'
  <2>1. Here(s.expr)
    BY <1>2, <1>6, <1>10, FunctionFacts DEF NamesKnown, Here, Believes, AnnotatedExpressions
  <2> QED
    BY <1>1, <1>8, <2>1 DEF FrameOK, Here, ValueOK
<1>12. StackOK'
  BY <1>9, <1>11 DEF StackOK
<1>13. Believes(run[2])'
  BY <1>1, <1>2, <1>5, <1>10 DEF Believes, BranchStep
<1>14. ModuleIsChecked'
  BY <1>1, <1>3, <1>13 DEF ModuleIsChecked
<1>15. SessionTypeOK' /\ GlobalsOK' /\ FunctionsOK' /\ DescriptorsOK'
  BY <1>1, <1>3, <1>9 DEF SessionInv, SessionTypeOK, GlobalsOK, FunctionsOK, VersionOK, Here, DescriptorsOK
<1> QED
  BY <1>1, <1>12, <1>14, <1>15 DEF SessionInv

\* A function is installed: the checker has seen it since this statement.
LEMMA InstallFunctionKeepsInv ==
  ASSUME SessionInv, InstallFunction
  PROVE  SessionInv'
<1>1. PICK a, v : a = Head(module) /\ v = [returns |-> a.returns, body |-> a.then]
  OBVIOUS
<1>2. /\ executing /\ stack = <<>> /\ module # <<>> /\ a.kind = "define"
      /\ functions' = [functions EXCEPT ![a.name] = v]
      /\ module' = Tail(module)
      /\ UNCHANGED <<globals, ffi, static, executing, stack>>
  BY <1>1 DEF InstallFunction, CanStart
<1>3. PICK run : Checks(run, module, static) /\ Believes(run[1])
  BY DEF SessionInv, ModuleIsChecked
<1>4. /\ \E r : Checks(r, Tail(module), static) /\ r[1] = run[2]
      /\ Step(run[1], a, run[2])
      /\ a \in AnnotatedStatements /\ Tail(module) \in Seq(AnnotatedStatements)
      /\ run[1] \in CheckerStates /\ run[2] \in CheckerStates
      /\ Remembers(run[2].ffi, static.ffi)
  BY <1>2, <1>3, <1>1, TailRun DEF SessionInv, SessionTypeOK
<1>5. /\ a.name \in Funs /\ a.returns \in Types /\ a.then \in AnnotatedSimples
      /\ a.then.expr \in AnnotatedExpressions /\ DefineStep(run[1], a, run[2])
  BY <1>2, <1>4 DEF AnnotatedStatements, AnnotatedSimples, Step
<1>6. v.returns = a.returns /\ v.body = a.then /\ v \in FunctionVersions
  BY <1>5, <1>1 DEF FunctionVersions
<1>8. functions \in [Funs -> FunctionVersions]
  BY DEF SessionInv, SessionTypeOK
<1>9. /\ functions' \in [Funs -> FunctionVersions] /\ functions'[a.name] = v
      /\ \A f \in Funs : f # a.name => functions'[f] = functions[f]
  BY <1>2, <1>5, <1>6, <1>8
<1>10. v # Undefined
  BY <1>5, <1>6 DEF Undefined, Types, Scalars, Floats, NoType
<1>11. \A x \in Vars : ~Pending(x) /\ ~Pending(x)'
  BY <1>2 DEF Pending
<1>12. Believes(run[2])'
  BY <1>2, <1>3, <1>4, <1>5, <1>6, <1>9, <1>11 DEF Believes, DefineStep, CheckerStates
<1>13. ModuleIsChecked'
  BY <1>2, <1>4, <1>12 DEF ModuleIsChecked
<1>14. FunctionsOK'
  <2>1. VersionOK(v)'
    <3>1. v.body \in AnnotatedSimples /\ v.body.expr \in AnnotatedExpressions
      BY <1>5, <1>6
    <3>2. Here(v.body.expr)'
      <4>1. NamesKnown(v.body.expr, run[2])
        BY <1>5, <1>6 DEF DefineStep
      <4>2. \A h \in Funs : run[2].funs[h] # NoType => functions'[h] # Undefined
        BY <1>9, <1>12, VersionFacts DEF Believes
      <4>3. \A x \in Vars : run[2].vars[x] # NoType => globals'[x] # NoValue
        BY <1>11, <1>12 DEF Believes
      <4> QED
        BY <3>1, <4>1, <4>2, <4>3 DEF NamesKnown, Here, AnnotatedExpressions
    <3>3. Declared(v.body.expr, ffi')
      <4>1. Declared(v.body.expr, run[2].ffi)
        BY <1>5, <1>6 DEF DefineStep
      <4>2. ffi' = static.ffi
        BY <1>2 DEF SessionInv, DescriptorsOK
      <4> QED
        BY <1>4, <3>1, <4>1, <4>2 DEF Declared, IsNative, Remembers, AnnotatedExpressions
    <3>4. v.body.does = "return" <=> v.returns # "void"
      BY <1>5, <1>6 DEF DefineStep
    <3> QED
      BY <3>2, <3>3, <3>4 DEF VersionOK
  <2>2. ASSUME NEW f \in Funs, f # a.name, functions'[f] # Undefined
        PROVE  VersionOK(functions[f])'
    <3>1. PICK w : w = functions[f]
      OBVIOUS
    <3>2. functions'[f] = w /\ VersionOK(w) /\ w.body \in AnnotatedSimples
      BY <1>9, <2>2, <3>1, FunctionFacts DEF SessionInv, FunctionsOK
    <3>3. w.body.expr \in AnnotatedExpressions /\ Here(w.body.expr)
      BY <3>2 DEF AnnotatedSimples, VersionOK
    <3>4. Here(w.body.expr)'
      BY <1>2, <1>9, <1>10, <3>3 DEF Here, AnnotatedExpressions
    <3>5. VersionOK(w)'
      BY <1>2, <3>2, <3>4 DEF VersionOK
    <3> QED
      BY <3>2, <3>5
  <2> QED
    BY <1>9, <2>1, <2>2 DEF FunctionsOK
<1>15. SessionTypeOK' /\ GlobalsOK' /\ DescriptorsOK' /\ StackOK'
  BY <1>2, <1>4, <1>9 DEF SessionInv, SessionTypeOK, GlobalsOK, DescriptorsOK, StackOK
<1> QED
  BY <1>2, <1>13, <1>14, <1>15 DEF SessionInv

\* A step that leaves variables and functions alone changes nothing for a frame, ...
LEMMA FramePersists ==
  ASSUME UNCHANGED <<globals, functions>>, NEW g, NEW c
  PROVE  (FrameOK(g) => FrameOK(g)') /\ (Calling(c, g) => Calling(c, g)')
BY DEF FrameOK, Here, ValueOK, Calling

\* ... nor for the checker, if the statement of the module is still the same.
LEMMA BeliefPersists ==
  ASSUME UNCHANGED <<globals, functions>>, stack # <<>>, stack' # <<>>,
         stack'[1].stmt = stack[1].stmt, stack'[1].top = stack[1].top, NEW st, Believes(st)
  PROVE  Believes(st)'
<1>1. \A x \in Vars : Pending(x)' <=> Pending(x)
  BY DEF Pending
<1>2. \A x \in Vars : st.vars[x] # NoType <=> globals'[x] # NoValue \/ Pending(x)'
  BY <1>1 DEF Believes
<1>3. \A f \in Funs : st.funs[f] = functions'[f].returns
  BY DEF Believes
<1> QED
  BY <1>2, <1>3 DEF Believes

\* The stack, frame by frame.
LEMMA StackByFrame ==
  ASSUME \A i \in 1 .. Len(stack') : \E h, b :
           /\ h = stack'[i] /\ FrameOK(h)'
           /\ i > 1 => b = stack'[i - 1] /\ ~h.top /\ Calling(b, h)'
  PROVE  StackOK'
<1> SUFFICES ASSUME NEW i \in 1 .. Len(stack')
             PROVE  FrameOK(stack[i])' /\ (i > 1 => ~stack'[i].top /\ Calling(stack[i - 1], stack[i])')
  BY DEF StackOK
<1>1. PICK h, b : /\ h = stack'[i] /\ FrameOK(h)'
                  /\ i > 1 => b = stack'[i - 1] /\ ~h.top /\ Calling(b, h)'
  OBVIOUS
<1>2. FrameOK(stack[i])'
  BY <1>1 DEF FrameOK, Here, ValueOK
<1>3. i > 1 => ~stack'[i].top /\ Calling(stack[i - 1], stack[i])'
  BY <1>1 DEF Calling
<1> QED
  BY <1>2, <1>3

\* A script function is called: its frame is pushed.
LEMMA CallScriptKeepsInv ==
  ASSUME SessionInv, CallScript
  PROVE  SessionInv'
<1>1. /\ stack # <<>> /\ Expr.script /\ functions[Expr.name] # Undefined
      /\ Innermost.value = NoValue
      /\ stack' = Append(stack, Frame(functions[Expr.name].body, FALSE, functions[Expr.name].returns))
      /\ UNCHANGED <<globals, functions, ffi, static, module, executing>>
  BY DEF CallScript, Calls, runtimeVars
<1>2. PICK n \in Nat \ {0}, c \in Frames : n = Len(stack) /\ c = stack[n] /\ c = Innermost
  BY <1>1, InnermostFacts
<1>3. c.stmt.expr = Expr /\ Expr \in AnnotatedExpressions /\ Expr.name \in Funs
  BY <1>1, <1>2, InnermostFacts DEF Expr, AnnotatedExpressions
<1>4. PICK v \in FunctionVersions : v = functions[Expr.name]
  BY <1>3 DEF SessionInv, SessionTypeOK
<1>5. v # Undefined /\ v.returns \in Types /\ v.body \in AnnotatedSimples
  BY <1>1, <1>4, VersionFacts
<1>6. PICK g \in Frames : /\ g.stmt = v.body /\ ~g.top /\ g.returns = v.returns
                          /\ g.value = NoValue /\ stack' = Append(stack, g)
  <2>1. PICK b \in AnnotatedSimples, t \in TypeOrNone : b = v.body /\ t = v.returns
    BY <1>5 DEF TypeOrNone
  <2>2. /\ Frame(b, FALSE, t) \in Frames
        /\ Frame(b, FALSE, t).stmt = b /\ ~Frame(b, FALSE, t).top
        /\ Frame(b, FALSE, t).returns = t
        /\ Frame(b, FALSE, t).value = NoValue
    BY DEF Frame, Frames, NoValue, Fitting, Value, TypeOrNone
  <2>3. stack' = Append(stack, Frame(b, FALSE, t))
    BY <1>1, <1>4, <2>1
  <2> QED
    BY <2>1, <2>2, <2>3
<1>7. stack \in Seq(Frames)
  BY DEF SessionInv, SessionTypeOK
<1>8. /\ stack' \in Seq(Frames) /\ Len(stack') = n + 1 /\ stack'[n + 1] = g
      /\ \A i \in 1 .. n : stack'[i] = stack[i]
  BY <1>2, <1>6, <1>7, PushFacts
<1>9. FrameOK(g)'
  <2>1. VersionOK(v)
    BY <1>1, <1>3, <1>4 DEF SessionInv, FunctionsOK
  <2>2. FrameOK(g)
    BY <1>6, <2>1 DEF VersionOK, FrameOK, ValueOK
  <2> QED
    BY <1>1, <2>2, FramePersists
<1>10. Calling(c, g)'
  BY <1>1, <1>2, <1>3, <1>4, <1>6 DEF Calling
<1>11. ASSUME NEW i \in 1 .. n + 1
       PROVE  \E h, b : /\ h = stack'[i] /\ FrameOK(h)'
                        /\ i > 1 => b = stack'[i - 1] /\ ~h.top /\ Calling(b, h)'
  <2>1. CASE i \in 1 .. n
    <3>1. PICK h, b : h = stack[i] /\ b = stack[i - 1]
      OBVIOUS
    <3>2. FrameOK(h) /\ (i > 1 => ~h.top /\ Calling(b, h))
      BY <1>2, <2>1, <3>1 DEF SessionInv, StackOK
    <3>3. i > 1 => i - 1 \in 1 .. n
      BY <2>1
    <3>4. h = stack'[i] /\ (i > 1 => b = stack'[i - 1])
      BY <1>8, <2>1, <3>1, <3>3
    <3>5. FrameOK(h)' /\ (i > 1 => Calling(b, h)')
      BY <1>1, <3>2, FramePersists
    <3> QED
      BY <3>2, <3>4, <3>5
  <2>2. CASE i = n + 1
    <3>1. i - 1 = n /\ n \in 1 .. n
      BY <2>2
    <3>2. stack'[i] = g /\ stack'[i - 1] = c
      BY <1>2, <1>8, <2>2, <3>1
    <3> QED
      BY <1>6, <1>9, <1>10, <3>2
  <2> QED
    BY <2>1, <2>2
<1>12. StackOK'
  BY <1>8, <1>11, StackByFrame
<1>13. ModuleIsChecked'
  <2>1. PICK run : Checks(run, module, static) /\ Believes(run[1])
    BY DEF SessionInv, ModuleIsChecked
  <2>2. stack'[1] = stack[1]
    <3>1. 1 \in 1 .. n
      BY <1>2
    <3> QED
      BY <1>8, <3>1
  <2>3. stack' # <<>>
    BY <1>8
  <2>4. Believes(run[1])'
    BY <1>1, <2>1, <2>2, <2>3, BeliefPersists
  <2> QED
    BY <1>1, <2>1, <2>4 DEF ModuleIsChecked
<1>14. executing
  BY <1>1 DEF SessionInv
<1> QED
  BY <1>1, <1>8, <1>12, <1>13, <1>14 DEF SessionInv, SessionTypeOK, GlobalsOK, FunctionsOK, VersionOK,
    DescriptorsOK, Here

\* A native function returns.
LEMMA CallNativeKeepsInv ==
  ASSUME SessionInv, CallNative
  PROVE  SessionInv'
<1>1. /\ stack # <<>> /\ ~Expr.script
      /\ stack' = [stack EXCEPT ![Len(stack)].value = Fitting(Expr.operand)]
      /\ UNCHANGED <<globals, functions, ffi, static, module, executing>>
  BY DEF CallNative, runtimeVars
<1>2. PICK n \in Nat \ {0}, c \in Frames : n = Len(stack) /\ c = stack[n] /\ c = Innermost
  BY <1>1, InnermostFacts
<1>3. c.stmt.expr = Expr /\ Expr \in AnnotatedExpressions /\ FrameOK(c)
  BY <1>1, <1>2, InnermostFacts DEF Expr
<1>4. PICK v \in Value : v = Fitting(Expr.operand)
  BY <1>3 DEF AnnotatedExpressions, Fitting, Value, TypeOrNone
<1>5. v.type = Expr.operand
  BY <1>4 DEF Fitting
<1>6. stack \in Seq(Frames)
  BY DEF SessionInv, SessionTypeOK
<1>7. PICK g : g = [c EXCEPT !.value = v]
  OBVIOUS
<1>8. /\ stack' \in Seq(Frames) /\ Len(stack') = n /\ stack'[n] = g
      /\ \A i \in 1 .. n - 1 : stack'[i] = stack[i]
  <2>1. stack' = [stack EXCEPT ![n].value = v]
    BY <1>1, <1>2, <1>4
  <2>2. LET r == [stack EXCEPT ![Len(stack)].value = v]
        IN /\ r \in Seq(Frames) /\ Len(r) = Len(stack)
           /\ r[Len(stack)] = [stack[Len(stack)] EXCEPT !.value = v]
           /\ \A i \in 1 .. Len(stack) - 1 : r[i] = stack[i]
    BY <1>1, <1>6, AnswerFacts
  <2>3. PICK r : r = [stack EXCEPT ![n].value = v]
    OBVIOUS
  <2>4. /\ r \in Seq(Frames) /\ Len(r) = n /\ r[n] = [c EXCEPT !.value = v]
        /\ \A i \in 1 .. n - 1 : r[i] = stack[i]
    BY <1>2, <2>2, <2>3
  <2> QED
    BY <1>7, <2>1, <2>3, <2>4
<1>9. g.stmt = c.stmt /\ g.top = c.top /\ g.returns = c.returns /\ g.value = v
  BY <1>7 DEF Frames
<1>10. FrameOK(g)
  BY <1>1, <1>3, <1>5, <1>9 DEF FrameOK, ValueOK
<1>11. ASSUME NEW i \in 1 .. n
       PROVE  \E h, b : /\ h = stack'[i] /\ FrameOK(h)'
                        /\ i > 1 => b = stack'[i - 1] /\ ~h.top /\ Calling(b, h)'
  <2>1. PICK h, b, k : h = stack'[i] /\ b = stack[i - 1] /\ k = stack[i]
    OBVIOUS
  <2>2. FrameOK(k) /\ (i > 1 => ~k.top /\ Calling(b, k))
    BY <1>2, <2>1 DEF SessionInv, StackOK
  <2>3. i > 1 => i - 1 \in 1 .. n - 1
    OBVIOUS
  <2>4. i > 1 => stack'[i - 1] = b
    BY <1>8, <2>1, <2>3
  <2>5. FrameOK(h) /\ (i > 1 => ~h.top /\ Calling(b, h))
    <3>1. CASE i = n
      BY <1>2, <1>8, <1>9, <1>10, <2>1, <2>2, <3>1 DEF Calling
    <3>2. CASE i \in 1 .. n - 1
      BY <1>8, <2>1, <2>2, <3>2
    <3> QED
      BY <3>1, <3>2
  <2>6. FrameOK(h)' /\ (i > 1 => Calling(b, h)')
    BY <1>1, <2>5, FramePersists
  <2> QED
    BY <2>1, <2>4, <2>5, <2>6
<1>12. StackOK'
  BY <1>8, <1>11, StackByFrame
<1>13. ModuleIsChecked'
  <2>1. PICK run : Checks(run, module, static) /\ Believes(run[1])
    BY DEF SessionInv, ModuleIsChecked
  <2>2. stack'[1].stmt = stack[1].stmt /\ stack'[1].top = stack[1].top
    <3>1. CASE n = 1
      BY <1>2, <1>8, <1>9, <3>1
    <3>2. CASE n # 1
      <4>1. 1 \in 1 .. n - 1
        BY <1>2, <3>2
      <4> QED
        BY <1>8, <4>1
    <3> QED
      BY <3>1, <3>2
  <2>3. stack' # <<>>
    BY <1>8
  <2>4. Believes(run[1])'
    BY <1>1, <2>1, <2>2, <2>3, BeliefPersists
  <2> QED
    BY <1>1, <2>1, <2>4 DEF ModuleIsChecked
<1>14. executing
  BY <1>1 DEF SessionInv
<1> QED
  BY <1>1, <1>8, <1>12, <1>13, <1>14 DEF SessionInv, SessionTypeOK, GlobalsOK, FunctionsOK, VersionOK,
    DescriptorsOK, Here

\* The value of the innermost expression has a type.
LEMMA ResultFacts ==
  ASSUME SessionInv, Ready
  PROVE  Result \in Value /\ Result.type \in Types
<1> DEFINE e == Expr
           o == Operand
<1>1. /\ stack # <<>> /\ FrameOK(Innermost) /\ e \in AnnotatedExpressions /\ Innermost \in Frames
      /\ e = Innermost.stmt.expr /\ (e.of \in {"call", "typed"} => Innermost.value # NoValue)
  BY InnermostFacts DEF Ready, Calls, Expr
<1>2. o \in Value /\ o.type \in Types
  <2>1. CASE e.of = "literal"
    <3>1. o = Fitting(e.operand) /\ e.operand \in Types
      BY <1>1, <2>1 DEF Operand, AnnotatedExpressions
    <3> QED
      BY <3>1 DEF Fitting, Value, TypeOrNone
  <2>2. CASE e.of = "variable"
    <3>1. e.name \in Vars /\ o = globals[e.name] /\ o # NoValue
      BY <1>1, <2>2 DEF Operand, AnnotatedExpressions, FrameOK, Here
    <3>2. o \in Value /\ o.type # NoType
      BY <3>1 DEF SessionInv, SessionTypeOK, GlobalsOK
    <3> QED
      BY <3>2 DEF Value, TypeOrNone
  <2>3. CASE e.of \in {"call", "typed"}
    <3>1. o = Innermost.value /\ o # NoValue /\ o \in Value /\ e.name \in Funs /\ e.operand \in Types
      BY <1>1, <2>3 DEF Operand, AnnotatedExpressions, Frames
    <3>2. o.type = IF e.script THEN functions[e.name].returns ELSE e.operand
      BY <1>1, <3>1 DEF FrameOK, ValueOK
    <3>3. e.script => functions[e.name].returns \in Types
      BY <1>1, <3>1, FunctionFacts DEF FrameOK, Here
    <3> QED
      BY <3>1, <3>2, <3>3
  <2> QED
    BY <1>1, <2>1, <2>2, <2>3 DEF AnnotatedExpressions
<1>3. e.type \in Types
  BY <1>1 DEF AnnotatedExpressions
<1> HIDE DEF o
<1>4. CASE ~e.plus
  BY <1>2, <1>4 DEF Result, o
<1>5. CASE e.plus
  <2>1. PICK b \in BOOLEAN : b = (o.fits /\ (o.type \in Floats <=> e.type \in Floats))
    OBVIOUS
  <2>2. Result = [type |-> e.type, fits |-> b]
    BY <1>5, <2>1 DEF Result, o
  <2> QED
    BY <1>3, <2>2 DEF Value, TypeOrNone
<1> QED
  BY <1>4, <1>5

\* A variable is defined: it is the one whose assignment was pending.
LEMMA DefineFacts ==
  ASSUME SessionInv, Ready, Innermost.stmt.does = "assign",
         DefineVariable(Innermost.stmt.to, Result)
  PROVE  /\ globals' \in [Vars -> Value] /\ GlobalsOK'
         /\ \A x \in Vars : globals[x] # NoValue => globals'[x] # NoValue
         /\ \A x \in Vars : globals'[x] # NoValue => globals[x] # NoValue \/ Pending(x)
         /\ \A x \in Vars : Len(stack) = 1 /\ Pending(x) => globals'[x] # NoValue
<1>1. PICK n \in Nat \ {0}, c \in Frames :
        /\ n = Len(stack) /\ c = stack[n] /\ c = Innermost /\ c.stmt.expr = Expr
        /\ c.top => n = 1
  BY InnermostFacts DEF Ready, Expr
<1>2. PICK y, v : y = c.stmt.to /\ v = Result
  OBVIOUS
<1>3. y \in Vars /\ v \in Value /\ v.type \in Types /\ v.type # NoType /\ v # NoValue
  <2>1. y \in Vars
    BY <1>1, <1>2 DEF Frames, AnnotatedSimples
  <2>2. v \in Value /\ v.type \in Types
    BY <1>2, ResultFacts
  <2> QED
    BY <2>1, <2>2 DEF NoValue, Fitting, Types, Scalars, Floats, NoType
<1>4. /\ globals \in [Vars -> Value]
      /\ globals' = IF c.top \/ globals[y] # NoValue THEN [globals EXCEPT ![y] = v] ELSE globals
  BY <1>1, <1>2 DEF SessionInv, SessionTypeOK, DefineVariable
<1>5. /\ globals' \in [Vars -> Value]
      /\ \A x \in Vars : globals'[x] = globals[x] \/ (x = y /\ globals'[x] = v)
      /\ c.top => globals'[y] = v
      /\ ~c.top /\ globals[y] = NoValue => globals' = globals
  BY <1>3, <1>4
<1>6. GlobalsOK'
  BY <1>3, <1>5 DEF SessionInv, GlobalsOK
<1>7. \A x \in Vars : n = 1 /\ Pending(x) => c.top /\ x = y
  BY <1>1, <1>2 DEF Pending
<1>8. c.top => Pending(y)
  BY <1>1, <1>2 DEF Pending, Ready
<1>9. \A x \in Vars : globals[x] # NoValue => globals'[x] # NoValue
  BY <1>3, <1>5
<1>10. \A x \in Vars : globals'[x] # NoValue => globals[x] # NoValue \/ Pending(x)
  BY <1>5, <1>8
<1>11. \A x \in Vars : Len(stack) = 1 /\ Pending(x) => globals'[x] # NoValue
  BY <1>1, <1>3, <1>5, <1>7
<1> QED
  BY <1>5, <1>6, <1>9, <1>10, <1>11

\* The innermost statement is done, with the value v.
LEMMA PopKeepsInv ==
  ASSUME SessionInv, stack # <<>>, NEW v \in Value, Pop(v),
         UNCHANGED <<functions, ffi, static, module, executing>>,
         globals' \in [Vars -> Value], GlobalsOK',
         \A x \in Vars : globals[x] # NoValue => globals'[x] # NoValue,
         \A x \in Vars : globals'[x] # NoValue => globals[x] # NoValue \/ Pending(x),
         \A x \in Vars : Len(stack) = 1 /\ Pending(x) => globals'[x] # NoValue,
         Len(stack) > 1 => v.type = Innermost.returns
  PROVE  SessionInv'
<1>1. PICK n \in Nat \ {0} : n = Len(stack) /\ Innermost = stack[n]
  BY InnermostFacts
<1>2. PICK run : Checks(run, module, static) /\ Believes(run[1])
  BY DEF SessionInv, ModuleIsChecked
<1>3. run[1] \in CheckerStates
  <2>1. 1 \in 1 .. Len(module) + 1
    BY DEF SessionInv, SessionTypeOK
  <2> QED
    BY <1>2, <2>1 DEF Checks
<1>4. stack \in Seq(Frames) /\ globals \in [Vars -> Value]
  BY DEF SessionInv, SessionTypeOK
<1>5. stack' \in Seq(Frames) /\ StackOK' /\ Believes(run[1])'
  <2>1. CASE n = 1
    <3>1. stack' = <<>>
      BY <1>1, <2>1 DEF Pop
    <3>2. \A x \in Vars : ~Pending(x)'
      BY <3>1 DEF Pending
    <3>3. \A x \in Vars : run[1].vars[x] # NoType <=> globals'[x] # NoValue
      BY <1>1, <1>2, <2>1 DEF Believes
    <3>4. Believes(run[1])'
      BY <1>2, <3>2, <3>3 DEF Believes
    <3>5. <<>> \in Seq(Frames) /\ Len(<<>>) = 0
      OBVIOUS
    <3> QED
      BY <3>1, <3>4, <3>5 DEF StackOK
  <2>2. CASE n # 1
    <3>1. n > 1 /\ n - 1 \in 1 .. n - 1 /\ n \in 1 .. n /\ n - 1 \in 1 .. n
      BY <2>2
    <3>2. stack' = [Front(stack) EXCEPT ![Len(stack) - 1].value = v]
      BY <1>1, <3>1 DEF Pop
    <3>3. LET r == [Front(stack) EXCEPT ![Len(stack) - 1].value = v]
          IN /\ r \in Seq(Frames) /\ Len(r) = Len(stack) - 1
             /\ r[Len(r)] = [stack[Len(r)] EXCEPT !.value = v]
             /\ \A i \in 1 .. Len(r) - 1 : r[i] = stack[i]
      BY <1>1, <1>4, <3>1, PopFacts
    <3>4. PICK c, g : c = stack[n - 1] /\ g = [c EXCEPT !.value = v]
      OBVIOUS
    <3>5. /\ stack' \in Seq(Frames) /\ Len(stack') = n - 1 /\ stack'[n - 1] = g
          /\ \A i \in 1 .. n - 2 : stack'[i] = stack[i]
      <4>1. PICK r : r = stack'
        OBVIOUS
      <4>2. /\ r \in Seq(Frames) /\ Len(r) = n - 1 /\ r[n - 1] = g
            /\ \A i \in 1 .. n - 1 - 1 : r[i] = stack[i]
        BY <1>1, <3>2, <3>3, <3>4, <4>1
      <4>3. n - 1 - 1 = n - 2
        OBVIOUS
      <4> QED
        BY <4>1, <4>2, <4>3
    <3>6. c \in Frames
      BY <1>1, <1>4, <3>1, <3>4
    <3>7. g.stmt = c.stmt /\ g.top = c.top /\ g.returns = c.returns /\ g.value = v
      BY <3>4, <3>6 DEF Frames
    <3>8. FrameOK(c) /\ Calling(c, Innermost)
      BY <1>1, <3>1, <3>4 DEF SessionInv, StackOK
    <3>9. FrameOK(g)
      BY <1>1, <3>1, <3>7, <3>8 DEF FrameOK, ValueOK, Calling
    <3>10. ASSUME NEW k \in Frames, FrameOK(k) PROVE FrameOK(k)'
      <4>1. k.stmt.expr \in AnnotatedExpressions
        BY DEF Frames, AnnotatedSimples
      <4>2. Here(k.stmt.expr)'
        BY <3>10, <4>1 DEF FrameOK, Here, AnnotatedExpressions
      <4>3. ValueOK(k)'
        BY <3>10 DEF FrameOK, ValueOK
      <4> QED
        BY <4>2, <4>3 DEF FrameOK
    <3>11. ASSUME NEW i \in 1 .. n - 1
           PROVE  \E h, b : /\ h = stack'[i] /\ FrameOK(h)'
                            /\ i > 1 => b = stack'[i - 1] /\ ~h.top /\ Calling(b, h)'
      <4>1. PICK h, b, k : h = stack'[i] /\ b = stack[i - 1] /\ k = stack[i]
        OBVIOUS
      <4>2. FrameOK(k) /\ (i > 1 => ~k.top /\ Calling(b, k))
        <5>1. i \in 1 .. Len(stack)
          BY <1>1
        <5> QED
          BY <4>1, <5>1 DEF SessionInv, StackOK
      <4>3. i > 1 => i - 1 \in 1 .. n - 2
        OBVIOUS
      <4>4. i > 1 => stack'[i - 1] = b
        BY <3>5, <4>1, <4>3
      <4>5. h \in Frames /\ FrameOK(h) /\ (i > 1 => ~h.top /\ Calling(b, h))
        <5>1. h \in Frames
          BY <3>5, <4>1
        <5>2. CASE i = n - 1
          BY <3>4, <3>5, <3>7, <3>9, <4>1, <4>2, <5>1, <5>2 DEF Calling
        <5>3. CASE i \in 1 .. n - 2
          BY <3>5, <4>1, <4>2, <5>1, <5>3
        <5> QED
          BY <5>2, <5>3
      <4>6. FrameOK(h)' /\ (i > 1 => Calling(b, h)')
        BY <3>10, <4>5 DEF Calling
      <4> QED
        BY <4>1, <4>4, <4>5, <4>6
    <3>12. StackOK'
      BY <3>5, <3>11, StackByFrame
    <3>13. stack'[1].stmt = stack[1].stmt /\ stack'[1].top = stack[1].top /\ stack' # <<>>
      <4>1. CASE n - 1 = 1
        <5>1. stack'[1] = g /\ stack[1] = c
          BY <3>4, <3>5, <4>1
        <5>2. stack' # <<>>
          BY <3>1, <3>5
        <5> QED
          BY <3>7, <5>1, <5>2
      <4>2. CASE n - 1 # 1
        <5>1. 1 \in 1 .. n - 2
          BY <3>1, <4>2
        <5>2. stack' # <<>>
          BY <3>1, <3>5
        <5> QED
          BY <3>5, <5>1, <5>2
      <4> QED
        BY <4>1, <4>2
    <3>14. \A x \in Vars : Pending(x)' <=> Pending(x)
      BY <3>13 DEF Pending
    <3>15. \A x \in Vars : run[1].vars[x] # NoType <=> globals'[x] # NoValue \/ Pending(x)'
      BY <1>2, <3>14 DEF Believes
    <3>16. Believes(run[1])'
      BY <1>2, <3>15 DEF Believes
    <3> QED
      BY <3>5, <3>12, <3>16
  <2> QED
    BY <2>1, <2>2
<1>6. ModuleIsChecked'
  BY <1>2, <1>5 DEF ModuleIsChecked
<1>7. FunctionsOK'
  <2> SUFFICES ASSUME NEW f \in Funs, functions[f] # Undefined
               PROVE  Here(functions[f].body.expr)'
    BY DEF SessionInv, FunctionsOK, VersionOK, Here
  <2>1. functions[f].body.expr \in AnnotatedExpressions /\ Here(functions[f].body.expr)
    BY FunctionFacts DEF SessionInv, FunctionsOK, VersionOK, AnnotatedSimples
  <2> QED
    BY <2>1 DEF Here, AnnotatedExpressions
<1>8. executing
  BY DEF SessionInv
<1> QED
  BY <1>5, <1>6, <1>7, <1>8 DEF SessionInv, SessionTypeOK, DescriptorsOK

\* A simple statement that is no return is worth void, which is what its
\* function returns.
LEMMA VoidFacts ==
  ASSUME SessionInv, stack # <<>>, Innermost.stmt.does # "return"
  PROVE  /\ Fitting("void") \in Value
         /\ Len(stack) > 1 => Fitting("void").type = Innermost.returns
<1>1. Len(stack) > 1 => Innermost.returns = "void"
  BY InnermostFacts
<1> QED
  BY <1>1 DEF Fitting, Value, TypeOrNone, Types

LEMMA AssignVariableKeepsInv ==
  ASSUME SessionInv, AssignVariable
  PROVE  SessionInv'
<1>1. /\ Ready /\ stack # <<>> /\ Innermost.stmt.does = "assign" /\ Innermost.stmt.does # "return"
      /\ DefineVariable(Innermost.stmt.to, Result) /\ Pop(Fitting("void"))
      /\ UNCHANGED <<functions, ffi, static, module, executing>>
  BY DEF AssignVariable, Ready
<1>2. PICK v \in Value : v = Fitting("void") /\ (Len(stack) > 1 => v.type = Innermost.returns)
  BY <1>1, VoidFacts
<1>3. Pop(v)
  BY <1>1, <1>2
<1>4. /\ globals' \in [Vars -> Value] /\ GlobalsOK'
      /\ \A x \in Vars : globals[x] # NoValue => globals'[x] # NoValue
      /\ \A x \in Vars : globals'[x] # NoValue => globals[x] # NoValue \/ Pending(x)
      /\ \A x \in Vars : Len(stack) = 1 /\ Pending(x) => globals'[x] # NoValue
  BY <1>1, DefineFacts
<1> QED
  BY <1>1, <1>2, <1>3, <1>4, PopKeepsInv

\* Statements that assign nothing leave nothing pending undone.
LEMMA NothingPending ==
  ASSUME SessionInv, stack # <<>>, Innermost.stmt.does # "assign", UNCHANGED globals
  PROVE  /\ globals' \in [Vars -> Value] /\ GlobalsOK'
         /\ \A x \in Vars : globals[x] # NoValue => globals'[x] # NoValue
         /\ \A x \in Vars : globals'[x] # NoValue => globals[x] # NoValue \/ Pending(x)
         /\ \A x \in Vars : Len(stack) = 1 /\ Pending(x) => globals'[x] # NoValue
<1>1. ASSUME NEW x \in Vars, Len(stack) = 1 PROVE ~Pending(x)
  BY <1>1, InnermostFacts DEF Pending
<1> QED
  BY <1>1 DEF SessionInv, SessionTypeOK, GlobalsOK

LEMMA EvaluateExpressionKeepsInv ==
  ASSUME SessionInv, EvaluateExpression
  PROVE  SessionInv'
<1>1. /\ stack # <<>> /\ Innermost.stmt.does # "assign" /\ Innermost.stmt.does # "return"
      /\ Pop(Fitting("void"))
      /\ UNCHANGED globals /\ UNCHANGED <<functions, ffi, static, module, executing>>
  BY DEF EvaluateExpression, Ready, runtimeVars
<1>2. PICK v \in Value : v = Fitting("void") /\ (Len(stack) > 1 => v.type = Innermost.returns)
  BY <1>1, VoidFacts
<1>3. Pop(v)
  BY <1>1, <1>2
<1> QED
  BY <1>1, <1>2, <1>3, NothingPending, PopKeepsInv

LEMMA ReturnValueKeepsInv ==
  ASSUME SessionInv, ReturnValue
  PROVE  SessionInv'
<1>1. /\ Ready /\ stack # <<>> /\ Innermost.stmt.does # "assign"
      /\ Pop([type |-> Innermost.returns, fits |-> Result.fits])
      /\ UNCHANGED globals /\ UNCHANGED <<functions, ffi, static, module, executing>>
  BY DEF ReturnValue, Ready, runtimeVars
<1>2. Innermost.returns \in TypeOrNone /\ Result.fits \in BOOLEAN
  BY <1>1, InnermostFacts, ResultFacts DEF Frames, Value
<1>3. PICK v \in Value : v = [type |-> Innermost.returns, fits |-> Result.fits]
  BY <1>2 DEF Value
<1>4. v.type = Innermost.returns /\ Pop(v)
  BY <1>1, <1>2, <1>3
<1> QED
  BY <1>1, <1>4, NothingPending, PopKeepsInv

\* The end of a module, whichever way it ends.
LEMMA EndKeepsInv ==
  ASSUME SessionInv, End, globals' \in [Vars -> Value], GlobalsOK',
         \A x \in Vars : globals[x] # NoValue => globals'[x] # NoValue
  PROVE  SessionInv'
<1>1. /\ executing' = FALSE /\ module' = <<>> /\ stack' = <<>>
      /\ UNCHANGED <<functions, ffi>>
      /\ static' = Snapshot(globals', functions', ffi')
  BY DEF End
<1>2. functions' \in [Funs -> FunctionVersions] /\ ffi' \in [Funs -> TypeOrNone]
  BY <1>1 DEF SessionInv, SessionTypeOK
<1>3. FunctionsOK'
  <2> SUFFICES ASSUME NEW f \in Funs, functions[f] # Undefined
               PROVE  Here(functions[f].body.expr)'
    BY <1>1 DEF SessionInv, FunctionsOK, VersionOK, Here
  <2>1. functions[f].body.expr \in AnnotatedExpressions /\ Here(functions[f].body.expr)
    BY FunctionFacts DEF SessionInv, FunctionsOK, VersionOK, AnnotatedSimples
  <2> QED
    BY <1>1, <2>1 DEF Here, AnnotatedExpressions
<1> QED
  BY <1>1, <1>2, <1>3, SnapshotKeepsInv

LEMMA EndsKeepInv ==
  ASSUME SessionInv, Fail \/ FailToStore \/ FinishModule
  PROVE  SessionInv'
<1>1. CASE UNCHANGED globals /\ End
  BY <1>1, EndKeepsInv DEF SessionInv, SessionTypeOK, GlobalsOK
<1>2. CASE FailToStore
  <2>1. /\ Ready /\ Innermost.stmt.does = "assign" /\ End
        /\ DefineVariable(Innermost.stmt.to, Result)
    BY <1>2 DEF FailToStore
  <2>2. /\ globals' \in [Vars -> Value] /\ GlobalsOK'
        /\ \A x \in Vars : globals[x] # NoValue => globals'[x] # NoValue
    BY <2>1, DefineFacts
  <2> QED
    BY <2>1, <2>2, EndKeepsInv
<1> QED
  BY <1>1, <1>2 DEF Fail, FinishModule

-----------------------------------------------------------------------------
(* The theorems.                                                             *)

LEMMA InitGivesInv ==
  ASSUME Init
  PROVE  SessionInv
<1>1. /\ globals = [x \in Vars |-> NoValue] /\ functions = [f \in Funs |-> Undefined]
      /\ ffi = [f \in Funs |-> NoType] /\ static = Snapshot(globals, functions, ffi)
      /\ module = <<>> /\ executing = FALSE /\ stack = <<>>
  BY DEF Init
<1>2. NoValue \in Value /\ NoValue.type = NoType
  BY DEF NoValue, Fitting, Value, TypeOrNone
<1>3. Undefined \in FunctionVersions /\ Undefined.returns = NoType
  BY DEF Undefined, FunctionVersions
<1>4. /\ static.vars = [x \in Vars |-> NoType] /\ static.funs = [f \in Funs |-> NoType]
      /\ static.ffi = [f \in Funs |-> NoType] /\ static \in CheckerStates
  BY <1>1, <1>2, <1>3 DEF Snapshot, CheckerStates, TypeOrNone
<1>5. <<>> \in Seq(AnnotatedStatements) /\ <<>> \in Seq(Frames)
  OBVIOUS
<1>6. SessionTypeOK
  BY <1>1, <1>2, <1>3, <1>4, <1>5 DEF SessionTypeOK, TypeOrNone
<1>7. GlobalsOK /\ FunctionsOK /\ DescriptorsOK /\ StackOK
  BY <1>1, <1>2, <1>4, <1>5 DEF GlobalsOK, FunctionsOK, DescriptorsOK, Remembers, StackOK
<1>8. PICK run : run = [i \in 1 .. 1 |-> static]
  OBVIOUS
<1>9. Checks(run, <<>>, static)
  <2>1. Len(<<>>) = 0 /\ Len(<<>>) + 1 = 1 /\ 1 .. Len(<<>>) = {}
    OBVIOUS
  <2>2. run \in [1 .. 1 -> CheckerStates] /\ \A i \in 1 .. 1 : run[i] = static
    BY <1>4, <1>8
  <2> QED
    BY <1>4, <2>1, <2>2 DEF Checks, Remembers
<1>10. Believes(run[1])
  BY <1>1, <1>2, <1>3, <1>4, <1>8 DEF Believes, Pending
<1> QED
  BY <1>1, <1>6, <1>7, <1>9, <1>10 DEF SessionInv, ModuleIsChecked

LEMMA StutterKeepsInv == SessionInv /\ UNCHANGED vars => SessionInv'
<1> SUFFICES ASSUME SessionInv, UNCHANGED vars PROVE SessionInv'
  OBVIOUS
<1>1. UNCHANGED <<globals, functions, ffi, static, module, executing, stack>>
  BY DEF vars, runtimeVars
<1>2. ModuleIsChecked'
  <2>1. PICK run : Checks(run, module, static) /\ Believes(run[1])
    BY DEF SessionInv, ModuleIsChecked
  <2>2. Believes(run[1])'
    BY <1>1, <2>1 DEF Believes, Pending
  <2> QED
    BY <1>1, <2>1, <2>2 DEF ModuleIsChecked
<1>3. StackOK'
  BY <1>1 DEF SessionInv, StackOK, FrameOK, Here, ValueOK, Calling
<1> QED
  BY <1>1, <1>2, <1>3 DEF SessionInv, SessionTypeOK, GlobalsOK, FunctionsOK, VersionOK, DescriptorsOK,
    Here

\* The inductive invariant: whatever a module that is being checked, executed or
\* has failed has done, the checker's state and the Runtime agree as far as the
\* interpreter depends on it.
THEOREM CheckerAndRuntimeAgree == Spec => []SessionInv
<1>1. Init => SessionInv
  BY InitGivesInv
<1>2. SessionInv /\ [Next]_vars => SessionInv'
  <2> SUFFICES ASSUME SessionInv, Next PROVE SessionInv'
    BY StutterKeepsInv
  <2>1. ASSUME NEW s \in Statements, CheckStatement(s) \/ RejectModule(s) PROVE SessionInv'
    BY <2>1, CheckStatementKeepsInv, RejectModuleKeepsInv
  <2>2. CASE AcceptModule
    BY <2>2, AcceptModuleKeepsInv
  <2>3. CASE StartStatement
    BY <2>3, StartStatementKeepsInv
  <2>4. CASE TakeBranch
    BY <2>4, TakeBranchKeepsInv
  <2>5. CASE InstallFunction
    BY <2>5, InstallFunctionKeepsInv
  <2>6. CASE CallScript
    BY <2>6, CallScriptKeepsInv
  <2>7. CASE CallNative
    BY <2>7, CallNativeKeepsInv
  <2>8. CASE AssignVariable
    BY <2>8, AssignVariableKeepsInv
  <2>9. CASE EvaluateExpression
    BY <2>9, EvaluateExpressionKeepsInv
  <2>10. CASE ReturnValue
    BY <2>10, ReturnValueKeepsInv
  <2>11. CASE Fail \/ FailToStore \/ FinishModule
    BY <2>11, EndsKeepInv
  <2> QED
    BY <2>1, <2>2, <2>3, <2>4, <2>5, <2>6, <2>7, <2>8, <2>9, <2>10, <2>11 DEF Next
<1> QED
  BY <1>1, <1>2, PTL DEF Spec

\* "undefined variable" and "script function is not installed" are never thrown
\* for a statement that the checker has accepted (interpreter.cpp eval_variable,
\* eval_call).
THEOREM NamesAlwaysResolve == Spec => []NamesResolve
<1>1. SessionInv => NamesResolve
  <2> SUFFICES ASSUME SessionInv, NEW i \in DOMAIN stack
               PROVE  LET e == stack[i].stmt.expr
                      IN /\ e.of = "variable" => globals[e.name] # NoValue
                         /\ e.of \in {"call", "typed"} /\ e.script => functions[e.name] # Undefined
    BY DEF NamesResolve
  <2>1. i \in 1 .. Len(stack)
    BY DEF SessionInv, SessionTypeOK
  <2>2. FrameOK(stack[i])
    BY <2>1 DEF SessionInv, StackOK
  <2> QED
    BY <2>2 DEF FrameOK, Here
<1> QED
  BY <1>1, CheckerAndRuntimeAgree, PTL

\* Every native call that may still be executed has its descriptor in the Runtime:
\* in the functions installed by any module before, and in all that is left of this
\* one, chosen or not (main.cpp 86).
THEOREM NativeCallsAreAlwaysDeclared == Spec => []NativeCallsAreDeclared
<1>1. SessionInv => NativeCallsAreDeclared
  <2> SUFFICES ASSUME SessionInv, NEW e \in InstalledExpressions,
                      e.of \in {"call", "typed"} /\ ~e.script
               PROVE  ffi[e.name] # NoType
    BY DEF NativeCallsAreDeclared
  <2>1. CASE \E f \in Funs : functions[f] # Undefined /\ e = functions[f].body.expr
    BY <2>1 DEF SessionInv, FunctionsOK, VersionOK, Declared, IsNative
  <2>2. CASE executing /\ \E s \in ToSet(module) :
                            \/ e = s.then.expr
                            \/ s.kind = "if" /\ e = s.else.expr
    <3>1. PICK i \in 1 .. Len(module) : \/ e = module[i].then.expr
                                        \/ module[i].kind = "if" /\ e = module[i].else.expr
      BY <2>2 DEF ToSet, SessionInv, SessionTypeOK
    <3>2. PICK run : Checks(run, module, static)
      BY DEF SessionInv, ModuleIsChecked
    <3>3. PICK st, n, a : st = run[i] /\ n = run[i + 1] /\ a = module[i]
      OBVIOUS
    <3>4. a \in AnnotatedStatements /\ Step(st, a, n) /\ Remembers(n.ffi, static.ffi)
      <4>1. i + 1 \in 1 .. Len(module) + 1 /\ module[i] \in AnnotatedStatements
        BY DEF SessionInv, SessionTypeOK
      <4> QED
        BY <3>2, <3>3, <4>1 DEF Checks
    <3>5. Declared(e, n.ffi)
      <4>1. CASE a.kind = "simple"
        BY <3>1, <3>3, <3>4, <4>1 DEF Step, SimpleStep
      <4>2. CASE a.kind = "if"
        BY <3>1, <3>3, <3>4, <4>2 DEF Step, BranchStep
      <4>3. CASE a.kind = "define"
        BY <3>1, <3>3, <3>4, <4>3 DEF Step, DefineStep
      <4> QED
        BY <3>4, <4>1, <4>2, <4>3 DEF AnnotatedStatements
    <3>6. e \in AnnotatedExpressions
      BY <3>1, <3>3, <3>4 DEF AnnotatedStatements, AnnotatedSimples
    <3>7. e.name \in Funs /\ ffi = static.ffi
      BY <2>2, <3>6 DEF AnnotatedExpressions, SessionInv, DescriptorsOK
    <3> QED
      BY <3>4, <3>5, <3>7 DEF Declared, IsNative, Remembers
  <2> QED
    BY <2>1, <2>2 DEF InstalledExpressions
<1> QED
  BY <1>1, CheckerAndRuntimeAgree, PTL

\* A module that ends without failing has left the variables, functions and
\* descriptors that the checker predicted, whatever its branches and functions have
\* done to the types (main.cpp 82-90): no name is missing in the snapshot for the
\* next module, and none is in it that should have been local.
THEOREM PredictedNamesAlwaysHold == Spec => []PredictedNamesHold
<1>1. SessionInv => PredictedNamesHold
  <2> SUFFICES ASSUME SessionInv, executing, stack = <<>>, module = <<>>
               PROVE  /\ \A x \in Vars : static.vars[x] # NoType <=> globals[x] # NoValue
                      /\ \A f \in Funs : static.funs[f] = functions[f].returns
                      /\ static.ffi = ffi
    BY DEF PredictedNamesHold
  <2>1. PICK run : Checks(run, module, static) /\ Believes(run[1])
    BY DEF SessionInv, ModuleIsChecked
  <2>2. run[1] = static
    <3>1. Len(<<>>) + 1 = 1
      OBVIOUS
    <3> QED
      BY <2>1, <3>1 DEF Checks
  <2>3. \A x \in Vars : ~Pending(x)
    BY DEF Pending
  <2> QED
    BY <2>1, <2>2, <2>3 DEF Believes, SessionInv, DescriptorsOK
<1> QED
  BY <1>1, CheckerAndRuntimeAgree, PTL
=============================================================================
