---------------------------- MODULE MCStatements ----------------------------
(***************************************************************************)
(* Bodies for TLC: a nested statement, perhaps after an assignment and     *)
(* before a read or a jump.                                                *)
(***************************************************************************)
EXTENDS Statements
CONSTANTS a, e

MCNames == {a, e}

Leaves ==
  {Assign(a, "scalar"), Assign(e, "exception"), Read(a), Throw(e),
   Jump("break"), Jump("continue"), ReturnValue}
Short == {<<>>} \cup {<<s>> : s \in Leaves}
Other == {<<Assign(a, "scalar")>>, <<Jump("return")>>, <<ReturnValue>>}

Inner ==
  {If(b) : b \in Short} \cup {While(b) : b \in Short}
  \cup {IfElse(b, Block(c)) : b \in Short, c \in Other}
  \cup {Switch(<<b, c>>, d) : b \in Short, c \in Other, d \in BOOLEAN}
  \cup {Try(b, e, c) : b \in Short, c \in Other}

Outer ==
  {While(<<i, s>>) : i \in Inner, s \in {Read(a), Assertion}}
  \cup {Try(<<i>>, e, c) : i \in Inner, c \in {<<>>, <<ReturnValue>>, <<Throw(e)>>}}
  \cup {Try(<<Read(a)>>, e, <<i>>) : i \in Inner}
  \cup {If(<<i>>) : i \in Inner}

\* What is before the statement, and behind it.
Around(s) ==
  <<<<s>>, <<Assign(a, "scalar"), s, Read(a)>>, <<Assign(e, "exception"), s, ReturnValue>>,
    <<s, Assign(a, "exception"), Jump("return")>>>>

Places ==
  {<<"value", a, 1>>, <<"void", a, 1>>}
  \cup {<<of, Unbound, i>> : of \in {"module", "value", "void"}, i \in 1..4}

MCPrograms == {Program(c[1], c[2], Around(s)[c[3]]) : c \in Places, s \in Outer}

\* What is left of these bodies and of those in them, with the other branches
\* that are executed in place of their if.
Else == {<<Block(c)>> : c \in Other}
Behind == {<<>>, <<Read(a)>>, <<Assertion>>}
MCBodies ==
  Short \cup Other \cup Behind \cup {<<Throw(e)>>} \cup {other \o b : other \in Else, b \in Behind}
  \cup {<<i>> \o b : i \in Inner, b \in Behind}
  \cup {SubSeq(Around(s)[i], j, Len(Around(s)[i])) : s \in Outer, i \in 1..4, j \in 1..4}

RECURSIVE MCSize(_)
MCSize(b) ==
  IF b = <<>> THEN 0
  ELSE LET inner == Head(b).bodies
       IN 1 + MCSize(Tail(b)) + (IF inner = <<>> THEN 0 ELSE MCSize(inner[1]))
          + (IF Len(inner) < 2 THEN 0 ELSE MCSize(inner[2]))
=============================================================================
