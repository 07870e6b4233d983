----------------------------- MODULE MCFrontEnd -----------------------------
(***************************************************************************)
(* Sources for TLC: statements of every form, alone and in pairs, laid out *)
(* on lines in several ways, operators in every order, and sources with a  *)
(* character missing or one too many.                                      *)
(***************************************************************************)
EXTENDS FrontEnd, SequencesExt

X == <<"$", "x">>
I == <<"i32", "space">>
Call == <<"f", "(", ")">>
Body == <<"{", "newline">> \o X \o <<"=", "1", "newline">> \o Call \o <<"newline", "}">>

Closed ==   \* nothing that follows can become part of these
  { X \o <<"=", "space", "1", "-", "1", "*", "~">> \o X \o <<"[", "1", "]", ".", "f">>,
    X \o <<"[", "1", "]", ".", "f", "=", "-", "(", "1", ".", "1", "e", "+", "1", "f", ")">>,
    <<"i32", "[", "1", "]", "@">> \o X \o <<".", "f", "=", "0", "x", "f", ";", "name", "!">>,
    X \o <<"=", "i32", "[", "0", "x", "0", "1", "]", "{", "1", ",", "-", "1", ",", "}">>,
    X \o <<"=", "name", "{", ".", "f", "=", "1", ",", ".", "x", "=", "&">> \o X \o <<"}">>,
    X \o <<"=", "struct", "{">> \o I \o <<"f", "}", "{", ".", "f", "=", "1", "}">>,
    X \o <<"=", "sizeof", "(">> \o X \o <<")", "+", "alignof", "(", "i32", "[", "1", "]", ")">>,
    X \o <<"=", "offsetof", "(", "name", ",", "f", ".", "f", ")">>,
    <<"f", "(", "1", ",">> \o X \o <<".", "f", ")">>,
    <<"f", ".", "f", "space">> \o I \o <<"f", "(", "i32", "@">> \o X \o <<",">> \o I \o X \o <<")">>,
    X \o <<"(", "quote", "f", "backslash", "quote", "quote", "quote", "backslash", "x", "1", "f", "quote", ")">>,
    I \o X \o <<"(", "1", ")">>,
    <<"(">> \o Call \o <<")">>,
    <<"struct", "space", "f", "space", "pack", "(", "0", "x", "1", ")", "{", "newline">> \o I \o <<"f", "[", "1", "]", ",", "newline", "i32", "[", "1", "]", "f", "}">>,
    I \o <<"f", "(">> \o I \o X \o <<",">> \o I \o X \o <<")", "{", "return", "space">> \o X \o <<"}">>,
    <<"void", "space", "f", "(", ")", "{", "return", "newline", "}">>,
    <<"if", "(">> \o X \o <<"&", "&", "1", ")">> \o Body \o <<"else", "space", "if", "(", "1", ")", "{", "}", "else">> \o Body,
    <<"switch", "(">> \o X \o <<")", "{", "newline", "case", "space", "1", ",", "1">> \o Body \o <<"newline", "default">> \o Body \o <<"}">>,
    <<"try">> \o Body \o <<"newline", "catch", "(">> \o X \o <<")", "{", "throw", "space">> \o X \o <<"}">>,
    <<"while", "(", "1", ")", "{", "break", "space", "continue", "}">>,
    <<"assert", "(", "1", "<", "=", "1", ",", "quote", "newline", "quote", ")">>,
    Body }
Arrays == {X \o <<"=", "i32", "[", "1", "]">>}
TypedCalls == {I \o <<"f", "(", "i32", "space", "1", ")">>}
Names == {X \o <<"=">> \o X, X \o <<"=", "&", "f">>, <<"throw", "space">> \o X}
AllStatements == Closed \cup Arrays \cup TypedCalls \cup Names

-----------------------------------------------------------------------------
\* Statements that have no end of their own: an array type takes a block for its
\* initializer, a typed call takes one for the body of a function, a name takes a
\* parenthesis for arguments.
Follows(s, t) ==
  CASE t[1] = "{" -> s \notin Arrays \cup TypedCalls
    [] t[1] = "(" -> s \notin Names
    [] OTHER -> TRUE

\* Where a line may end inside a statement, besides the ends of the statements in it.
LineEnds(s) ==
  {i \in 1..(Len(s) - 1) : /\ s[i] \in {"(", "{", "[", ",", "=", "+", "*", "@", "-", "~"}
                           /\ s[i + 1] \notin {"=", "newline"}
                           /\ i > 1 => s[i - 1] # "e"}
Split(s, i) == SubSeq(s, 1, i) \o <<"newline">> \o SubSeq(s, i + 1, Len(s))
Layouts(s) == {s} \cup {Split(s, i) : i \in LineEnds(s)}

Source(t, e, s) == [text |-> t, extents |-> e, separate |-> s]
One(s) == Source(s, {<<1, Len(s)>>}, TRUE)
Two(s, t, separator) ==
  Source(s \o <<separator>> \o t, {<<1, Len(s)>>, <<Len(s) + 2, Len(s) + 1 + Len(t)>>}, TRUE)

Short == {<<"f", "(", ")">>, Body, <<"(", "f", "(", ")", ")">>} \cup Arrays \cup TypedCalls \cup Names
Separate ==
  {One(l) : l \in UNION {Layouts(s) : s \in AllStatements}}
  \cup {Two(s, t, "newline") : s \in AllStatements, t \in Short}
  \cup {Two(s, t, "space") : s \in Short, t \in Short}
SeparateScripts ==
  {s \in Separate : \A d, e \in s.extents :
      d[2] + 2 = e[1] => Follows(SubSeq(s.text, d[1], d[2]), SubSeq(s.text, e[1], e[2]))}

BinaryOperators == {<<"|", "|">>, <<"=", "=">>, <<"-">>, <<"*">>}
Precedences ==
  {One(X \o <<"=", "1">> \o a \o <<"1">> \o b \o <<"1">> \o c \o <<"1">>) : a, b, c \in BinaryOperators}
  \cup {One(X \o <<"=", "(", "1">> \o a \o <<"1", ")">> \o b \o <<"1">>) : a, b \in BinaryOperators}

\* Sources that may be wrong.
Damaged == UNION {{Source(RemoveAt(s, i), {}, FALSE) : i \in 1..Len(s)} : s \in AllStatements}
           \cup {Source(InsertAt(s, i, c), {}, FALSE) :
                   s \in {I \o X \o <<"(", "1", ")">>}, i \in 1..6, c \in {"}", "catch", "#", "nul", "0", "huge", "e"}}
           \cup {Source(X \o <<"=", "i32", "[", "0", "x">> \o n \o <<"]", "{", "}">>, {}, FALSE) :
                   n \in {<<"0">>, <<"1">>, <<"f">>}}

MCScripts == SeparateScripts \cup Precedences \cup Damaged
=============================================================================
