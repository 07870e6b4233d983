------------------------------- MODULE Lexer -------------------------------
(***************************************************************************)
(* tokenize (lexer.cpp): the source text becomes tokens with their spans,  *)
(* one lexeme per step, or the text is found to be incomplete or wrong.    *)
(*                                                                         *)
(* A text is a sequence of characters.  A run of letters is kept as one    *)
(* character, the word, as only whole words matter; the words of one       *)
(* letter that mean something inside a number stay apart from the others.  *)
(* A digit stands for a run of digits: "0" and "1" are numbers with these  *)
(* values, "3" is any other, "huge" is one beyond 64 bits.  A token is its *)
(* kind, the text of an identifier, and the value of an integer.           *)
(***************************************************************************)
EXTENDS Integers, Sequences, FiniteSets

VARIABLES text,     \* Scanner.source
          at,       \* Scanner.pos, counted from 1
          line,     \* Scanner.line
          column,   \* Scanner.column
          open,     \* where the string literal being read starts, or 0
          tokens,   \* Scanner.out: the kinds of the tokens
          spans,    \* Scanner.out: their spans
          outcome   \* "scanning", "parsing" or "accepted", or the exception that
                    \* was thrown: IncompleteInput, or DiagnosticError ("rejected")

lexerVars == <<text, at, line, column, open, tokens, spans, outcome>>

Keywords ==
  {"if", "else", "switch", "case", "default", "try", "catch", "while", "throw", "break",
   "continue", "return", "assert", "struct", "union", "pack", "sizeof", "alignof", "offsetof"}
Builtins == {"i32", "void"}
Letters == {"e", "f", "x"}
Identifiers == Keywords \cup Builtins \cup Letters \cup {"name"}
Digits == {"0", "1", "3", "huge"}
Integers64 == Digits \ {"huge"}
HexDigits == Digits \cup {"e", "f"}
WordCharacters == Identifiers \cup Digits
Blanks == {"space", "newline"}
Singles ==
  {"(", ")", "{", "}", "[", "]", ",", ".", "@", "+", "-", "*", "/", "%", "^", "~",
   "=", "!", "&", "|", "<", ">"}
\* "nul" is a '\0' in the source, "#" any character that starts no lexeme.
Characters ==
  WordCharacters \cup Blanks \cup Singles \cup {"$", ";", "quote", "backslash", "nul", "#"}
Pairs ==
  {<<"=", "=", "==">>, <<"!", "=", "!=">>, <<"&", "&", "&&">>, <<"|", "|", "||">>,
   <<"<", "<", "<<">>, <<"<", "=", "<=">>, <<">", ">", ">>">>, <<">", "=", ">=">>}

-----------------------------------------------------------------------------
\* Scanner::peek: '\0' beyond the end, as for a character that is '\0'.
Char(i) == IF i \in 1..Len(text) THEN text[i] ELSE "nul"

\* Where the run of characters of S that starts at i ends.
RunEnd(S, i) ==
  CHOOSE j \in i..(Len(text) + 1) : /\ Char(j) \notin S
                                    /\ \A k \in i..(j - 1) : Char(k) \in S

NotStarted(source) ==
  /\ text = source
  /\ at = 1 /\ line = 1 /\ column = 1 /\ open = 0
  /\ tokens = <<>> /\ spans = <<>>
  /\ outcome = "scanning"

Restart(source) ==
  /\ text' = source
  /\ at' = 1 /\ line' = 1 /\ column' = 1 /\ open' = 0
  /\ tokens' = <<>> /\ spans' = <<>>
  /\ outcome' = "scanning"

\* Scanner::advance up to `to', over characters that are no newlines.
Advance(to) == at' = to /\ column' = column + (to - at) /\ UNCHANGED line

\* Scanner::push: the token that starts here.
Push(kind, to) ==
  /\ tokens' = Append(tokens, kind)
  /\ spans' = Append(spans, [start |-> at, length |-> to - at, line |-> line, column |-> column])
  /\ Advance(to)
  /\ UNCHANGED <<text, open, outcome>>

Throw(exception) ==
  /\ outcome' = exception
  /\ UNCHANGED <<text, at, line, column, open, tokens, spans>>

\* The next lexeme starts with a character of S.
Lexeme(S) == outcome = "scanning" /\ open = 0 /\ at <= Len(text) /\ Char(at) \in S

IsComment == Char(at) = ";" \/ (Char(at) = "/" /\ Char(at + 1) = "/")

SkipBlank ==
  /\ Lexeme(Blanks)
  /\ at' = at + 1
  /\ IF Char(at) = "newline" THEN line' = line + 1 /\ column' = 1
                             ELSE column' = column + 1 /\ UNCHANGED line
  /\ UNCHANGED <<text, open, tokens, spans, outcome>>

\* To the end of the line, or to a '\0'.
SkipComment ==
  /\ Lexeme({";", "/"}) /\ IsComment
  /\ \E to \in at..(Len(text) + 1) :
       /\ Char(to) \in {"nul", "newline"}
       /\ \A i \in at..(to - 1) : Char(i) \notin {"nul", "newline"}
       /\ Advance(to)
  /\ UNCHANGED <<text, open, tokens, spans, outcome>>

ScanVariable ==
  /\ Lexeme({"$"})
  /\ IF Char(at + 1) \in Identifiers THEN Push("variable", RunEnd(WordCharacters, at + 1))
                                     ELSE Throw("rejected")

ScanIdentifier ==
  /\ Lexeme(Identifiers)
  /\ LET to == RunEnd(WordCharacters, at)
     IN Push(IF to = at + 1 THEN Char(at) ELSE "name", to)

\* The value of the digits in from..(to - 1), in either base: the last one after
\* zeros only, and otherwise one that is neither 0 nor 1.
IntegerValue(from, to) ==
  IF Char(to - 1) \in Digits /\ \A i \in from..(to - 2) : Char(i) = "0"
  THEN Char(to - 1) ELSE "3"

\* from_chars refuses an integer of more than 64 bits.
PushInteger(from, to) ==
  IF \E i \in from..(to - 1) : Char(i) = "huge"
  THEN Throw("rejected")
  ELSE Push(IntegerValue(from, to), to)

ScanHexadecimal ==
  /\ Lexeme({"0"}) /\ Char(at + 1) = "x"
  /\ LET to == RunEnd(HexDigits, at + 2)
     IN IF to = at + 2 THEN Throw("rejected") ELSE PushInteger(at + 2, to)

ScanDecimal ==
  /\ Lexeme(Digits) /\ ~(Char(at) = "0" /\ Char(at + 1) = "x")
  /\ LET whole == RunEnd(Digits, at)
         fraction == IF Char(whole) = "." THEN RunEnd(Digits, whole + 1) ELSE whole
         sign == IF Char(fraction + 1) \in {"+", "-"} THEN 1 ELSE 0
         exponent == IF Char(fraction) = "e" THEN RunEnd(Digits, fraction + 1 + sign) ELSE fraction
         to == IF Char(exponent) = "f" THEN exponent + 1 ELSE exponent
     IN IF Char(fraction) = "e" /\ Char(fraction + 1 + sign) \notin Digits
        THEN Throw("rejected")
        ELSE IF to = whole THEN PushInteger(at, to) ELSE Push("float", to)

-----------------------------------------------------------------------------
(* A string literal is read one character or escape at a time.               *)

OpenString ==
  /\ Lexeme({"quote"})
  /\ open' = at
  /\ tokens' = Append(tokens, "string")
  /\ spans' = Append(spans, [start |-> at, length |-> 0, line |-> line, column |-> column])
  /\ Advance(at + 1)
  /\ UNCHANGED <<text, outcome>>

InString == outcome = "scanning" /\ open # 0

\* Mutant of StringCharacter: a newline does not start a line.
StringCharacterOneLine ==
  /\ InString /\ Char(at) \notin {"nul", "quote", "backslash"}
  /\ Advance(at + 1)
  /\ UNCHANGED <<text, open, tokens, spans, outcome>>

StringCharacter ==
  /\ InString /\ Char(at) \notin {"nul", "quote", "backslash"}
  /\ at' = at + 1
  /\ IF Char(at) = "newline" THEN line' = line + 1 /\ column' = 1
                             ELSE column' = column + 1 /\ UNCHANGED line
  /\ UNCHANGED <<text, open, tokens, spans, outcome>>

\* The character after a backslash, which may be a newline; \x takes two digits.
StringEscape ==
  /\ InString /\ Char(at) = "backslash"
  /\ CASE Char(at + 1) = "nul" -> Throw("incomplete")
       [] Char(at + 1) = "x" /\ ~(Char(at + 2) \in HexDigits /\ Char(at + 3) \in HexDigits) ->
            Throw("rejected")
       [] OTHER ->
            /\ at' = at + (IF Char(at + 1) = "x" THEN 4 ELSE 2)
            /\ IF Char(at + 1) = "newline" THEN line' = line + 1 /\ column' = 1
                                           ELSE column' = column + (at' - at) /\ UNCHANGED line
            /\ UNCHANGED <<text, open, tokens, spans, outcome>>

CloseString ==
  /\ InString /\ Char(at) = "quote"
  /\ spans' = [spans EXCEPT ![Len(spans)].length = at + 1 - open]
  /\ open' = 0
  /\ Advance(at + 1)
  /\ UNCHANGED <<text, tokens, outcome>>

UnterminatedString == InString /\ Char(at) = "nul" /\ Throw("incomplete")

-----------------------------------------------------------------------------
ScanOperator ==
  /\ Lexeme(Singles) /\ ~IsComment
  /\ LET two == {p \in Pairs : p[1] = Char(at) /\ p[2] = Char(at + 1)}
     IN IF two # {} THEN Push((CHOOSE p \in two : TRUE)[3], at + 2) ELSE Push(Char(at), at + 1)

UnexpectedCharacter ==
  /\ outcome = "scanning" /\ open = 0 /\ at <= Len(text)
  /\ Char(at) \notin Blanks \cup Identifiers \cup Digits \cup Singles \cup {"$", "quote", ";"}
  /\ Throw("rejected")

EndOfText ==
  /\ outcome = "scanning" /\ open = 0 /\ at > Len(text)
  /\ tokens' = Append(tokens, "eof")
  /\ spans' = Append(spans, [start |-> at, length |-> 0, line |-> line, column |-> column])
  /\ outcome' = "parsing"
  /\ UNCHANGED <<text, at, line, column, open>>

Scan ==
  \/ SkipBlank \/ SkipComment
  \/ ScanVariable \/ ScanIdentifier \/ ScanHexadecimal \/ ScanDecimal
  \/ OpenString \/ StringCharacter \/ StringEscape \/ CloseString \/ UnterminatedString
  \/ ScanOperator \/ UnexpectedCharacter \/ EndOfText

-----------------------------------------------------------------------------
\* Every character is read once: the tokens lie one after the other, what lies
\* between them is blank or part of a comment, and no comment holds a token.  A
\* diagnostic underlines its span in the source (main.cpp print_diagnostic), so a
\* token's line and column are those of its first character.
TokenEnd(i) == IF i = 0 THEN 1 ELSE spans[i].start + spans[i].length
Commented(i) ==
  \E s \in 1..i : /\ Char(s) = ";" \/ (Char(s) = "/" /\ Char(s + 1) = "/")
                  /\ \A k \in s..i : Char(k) # "newline"
NewlinesBefore(i) == {k \in 1..(i - 1) : Char(k) = "newline"}
SpansPointIntoTheText ==
  \A i \in 1..Len(spans) :
    LET s == spans[i] IN
    /\ TokenEnd(i - 1) <= s.start /\ TokenEnd(i) <= Len(text) + 1
    /\ \A k \in TokenEnd(i - 1)..(s.start - 1) : Char(k) \in Blanks \/ Commented(k)
    /\ s.line = 1 + Cardinality(NewlinesBefore(s.start))
    /\ Char(s.start - s.column) = "newline" \/ s.start = s.column
    /\ \A k \in (s.start - s.column + 1)..(s.start - 1) : Char(k) # "newline"
=============================================================================
