---------------------------- MODULE ParserProofs ----------------------------
(***************************************************************************)
(* Whatever is typed, the spans of the tokens are where the tokens are in  *)
(* the text: the scanner counts lines and columns as it goes. The parser   *)
(* reads no token beyond the end of the input: each parse function         *)
(* consumes a token only after it has seen that it is not the last one,    *)
(* and goes back only to where it has been. And binary operators group as  *)
(* they bind: each item of the stack starts at a known depth in brackets,  *)
(* and a loop of operators has read only what binds as tightly as it asks  *)
(* for.                                                                    *)
(***************************************************************************)
EXTENDS FrontEnd, SequenceTheorems, FiniteSetTheorems, WellFoundedInduction, TLAPS

-----------------------------------------------------------------------------
(* The spans of the tokens.                                                  *)

\* The character at i has line l and column c.
AtColumn(i, c) ==
  /\ Char(i - c) = "newline" \/ i = c
  /\ \A k \in (i - c + 1)..(i - 1) : Char(k) # "newline"
AtPlace(i, l, c) ==
  /\ l \in Nat \ {0} /\ c \in 1..i
  /\ l = 1 + Cardinality(NewlinesBefore(i))
  /\ AtColumn(i, c)

Skipped(k) == Char(k) \in Blanks \/ Commented(k)

\* The token with span s, when the one before it ends at e.
SpanFits(e, s) ==
  /\ e <= s.start /\ s.start + s.length <= Len(text) + 1
  /\ \A k \in e..(s.start - 1) : Skipped(k)
  /\ AtPlace(s.start, s.line, s.column)

Spans == [start : Nat \ {0}, length : Nat, line : Nat \ {0}, column : Nat \ {0}]

\* What has been read ends in a token, in what lies between tokens, or within a string.
LexerInv ==
  /\ text \in Seq(Characters) /\ at \in 1..(Len(text) + 1) /\ open \in Nat
  /\ AtPlace(at, line, column)
  /\ spans \in Seq(Spans)
  /\ \A i \in 1..Len(spans) : SpanFits(TokenEnd(i - 1), spans[i])
  /\ open = 0 =>
       /\ TokenEnd(Len(spans)) <= at
       /\ \A k \in TokenEnd(Len(spans))..(at - 1) : Skipped(k)
  /\ open # 0 =>
       /\ spans # <<>> /\ open < at
       /\ spans[Len(spans)].start = open /\ spans[Len(spans)].length = 0

\* A set of numbers has a least one.
LEMMA LeastNumber ==
  ASSUME NEW S \in SUBSET Nat, S # {}
  PROVE  \E x \in S : \A y \in S : x <= y
<1> DEFINE R == OpToRel(<, Nat)
<1>1. IsWellFoundedOn(R, Nat)
  BY NatLessThanWellFounded
<1> HIDE DEF R
<1>2. PICK x \in S : \A y \in S : ~(<<y, x>> \in R)
  BY <1>1, WFMin, Zenon
<1>3. \A y \in S : y < x => <<y, x>> \in R
  BY DEF R, OpToRel
<1>4. \A y \in S : x \in Nat /\ y \in Nat /\ ~(y < x)
  BY <1>2, <1>3
<1>5. \A y \in S : x <= y
  BY <1>4
<1> QED
  BY <1>5

\* A run of characters ends within the text.
LEMMA RunFacts ==
  ASSUME text \in Seq(Characters), NEW S, "nul" \notin S, NEW i \in 1..(Len(text) + 1)
  PROVE  /\ RunEnd(S, i) \in i..(Len(text) + 1)
         /\ Char(RunEnd(S, i)) \notin S
         /\ \A k \in i..(RunEnd(S, i) - 1) : Char(k) \in S
<1> DEFINE Ends == {j \in i..(Len(text) + 1) : Char(j) \notin S}
<1>1. Len(text) \in Nat
  OBVIOUS
<1>2. Len(text) + 1 \in Ends
  BY <1>1 DEF Char
<1>3. Ends \in SUBSET Nat
  BY <1>1
<1>4. PICK j \in Ends : \A y \in Ends : j <= y
  BY <1>2, <1>3, LeastNumber
<1>5. \A k \in i..(j - 1) : k \in i..(Len(text) + 1) /\ ~(j <= k)
  BY <1>1, <1>4
<1>6. \A k \in i..(j - 1) : Char(k) \in S
  BY <1>4, <1>5
<1>7. \E m \in i..(Len(text) + 1) : Char(m) \notin S /\ \A k \in i..(m - 1) : Char(k) \in S
  BY <1>4, <1>6
<1> QED
  BY <1>7, Zenon DEF RunEnd

\* Over characters that are no newlines, the line stays and the columns count.
LEMMA AdvanceKeepsPlace ==
  ASSUME NEW i \in Nat \ {0}, NEW j \in Nat, i <= j, NEW l, NEW c, AtPlace(i, l, c),
         \A k \in i..(j - 1) : Char(k) # "newline"
  PROVE  AtPlace(j, l, c + (j - i))
<1>1. NewlinesBefore(j) = NewlinesBefore(i)
  <2>1. \A k : k \in 1..(j - 1) /\ Char(k) = "newline" <=> k \in 1..(i - 1) /\ Char(k) = "newline"
    <3>1. \A k \in 1..(j - 1) : k \in 1..(i - 1) \/ k \in i..(j - 1)
      OBVIOUS
    <3>2. \A k \in 1..(i - 1) : k \in 1..(j - 1)
      OBVIOUS
    <3> QED
      BY <3>1, <3>2
  <2> QED
    BY <2>1 DEF NewlinesBefore
<1>2. c \in 1..i /\ c + (j - i) \in 1..j /\ j - (c + (j - i)) = i - c
  BY DEF AtPlace
<1>3. \A k \in (i - c + 1)..(j - 1) : k \in (i - c + 1)..(i - 1) \/ k \in i..(j - 1)
  BY <1>2
<1>4. j = c + (j - i) <=> i = c
  BY <1>2
<1> QED
  BY <1>1, <1>2, <1>3, <1>4 DEF AtPlace, AtColumn

\* After a newline a line starts.
LEMMA NewlineStartsLine ==
  ASSUME NEW i \in Nat \ {0}, NEW l, NEW c, AtPlace(i, l, c), Char(i) = "newline"
  PROVE  AtPlace(i + 1, l + 1, 1)
<1>1. NewlinesBefore(i + 1) = NewlinesBefore(i) \cup {i} /\ i \notin NewlinesBefore(i)
  <2>1. \A k : k \in 1..((i + 1) - 1) <=> k \in 1..(i - 1) \/ k = i
    OBVIOUS
  <2> QED
    BY <2>1 DEF NewlinesBefore
<1>2. IsFiniteSet(NewlinesBefore(i))
  <2>1. IsFiniteSet(1..(i - 1))
    BY FS_Interval
  <2>2. NewlinesBefore(i) \in SUBSET (1..(i - 1))
    BY DEF NewlinesBefore
  <2> QED
    BY <2>1, <2>2, FS_Subset
<1>3. Cardinality(NewlinesBefore(i + 1)) = Cardinality(NewlinesBefore(i)) + 1
  BY <1>1, <1>2, FS_AddElement
<1>4. Cardinality(NewlinesBefore(i)) \in Nat
  BY <1>2, FS_CardinalityType
<1>5. AtColumn(i + 1, 1)
  <2>1. (i + 1) - 1 = i /\ \A k : ~(k \in ((i + 1) - 1 + 1)..((i + 1) - 1))
    OBVIOUS
  <2> QED
    BY <2>1 DEF AtColumn
<1> QED
  BY <1>3, <1>4, <1>5 DEF AtPlace

\* What is said of characters stays, as the text does.
LEMMA TextStays ==
  ASSUME text' = text
  PROVE  /\ \A i : Char(i)' = Char(i)
         /\ \A i, l, c : AtPlace(i, l, c)' = AtPlace(i, l, c)
         /\ \A k : Skipped(k)' = Skipped(k)
         /\ \A e, s : SpanFits(e, s)' = SpanFits(e, s)
BY DEF Char, AtPlace, AtColumn, NewlinesBefore, Skipped, Commented, SpanFits

\* A place before the end of the text, and what no newline is.
LEMMA CharFacts ==
  ASSUME LexerInv
  PROVE  /\ Len(text) \in Nat
         /\ \A i \in Int : Char(i) # "nul" => i \in 1..Len(text)
BY DEF LexerInv, Char

\* What kinds of characters are no others.
LEMMA CharacterSets ==
  /\ WordCharacters \cap {"nul", "newline", "space", "quote", "backslash"} = {}
  /\ Identifiers \subseteq WordCharacters /\ Digits \subseteq WordCharacters
  /\ HexDigits \subseteq WordCharacters
  /\ {"nul", "newline", "space", "quote", "backslash"} \cap Singles = {}
<1>1. WordCharacters \cap {"nul", "newline", "space", "quote", "backslash"} = {}
  BY ZenonT(60) DEF WordCharacters, Identifiers, Keywords, Builtins, Letters, Digits
<1>2. {"nul", "newline", "space", "quote", "backslash"} \cap Singles = {}
  BY ZenonT(60) DEF Singles
<1>3. {"e", "f"} \subseteq WordCharacters
  BY ZenonT(60) DEF WordCharacters, Identifiers, Letters
<1> QED
  BY <1>1, <1>2, <1>3 DEF WordCharacters, HexDigits

\* A span that is added fits behind the others.
LEMMA AppendSpan ==
  ASSUME LexerInv, open = 0, text' = text, NEW to \in at..(Len(text) + 1), NEW new,
         new = [start |-> at, length |-> to - at, line |-> line, column |-> column],
         spans' = Append(spans, new)
  PROVE  /\ spans' \in Seq(Spans) /\ spans' # <<>> /\ spans'[Len(spans')] = new
         /\ (\A i \in 1..Len(spans) : SpanFits(TokenEnd(i - 1), spans[i]))'
         /\ TokenEnd(Len(spans))' = to
<1>1. /\ text \in Seq(Characters) /\ Len(text) \in Nat /\ at \in Nat \ {0} /\ to \in Nat
      /\ at <= to /\ to <= Len(text) + 1
      /\ line \in Nat \ {0} /\ column \in 1..at /\ AtPlace(at, line, column)
      /\ spans \in Seq(Spans) /\ Len(spans) \in Nat
  BY DEF LexerInv, AtPlace
<1>2. new \in Spans /\ new.start + new.length = to
  BY <1>1 DEF Spans
<1>3. /\ spans' \in Seq(Spans) /\ spans' # <<>> /\ Len(spans') = Len(spans) + 1
      /\ \A i \in 1..Len(spans) : spans'[i] = spans[i]
      /\ spans'[Len(spans) + 1] = new
  <2> HIDE DEF LexerInv
  <2> QED
    BY <1>1, <1>2, AppendProperties
<1>4. spans'[Len(spans')] = new /\ Len(spans') # 0
  <2>1. Len(spans) + 1 # 0
    BY <1>1
  <2> QED
    BY <1>3, <2>1
<1>5. \A i \in 0..Len(spans) : TokenEnd(i)' = TokenEnd(i)
  <2> SUFFICES ASSUME NEW i \in 0..Len(spans) PROVE TokenEnd(i)' = TokenEnd(i)
    OBVIOUS
  <2>1. i = 0 \/ spans'[i] = spans[i]
    BY <1>1, <1>3
  <2> QED
    BY <2>1 DEF TokenEnd
<1>6. TokenEnd(Len(spans))' = to
  BY <1>2, <1>4 DEF TokenEnd
<1>7. SpanFits(TokenEnd(Len(spans)), new)
  <2>1. \A e : e <= at /\ (\A k \in e..(at - 1) : Skipped(k)) => SpanFits(e, new)
    BY <1>1, <1>2 DEF SpanFits
  <2> QED
    BY <2>1 DEF LexerInv
<1>8. \A i \in 1..Len(spans') : SpanFits(TokenEnd(i - 1), spans[i])'
  <2> SUFFICES ASSUME NEW i \in 1..Len(spans') PROVE SpanFits(TokenEnd(i - 1), spans[i])'
    OBVIOUS
  <2>1. i \in 1..(Len(spans) + 1) /\ i - 1 \in 0..Len(spans)
    BY <1>1, <1>3
  <2>2. SpanFits(TokenEnd(i - 1), spans'[i])
    <3>1. CASE i \in 1..Len(spans)
      BY <1>3, <3>1 DEF LexerInv
    <3>2. CASE i = Len(spans) + 1
      <4>1. i - 1 = Len(spans)
        BY <1>1, <3>2
      <4> QED
        BY <1>3, <1>7, <3>2, <4>1
    <3> QED
      BY <1>1, <2>1, <3>1, <3>2
  <2>3. TokenEnd(i - 1)' = TokenEnd(i - 1)
    BY <1>5, <2>1
  <2> QED
    BY <2>2, <2>3, TextStays
<1> QED
  BY <1>3, <1>4, <1>6, <1>8

\* A token is pushed: the text has been read up to its end.
LEMMA PushKeepsInv ==
  ASSUME LexerInv, open = 0, NEW kind, NEW to \in at..(Len(text) + 1), Push(kind, to),
         \A k \in at..(to - 1) : Char(k) # "newline"
  PROVE  LexerInv'
<1> DEFINE new == [start |-> at, length |-> to - at, line |-> line, column |-> column]
<1>1. /\ spans' = Append(spans, new) /\ at' = to /\ column' = column + (to - at) /\ line' = line
      /\ text' = text /\ open' = open
  BY DEF Push, Advance
<1>2. /\ text \in Seq(Characters) /\ Len(text) \in Nat /\ at \in Nat \ {0} /\ to \in Nat
      /\ at <= to /\ to <= Len(text) + 1 /\ AtPlace(at, line, column)
  BY DEF LexerInv
<1>3. /\ spans' \in Seq(Spans) /\ TokenEnd(Len(spans))' = to
      /\ (\A i \in 1..Len(spans) : SpanFits(TokenEnd(i - 1), spans[i]))'
  BY <1>1, AppendSpan
<1>4. AtPlace(to, line, column + (to - at))
  BY <1>2, AdvanceKeepsPlace
<1>5. AtPlace(at, line, column)'
  BY <1>1, <1>4, TextStays
<1>6. \A k : ~(k \in to..(to - 1))
  BY <1>2
<1>7. TokenEnd(Len(spans))' <= at' /\ open' = 0
  BY <1>1, <1>2, <1>3
<1>8. (\A k \in TokenEnd(Len(spans))..(at - 1) : Skipped(k))'
  BY <1>1, <1>3, <1>6
<1>9. text' \in Seq(Characters) /\ at' \in 1..(Len(text') + 1)
  BY <1>1, <1>2
<1> QED
  BY <1>3, <1>5, <1>7, <1>8, <1>9 DEF LexerInv

\* Characters that are skipped, blank or part of a comment.
LEMMA SkipKeepsInv ==
  ASSUME LexerInv, open = 0, NEW to \in at..(Len(text) + 1), at' = to,
         UNCHANGED <<text, open, spans>>, AtPlace(to, line', column'),
         \A k \in at..(to - 1) : Skipped(k)
  PROVE  LexerInv'
<1>1. /\ text \in Seq(Characters) /\ Len(text) \in Nat /\ at \in Nat \ {0} /\ to \in Nat
      /\ at <= to /\ to <= Len(text) + 1
  BY DEF LexerInv
<1>2. \A i : TokenEnd(i)' = TokenEnd(i)
  BY DEF TokenEnd
<1>3. \A i \in 1..Len(spans) : SpanFits(TokenEnd(i - 1), spans[i])'
  BY <1>2, TextStays DEF LexerInv
<1>4. AtPlace(at, line, column)'
  BY TextStays
<1>5. TokenEnd(Len(spans))' = TokenEnd(Len(spans))
  BY <1>2
<1>6. TokenEnd(Len(spans)) <= to /\ \A k \in TokenEnd(Len(spans))..(to - 1) : Skipped(k)
  <2> DEFINE e == TokenEnd(Len(spans))
  <2>1. e <= at /\ \A k \in e..(at - 1) : Skipped(k)
    BY DEF LexerInv
  <2>2. e \in Nat
    <3>1. spans \in Seq(Spans)
      BY DEF LexerInv
    <3>2. Len(spans) = 0 \/ spans[Len(spans)] \in Spans
      BY <3>1
    <3>3. \A s \in Spans : s.start + s.length \in Nat
      BY DEF Spans
    <3> QED
      BY <3>2, <3>3 DEF TokenEnd
  <2> HIDE DEF e
  <2>3. \A k \in e..(to - 1) : k \in e..(at - 1) \/ k \in at..(to - 1)
    BY <1>1, <2>2
  <2>4. e <= to /\ \A k \in e..(to - 1) : Skipped(k)
    BY <1>1, <2>1, <2>2, <2>3
  <2> QED
    BY <2>4 DEF e
<1>7. (TokenEnd(Len(spans)) <= at /\ \A k \in TokenEnd(Len(spans))..(at - 1) : Skipped(k))'
  BY <1>5, <1>6, TextStays
<1> QED
  BY <1>1, <1>3, <1>4, <1>7 DEF LexerInv

\* Blanks and comments (skip_whitespace_and_comments) leave the tokens alone.
LEMMA SkippingKeepsInv ==
  ASSUME LexerInv, SkipBlank \/ SkipComment
  PROVE  LexerInv'
<1>1. /\ open = 0 /\ at <= Len(text) /\ Len(text) \in Nat /\ at \in Nat \ {0}
      /\ AtPlace(at, line, column) /\ UNCHANGED <<text, open, spans>>
      /\ column \in Nat
  <2>1. open = 0 /\ at <= Len(text) /\ UNCHANGED <<text, open, spans>>
    BY DEF SkipBlank, SkipComment, Lexeme
  <2>2. Len(text) \in Nat /\ at \in Nat \ {0} /\ AtPlace(at, line, column)
    BY DEF LexerInv
  <2>3. column \in Nat
    BY <2>2 DEF AtPlace
  <2> QED
    BY <2>1, <2>2, <2>3
<1>2. CASE SkipBlank
  <2>1. Char(at) \in Blanks /\ at' = at + 1 /\ at + 1 \in at..(Len(text) + 1)
    BY <1>1, <1>2 DEF SkipBlank, Lexeme
  <2>2. \A k \in at..((at + 1) - 1) : k = at
    BY <1>1
  <2>3. AtPlace(at + 1, line', column')
    <3>1. CASE Char(at) = "newline"
      <4>1. line' = line + 1 /\ column' = 1
        BY <1>2, <3>1 DEF SkipBlank
      <4> QED
        BY <1>1, <3>1, <4>1, NewlineStartsLine
    <3>2. CASE Char(at) # "newline"
      <4>1. line' = line /\ column' = column + ((at + 1) - at)
        BY <1>1, <1>2, <3>2 DEF SkipBlank
      <4> QED
        BY <1>1, <2>2, <3>2, <4>1, AdvanceKeepsPlace
    <3> QED
      BY <3>1, <3>2
  <2>4. \A k \in at..((at + 1) - 1) : Skipped(k)
    BY <2>1, <2>2 DEF Skipped
  <2> QED
    BY <1>1, <2>1, <2>3, <2>4, SkipKeepsInv
<1>3. CASE SkipComment
  <2>1. PICK to \in at..(Len(text) + 1) :
          /\ \A i \in at..(to - 1) : Char(i) \notin {"nul", "newline"}
          /\ Advance(to)
    BY <1>3 DEF SkipComment
  <2>2. at' = to /\ line' = line /\ column' = column + (to - at) /\ to \in Nat /\ at <= to
    BY <1>1, <2>1 DEF Advance
  <2>3. AtPlace(to, line', column')
    <3>1. \A k \in at..(to - 1) : Char(k) # "newline"
      BY <2>1
    <3> QED
      BY <1>1, <2>2, <3>1, AdvanceKeepsPlace
  <2>4. \A k \in at..(to - 1) : Skipped(k)
    <3>1. IsComment
      BY <1>3 DEF SkipComment
    <3> SUFFICES ASSUME NEW k \in at..(to - 1) PROVE Commented(k)
      BY DEF Skipped
    <3>2. at \in 1..k /\ \A i \in at..k : i \in at..(to - 1)
      BY <1>1, <2>2
    <3>3. \A i \in at..k : Char(i) # "newline"
      BY <2>1, <3>2
    <3> QED
      BY <3>1, <3>2, <3>3 DEF Commented, IsComment
  <2> QED
    BY <1>1, <2>1, <2>2, <2>3, <2>4, SkipKeepsInv
<1> QED
  BY <1>2, <1>3

\* An exception leaves all but the outcome.
LEMMA UnchangedKeepsInv ==
  ASSUME LexerInv, UNCHANGED <<text, at, line, column, open, spans>>
  PROVE  LexerInv'
<1>1. \A i : TokenEnd(i)' = TokenEnd(i)
  BY DEF TokenEnd
<1>2. \A i \in 1..Len(spans) : SpanFits(TokenEnd(i - 1), spans[i])'
  BY <1>1, TextStays DEF LexerInv
<1>3. AtPlace(at, line, column)'
  BY TextStays DEF LexerInv
<1>4. TokenEnd(Len(spans))' = TokenEnd(Len(spans))
  BY <1>1
<1>5. (open = 0 => /\ TokenEnd(Len(spans)) <= at
                   /\ \A k \in TokenEnd(Len(spans))..(at - 1) : Skipped(k))'
  BY <1>4, TextStays DEF LexerInv
<1> QED
  BY <1>2, <1>3, <1>5 DEF LexerInv

\* A character within a string.
LEMMA WithinStringKeepsInv ==
  ASSUME LexerInv, open # 0, NEW to \in at..(Len(text) + 1), at' = to,
         UNCHANGED <<text, open, spans>>, AtPlace(to, line', column')
  PROVE  LexerInv'
<1>1. \A i : TokenEnd(i)' = TokenEnd(i)
  BY DEF TokenEnd
<1>2. \A i \in 1..Len(spans) : SpanFits(TokenEnd(i - 1), spans[i])'
  BY <1>1, TextStays DEF LexerInv
<1>3. AtPlace(at, line, column)'
  BY TextStays
<1>4. at' \in 1..(Len(text') + 1) /\ open < at'
  BY DEF LexerInv
<1> QED
  BY <1>2, <1>3, <1>4 DEF LexerInv

\* Names and variables.
LEMMA WordsKeepInv ==
  ASSUME LexerInv, ScanVariable \/ ScanIdentifier
  PROVE  LexerInv'
<1>1. open = 0 /\ at \in 1..Len(text) /\ Len(text) \in Nat /\ text \in Seq(Characters)
  BY DEF LexerInv, ScanVariable, ScanIdentifier, Lexeme
<1>2. ASSUME NEW i \in at..Len(text), \A k \in at..(i - 1) : Char(k) # "newline"
      PROVE  /\ RunEnd(WordCharacters, i) \in at..(Len(text) + 1)
             /\ \A k \in at..(RunEnd(WordCharacters, i) - 1) : Char(k) # "newline"
  <2> DEFINE to == RunEnd(WordCharacters, i)
  <2>1. i \in 1..(Len(text) + 1) /\ i \in Nat
    BY <1>1
  <2>2. to \in i..(Len(text) + 1) /\ \A k \in i..(to - 1) : Char(k) \in WordCharacters
    BY <1>1, <2>1, RunFacts, CharacterSets
  <2> HIDE DEF to
  <2>3. \A k \in at..(to - 1) : k \in at..(i - 1) \/ k \in i..(to - 1)
    BY <1>1, <2>1, <2>2
  <2>4. to \in at..(Len(text) + 1)
    BY <1>1, <2>1, <2>2
  <2> QED
    BY <1>2, <2>2, <2>3, <2>4, CharacterSets DEF to
<1>3. CASE ScanVariable
  <2>1. CASE Char(at + 1) \in Identifiers
    <3>1. at + 1 \in 1..Len(text)
      BY <1>1, <2>1, CharFacts, CharacterSets
    <3>2. Push("variable", RunEnd(WordCharacters, at + 1))
      BY <1>3, <2>1 DEF ScanVariable
    <3>3. \A k \in at..((at + 1) - 1) : k = at
      BY <1>1
    <3>4. Char(at) # "newline"
      BY <1>3 DEF ScanVariable, Lexeme
    <3>5. Char(at + 1) # "newline" /\ at + 1 \in at..Len(text)
      BY <1>1, <2>1, <3>1, CharacterSets
    <3> QED
      BY <1>1, <1>2, <3>2, <3>3, <3>4, <3>5, PushKeepsInv
  <2>2. CASE Char(at + 1) \notin Identifiers
    BY <1>3, <2>2, UnchangedKeepsInv DEF ScanVariable, Throw
  <2> QED
    BY <2>1, <2>2
<1>4. CASE ScanIdentifier
  <2>1. PICK kind : Push(kind, RunEnd(WordCharacters, at))
    BY <1>4 DEF ScanIdentifier
  <2>2. \A k : ~(k \in at..(at - 1))
    BY <1>1
  <2> QED
    BY <1>1, <1>2, <2>1, <2>2, PushKeepsInv
<1> QED
  BY <1>3, <1>4

\* An integer, or one that no 64 bits hold.
LEMMA IntegerKeepsInv ==
  ASSUME LexerInv, open = 0, NEW from, NEW to \in at..(Len(text) + 1), PushInteger(from, to),
         \A k \in at..(to - 1) : Char(k) # "newline"
  PROVE  LexerInv'
<1>1. Throw("rejected") \/ \E kind : Push(kind, to)
  BY DEF PushInteger
<1> QED
  BY <1>1, PushKeepsInv, UnchangedKeepsInv DEF Throw

\* A number in hexadecimal.
LEMMA HexadecimalKeepsInv ==
  ASSUME LexerInv, ScanHexadecimal
  PROVE  LexerInv'
<1> DEFINE to == RunEnd(HexDigits, at + 2)
<1>1. /\ open = 0 /\ at \in Nat \ {0} /\ Len(text) \in Nat /\ text \in Seq(Characters)
      /\ Char(at) = "0" /\ Char(at + 1) = "x"
  BY DEF LexerInv, ScanHexadecimal, Lexeme
<1>2. at + 1 \in 1..Len(text)
  BY <1>1, CharFacts
<1>3. at + 2 \in 1..(Len(text) + 1)
  BY <1>1, <1>2
<1>4. to \in (at + 2)..(Len(text) + 1) /\ \A k \in (at + 2)..(to - 1) : Char(k) \in HexDigits
  BY <1>1, <1>3, RunFacts, CharacterSets
<1>5. Throw("rejected") \/ PushInteger(at + 2, to)
  BY DEF ScanHexadecimal
<1> HIDE DEF to
<1>6. to \in at..(Len(text) + 1)
  BY <1>1, <1>4
<1>7. \A k \in at..(to - 1) : k = at \/ k = at + 1 \/ k \in (at + 2)..(to - 1)
  BY <1>1, <1>4
<1>8. \A k \in at..(to - 1) : Char(k) # "newline"
  BY <1>1, <1>4, <1>7, CharacterSets
<1> QED
  BY <1>1, <1>5, <1>6, <1>8, IntegerKeepsInv, UnchangedKeepsInv DEF Throw

\* Runs of characters that are no newlines, one behind the other.
LEMMA JoinRuns ==
  ASSUME NEW i \in Nat, NEW j \in Nat, NEW m \in Nat, i <= j, j <= m,
         \A k \in i..(j - 1) : Char(k) # "newline",
         \A k \in j..(m - 1) : Char(k) # "newline"
  PROVE  \A k \in i..(m - 1) : Char(k) # "newline"
<1>1. \A k \in i..(m - 1) : k \in i..(j - 1) \/ k \in j..(m - 1)
  OBVIOUS
<1> QED
  BY <1>1

\* A number with or without a fraction and an exponent.
LEMMA DecimalKeepsInv ==
  ASSUME LexerInv, ScanDecimal
  PROVE  LexerInv'
<1> DEFINE NoNewline(i, j) == \A k \in i..(j - 1) : Char(k) # "newline"
           end == Len(text) + 1
<1>1. /\ open = 0 /\ at \in Nat \ {0} /\ at <= Len(text) /\ Len(text) \in Nat
      /\ text \in Seq(Characters)
  BY DEF LexerInv, ScanDecimal, Lexeme
<1>2. ASSUME NEW i \in 1..end
      PROVE  RunEnd(Digits, i) \in i..end /\ NoNewline(i, RunEnd(Digits, i))
  BY <1>1, <1>2, RunFacts, CharacterSets
<1>3. PICK whole \in at..end : whole = RunEnd(Digits, at) /\ NoNewline(at, whole)
  <2>1. at \in 1..end
    BY <1>1
  <2> QED
    BY <1>2, <2>1
<1>4. \A i \in Nat : Char(i) # "nul" => i + 1 \in 1..end
  BY <1>1, CharFacts
<1>5. PICK fraction \in whole..end :
        /\ fraction = (IF Char(whole) = "." THEN RunEnd(Digits, whole + 1) ELSE whole)
        /\ NoNewline(whole, fraction)
  <2>1. CASE Char(whole) = "."
    <3> DEFINE f == RunEnd(Digits, whole + 1)
    <3>1. whole + 1 \in 1..end
      BY <1>1, <1>3, <1>4, <2>1
    <3>2. f \in (whole + 1)..end /\ NoNewline(whole + 1, f)
      BY <1>2, <3>1
    <3>3. NoNewline(whole, whole + 1)
      <4>1. \A k \in whole..((whole + 1) - 1) : k = whole
        BY <1>1, <1>3
      <4> QED
        BY <2>1, <4>1
    <3> HIDE DEF f
    <3>4. whole \in Nat /\ f \in Nat /\ whole <= whole + 1 /\ whole + 1 <= f /\ f \in whole..end
      BY <1>1, <1>3, <3>2
    <3>5. NoNewline(whole, f)
      BY <3>2, <3>3, <3>4, JoinRuns
    <3> QED
      BY <2>1, <3>4, <3>5 DEF f
  <2>2. CASE Char(whole) # "."
    <3>1. whole \in whole..end /\ \A k : ~(k \in whole..(whole - 1))
      BY <1>1, <1>3
    <3> QED
      BY <2>2, <3>1
  <2> QED
    BY <2>1, <2>2
<1>6. PICK sign \in {0, 1} :
        /\ sign = (IF Char(fraction + 1) \in {"+", "-"} THEN 1 ELSE 0)
        /\ sign = 1 => Char(fraction + 1) \in {"+", "-"}
  OBVIOUS
<1>7. PICK exponent \in fraction..end :
        /\ exponent = (IF Char(fraction) = "e" THEN RunEnd(Digits, fraction + 1 + sign) ELSE fraction)
        /\ NoNewline(fraction, exponent)
  <2>1. fraction \in Nat
    BY <1>1, <1>3, <1>5
  <2>2. CASE Char(fraction) = "e"
    <3> DEFINE i == fraction + 1 + sign
               x == RunEnd(Digits, i)
    <3>1. fraction + 1 \in 1..end
      BY <1>4, <2>1, <2>2
    <3>2. i \in 1..end
      <4>1. CASE sign = 0
        BY <3>1, <4>1
      <4>2. CASE sign = 1
        <5>1. fraction + 1 \in Nat /\ Char(fraction + 1) # "nul"
          BY <1>6, <2>1, <4>2
        <5> QED
          BY <1>4, <4>2, <5>1
      <4> QED
        BY <4>1, <4>2
    <3>3. x \in i..end /\ NoNewline(i, x)
      BY <1>2, <3>2
    <3>4. NoNewline(fraction, i)
      <4>1. \A k \in fraction..(i - 1) : k = fraction \/ (sign = 1 /\ k = fraction + 1)
        BY <2>1
      <4> QED
        BY <1>6, <2>2, <4>1
    <3>5. i \in Nat /\ fraction <= i
      BY <2>1
    <3> HIDE DEF i
    <3>6. x \in Nat /\ i <= x /\ x \in fraction..end
      BY <1>1, <2>1, <3>3, <3>5
    <3>7. NoNewline(fraction, x)
      BY <2>1, <3>3, <3>4, <3>5, <3>6, JoinRuns
    <3> QED
      BY <2>2, <3>6, <3>7 DEF i
  <2>3. CASE Char(fraction) # "e"
    <3>1. fraction \in fraction..end /\ \A k : ~(k \in fraction..(fraction - 1))
      BY <1>1, <1>5, <2>1
    <3> QED
      BY <2>3, <3>1
  <2> QED
    BY <2>2, <2>3
<1>8. PICK to \in exponent..end :
        /\ to = (IF Char(exponent) = "f" THEN exponent + 1 ELSE exponent)
        /\ NoNewline(exponent, to)
  <2>1. exponent \in Nat
    BY <1>1, <1>3, <1>5, <1>7
  <2>2. CASE Char(exponent) = "f"
    <3>1. exponent + 1 \in exponent..end
      BY <1>1, <1>4, <2>1, <2>2
    <3>2. \A k \in exponent..((exponent + 1) - 1) : k = exponent
      BY <2>1
    <3> QED
      BY <2>2, <3>1, <3>2
  <2>3. CASE Char(exponent) # "f"
    <3>1. exponent \in exponent..end /\ \A k : ~(k \in exponent..(exponent - 1))
      BY <1>1, <1>7, <2>1
    <3> QED
      BY <2>3, <3>1
  <2> QED
    BY <2>2, <2>3
<1>9. /\ at \in Nat /\ whole \in Nat /\ fraction \in Nat /\ exponent \in Nat /\ to \in Nat
      /\ at <= whole /\ whole <= fraction /\ fraction <= exponent /\ exponent <= to
      /\ at <= fraction /\ at <= exponent /\ to \in at..end
  <2>1. at \in Nat /\ whole \in Nat /\ at <= whole
    BY <1>1, <1>3
  <2>2. fraction \in Nat /\ whole <= fraction
    BY <1>1, <1>5, <2>1
  <2>3. exponent \in Nat /\ fraction <= exponent
    BY <1>1, <1>7, <2>2
  <2>4. to \in Nat /\ exponent <= to /\ to <= end
    BY <1>1, <1>8, <2>3
  <2> HIDE DEF end
  <2>5. at <= fraction /\ at <= exponent /\ at <= to
    BY <2>1, <2>2, <2>3, <2>4
  <2> QED
    BY <2>1, <2>2, <2>3, <2>4, <2>5 DEF end
<1>10. \A k \in at..(to - 1) : Char(k) # "newline"
  <2>1. NoNewline(at, fraction)
    BY <1>3, <1>5, <1>9, JoinRuns
  <2>2. NoNewline(at, exponent)
    BY <1>7, <1>9, <2>1, JoinRuns
  <2>3. NoNewline(at, to)
    BY <1>8, <1>9, <2>2, JoinRuns
  <2> QED
    BY <2>3
<1>11. Throw("rejected") \/ PushInteger(at, to) \/ Push("float", to)
  BY <1>3, <1>5, <1>6, <1>7, <1>8 DEF ScanDecimal
<1> QED
  BY <1>1, <1>9, <1>10, <1>11, PushKeepsInv, IntegerKeepsInv, UnchangedKeepsInv DEF Throw

\* Operators of one character and of two.
LEMMA OperatorKeepsInv ==
  ASSUME LexerInv, ScanOperator
  PROVE  LexerInv'
<1>1. open = 0 /\ at \in 1..Len(text) /\ Len(text) \in Nat /\ Char(at) # "newline"
  BY CharacterSets DEF LexerInv, ScanOperator, Lexeme
<1>2. \A p, a, b, c : p = <<a, b, c>> => p[2] = b
  OBVIOUS
<1>3. \A p \in Pairs : p[2] \in {"=", "&", "|", "<", ">"}
  BY Zenon, <1>2 DEF Pairs
<1>4. \/ \E kind : Push(kind, at + 1)
      \/ /\ \E kind : Push(kind, at + 2)
         /\ Char(at + 1) \in {"=", "&", "|", "<", ">"}
  <2> DEFINE two == {p \in Pairs : p[1] = Char(at) /\ p[2] = Char(at + 1)}
  <2>1. CASE two = {}
    BY <2>1 DEF ScanOperator
  <2>2. CASE two # {}
    <3>1. Char(at + 1) \in {"=", "&", "|", "<", ">"}
      BY <1>3, <2>2
    <3>2. Push((CHOOSE p \in two : TRUE)[3], at + 2)
      BY <2>2 DEF ScanOperator
    <3> QED
      BY <3>1, <3>2
  <2> QED
    BY <2>1, <2>2
<1>5. CASE \E kind : Push(kind, at + 1)
  <2>1. at + 1 \in at..(Len(text) + 1) /\ \A k \in at..((at + 1) - 1) : k = at
    BY <1>1
  <2> QED
    BY <1>1, <1>5, <2>1, PushKeepsInv
<1>6. CASE (\E kind : Push(kind, at + 2)) /\ Char(at + 1) \in {"=", "&", "|", "<", ">"}
  <2>1. at + 1 \in 1..Len(text) /\ Char(at + 1) # "newline"
    BY <1>1, <1>6, CharFacts
  <2>2. at + 2 \in at..(Len(text) + 1) /\ \A k \in at..((at + 2) - 1) : k = at \/ k = at + 1
    BY <1>1, <2>1
  <2> QED
    BY <1>1, <1>6, <2>1, <2>2, PushKeepsInv
<1> QED
  BY <1>4, <1>5, <1>6

\* A string starts.
LEMMA OpenStringKeepsInv ==
  ASSUME LexerInv, OpenString
  PROVE  LexerInv'
<1>1. /\ open = 0 /\ open' = at /\ at' = at + 1 /\ text' = text /\ line' = line
      /\ column' = column + ((at + 1) - at) /\ at \in 1..Len(text) /\ Char(at) = "quote"
      /\ spans' = Append(spans, [start |-> at, length |-> 0, line |-> line, column |-> column])
      /\ text \in Seq(Characters) /\ Len(text) \in Nat
  BY DEF LexerInv, OpenString, Lexeme, Advance
<1>2. AtPlace(at, line, column)'
  <2>1. \A k \in at..((at + 1) - 1) : k = at
    BY <1>1
  <2>2. AtPlace(at + 1, line, column + ((at + 1) - at))
    BY <1>1, <2>1, AdvanceKeepsPlace DEF LexerInv
  <2> QED
    BY <1>1, <2>2, TextStays
<1>3. at' \in 1..(Len(text') + 1) /\ open' \in Nat /\ open' # 0 /\ open' < at'
  BY <1>1
<1> DEFINE new == [start |-> at, length |-> at - at, line |-> line, column |-> column]
<1>4. spans' = Append(spans, new) /\ at \in at..(Len(text) + 1)
  BY <1>1
<1>5. /\ spans' \in Seq(Spans) /\ spans' # <<>> /\ spans'[Len(spans')] = new
      /\ (\A i \in 1..Len(spans) : SpanFits(TokenEnd(i - 1), spans[i]))'
  BY <1>1, <1>4, AppendSpan
<1>6. spans'[Len(spans')].start = open' /\ spans'[Len(spans')].length = 0
  BY <1>1, <1>5
<1> QED
  BY <1>1, <1>2, <1>3, <1>5, <1>6 DEF LexerInv

\* The end of the input is a token.
LEMMA EndOfTextKeepsInv ==
  ASSUME LexerInv, EndOfText
  PROVE  LexerInv'
<1>1. /\ open = 0 /\ UNCHANGED <<text, at, line, column, open>>
      /\ spans' = Append(spans, [start |-> at, length |-> 0, line |-> line, column |-> column])
      /\ text \in Seq(Characters) /\ Len(text) \in Nat /\ at \in 1..(Len(text) + 1)
  BY DEF LexerInv, EndOfText
<1>2. AtPlace(at, line, column)'
  BY <1>1, TextStays DEF LexerInv
<1>3. /\ spans' \in Seq(Spans) /\ TokenEnd(Len(spans))' = at
      /\ (\A i \in 1..Len(spans) : SpanFits(TokenEnd(i - 1), spans[i]))'
  <2> DEFINE new == [start |-> at, length |-> at - at, line |-> line, column |-> column]
  <2>1. spans' = Append(spans, new) /\ at \in at..(Len(text) + 1)
    BY <1>1
  <2> QED
    BY <1>1, <2>1, AppendSpan
<1>4. TokenEnd(Len(spans))' <= at'
  BY <1>1, <1>3
<1>5. (\A k \in TokenEnd(Len(spans))..(at - 1) : Skipped(k))'
  <2>1. \A k : ~(k \in at..(at - 1))
    BY <1>1
  <2> QED
    BY <1>1, <1>3, <2>1
<1> QED
  BY <1>1, <1>2, <1>3, <1>4, <1>5 DEF LexerInv

\* Within a string, and where it ends in an error.
LEMMA StringKeepsInv ==
  ASSUME LexerInv, StringCharacter \/ StringEscape
  PROVE  LexerInv'
<1>1. /\ open # 0 /\ at \in Nat \ {0} /\ Len(text) \in Nat /\ text \in Seq(Characters)
      /\ AtPlace(at, line, column)
  BY DEF LexerInv, StringCharacter, StringEscape, InString
<1>2. \A k \in at..((at + 1) - 1) : k = at
  BY <1>1
<1>3. CASE StringCharacter
  <2>1. at' = at + 1 /\ at + 1 \in at..(Len(text) + 1) /\ UNCHANGED <<text, open, spans>>
    BY <1>1, <1>3, CharFacts DEF StringCharacter
  <2>2. AtPlace(at + 1, line', column')
    <3>1. CASE Char(at) = "newline"
      <4>1. line' = line + 1 /\ column' = 1
        BY <1>3, <3>1 DEF StringCharacter
      <4> QED
        BY <1>1, <3>1, <4>1, NewlineStartsLine
    <3>2. CASE Char(at) # "newline"
      <4>1. line' = line /\ column' = column + ((at + 1) - at)
        BY <1>1, <1>3, <3>2 DEF StringCharacter, LexerInv, AtPlace
      <4> QED
        BY <1>1, <1>2, <3>2, <4>1, AdvanceKeepsPlace
    <3> QED
      BY <3>1, <3>2
  <2> QED
    BY <1>1, <2>1, <2>2, WithinStringKeepsInv
<1>4. CASE StringEscape
  <2>1. Char(at) = "backslash" /\ at \in 1..Len(text)
    BY <1>1, <1>4, CharFacts DEF StringEscape
  <2>2. CASE \E e \in {"incomplete", "rejected"} : Throw(e)
    BY <2>2, UnchangedKeepsInv DEF Throw
  <2>3. CASE /\ Char(at + 1) # "nul"
             /\ Char(at + 1) = "x" => Char(at + 2) \in HexDigits /\ Char(at + 3) \in HexDigits
             /\ at' = at + (IF Char(at + 1) = "x" THEN 4 ELSE 2)
             /\ IF Char(at + 1) = "newline" THEN line' = line + 1 /\ column' = 1
                                            ELSE column' = column + (at' - at) /\ UNCHANGED line
             /\ UNCHANGED <<text, open, tokens, spans, outcome>>
    <3>1. at + 1 \in 1..Len(text)
      BY <1>1, <2>3, CharFacts
    <3>2. \A k \in at..((at + 2) - 1) : k = at \/ k = at + 1
      BY <1>1
    <3>3. CASE Char(at + 1) = "newline"
      <4>1. at' = at + 2 /\ line' = line + 1 /\ column' = 1 /\ (at + 1) + 1 = at + 2
        BY <1>1, <2>3, <3>3
      <4>2. AtPlace(at + 1, line, column + ((at + 1) - at))
        BY <1>1, <1>2, <2>1, AdvanceKeepsPlace
      <4>3. AtPlace((at + 1) + 1, line + 1, 1)
        BY <1>1, <3>3, <4>2, NewlineStartsLine
      <4>4. at + 2 \in at..(Len(text) + 1)
        BY <1>1, <3>1
      <4> QED
        BY <1>1, <2>3, <4>1, <4>3, <4>4, WithinStringKeepsInv
    <3>4. CASE Char(at + 1) = "x"
      <4>1. /\ at' = at + 4 /\ line' = line /\ column' = column + ((at + 4) - at)
            /\ Char(at + 2) \in WordCharacters /\ Char(at + 3) \in WordCharacters
        BY <2>3, <3>4, CharacterSets
      <4>2. at + 3 \in 1..Len(text)
        BY <1>1, <4>1, CharacterSets, CharFacts
      <4>3. \A k \in at..((at + 4) - 1) : k \in {at, at + 1, at + 2, at + 3}
        BY <1>1
      <4>4. \A k \in at..((at + 4) - 1) : Char(k) # "newline"
        BY <2>1, <3>4, <4>1, <4>3, CharacterSets
      <4>5. at + 4 \in at..(Len(text) + 1) /\ at + 4 \in Nat /\ at <= at + 4
        BY <1>1, <4>2
      <4>6. AtPlace(at + 4, line, column + ((at + 4) - at))
        BY <1>1, <4>4, <4>5, AdvanceKeepsPlace
      <4> QED
        BY <1>1, <2>3, <4>1, <4>5, <4>6, WithinStringKeepsInv
    <3>5. CASE Char(at + 1) \notin {"x", "newline"}
      <4>1. at' = at + 2 /\ line' = line /\ column' = column + ((at + 2) - at)
        BY <2>3, <3>5
      <4>2. at + 2 \in at..(Len(text) + 1) /\ at + 2 \in Nat /\ at <= at + 2
        BY <1>1, <3>1
      <4>3. AtPlace(at + 2, line, column + ((at + 2) - at))
        BY <1>1, <2>1, <3>2, <3>5, <4>2, AdvanceKeepsPlace
      <4> QED
        BY <1>1, <2>3, <4>1, <4>2, <4>3, WithinStringKeepsInv
    <3> QED
      BY <3>3, <3>4, <3>5
  <2> QED
    BY <1>4, <2>2, <2>3 DEF StringEscape
<1> QED
  BY <1>3, <1>4

\* A string ends, and its token has its length.
LEMMA CloseStringKeepsInv ==
  ASSUME LexerInv, CloseString
  PROVE  LexerInv'
<1> DEFINE n == Len(spans)
           old == spans[Len(spans)]
           new == [old EXCEPT !.length = at + 1 - open]
<1>1. /\ open # 0 /\ open' = 0 /\ at' = at + 1 /\ text' = text /\ line' = line
      /\ column' = column + ((at + 1) - at) /\ at \in Nat \ {0} /\ Char(at) = "quote"
      /\ spans' = [spans EXCEPT ![Len(spans)].length = at + 1 - open]
      /\ text \in Seq(Characters) /\ Len(text) \in Nat /\ open \in Nat /\ open < at
      /\ spans \in Seq(Spans) /\ spans # <<>> /\ old.start = open /\ old.length = 0
      /\ AtPlace(at, line, column)
  BY DEF LexerInv, CloseString, InString, Advance
<1>2. at \in 1..Len(text)
  BY <1>1, CharFacts
<1>3. n \in 1..Len(spans) /\ n \in Nat /\ old \in Spans
  BY <1>1
<1>4. /\ new \in Spans /\ new.start = open /\ new.length = at + 1 - open
      /\ new.line = old.line /\ new.column = old.column
  <2>1. \A o \in Spans, l \in Nat :
          LET r == [o EXCEPT !.length = l]
          IN /\ r \in Spans /\ r.start = o.start /\ r.length = l
             /\ r.line = o.line /\ r.column = o.column
    BY DEF Spans
  <2>2. at + 1 - open \in Nat
    BY <1>1
  <2> QED
    BY <1>1, <1>3, <2>1, <2>2
<1>5. spans' = [spans EXCEPT ![n] = new]
  BY <1>1
<1> HIDE DEF new
<1>6. /\ spans' \in Seq(Spans) /\ Len(spans') = Len(spans) /\ spans'[n] = new
      /\ \A i \in 1..(n - 1) : spans'[i] = spans[i]
  <2> HIDE DEF n, old
  <2>1. [spans EXCEPT ![n] = new] \in Seq(Spans) /\ Len([spans EXCEPT ![n] = new]) = Len(spans)
    BY <1>1, <1>3, <1>4, ExceptSeq
  <2>2. \A j \in 1..Len(spans) : [spans EXCEPT ![n] = new][j] = IF j = n THEN new ELSE spans[j]
    BY <1>1, <1>3, <1>4, ExceptSeq
  <2>3. \A i \in 1..(n - 1) : i \in 1..Len(spans) /\ i # n
    BY <1>3
  <2> QED
    BY <1>3, <1>5, <2>1, <2>2, <2>3
<1>7. \A i \in 0..(n - 1) : TokenEnd(i)' = TokenEnd(i)
  <2> SUFFICES ASSUME NEW i \in 0..(n - 1) PROVE TokenEnd(i)' = TokenEnd(i)
    OBVIOUS
  <2>1. i = 0 \/ spans'[i] = spans[i]
    BY <1>3, <1>6
  <2> QED
    BY <2>1 DEF TokenEnd
<1>8. \A e : SpanFits(e, old) => SpanFits(e, new)
  <2>1. open + (at + 1 - open) <= Len(text) + 1
    BY <1>1, <1>2
  <2> QED
    BY <1>1, <1>4, <2>1 DEF SpanFits
<1>9. \A i \in 1..Len(spans') : SpanFits(TokenEnd(i - 1), spans[i])'
  <2> SUFFICES ASSUME NEW i \in 1..Len(spans') PROVE SpanFits(TokenEnd(i - 1), spans[i])'
    OBVIOUS
  <2>1. i \in 1..Len(spans) /\ i - 1 \in 0..(n - 1)
    BY <1>3, <1>6
  <2>2. SpanFits(TokenEnd(i - 1), spans[i])
    BY <2>1 DEF LexerInv
  <2>3. SpanFits(TokenEnd(i - 1), spans'[i])
    <3>1. CASE i = n
      BY <1>6, <1>8, <2>2, <3>1
    <3>2. CASE i \in 1..(n - 1)
      BY <1>6, <2>2, <3>2
    <3> QED
      BY <1>3, <2>1, <3>1, <3>2
  <2> QED
    BY <1>1, <1>7, <2>1, <2>3, TextStays
<1>10. TokenEnd(Len(spans))' = at + 1
  <2>1. Len(spans') # 0 /\ open + (at + 1 - open) = at + 1
    BY <1>1, <1>3, <1>6
  <2>2. spans'[Len(spans')].start = open /\ spans'[Len(spans')].length = at + 1 - open
    BY <1>4, <1>6
  <2> QED
    BY <2>1, <2>2 DEF TokenEnd
<1>11. AtPlace(at, line, column)'
  <2>1. at + 1 \in Nat /\ at <= at + 1 /\ \A k \in at..((at + 1) - 1) : k = at
    BY <1>1
  <2>2. \A k \in at..((at + 1) - 1) : Char(k) # "newline"
    BY <1>1, <2>1
  <2>3. AtPlace(at + 1, line, column + ((at + 1) - at))
    BY <1>1, <2>1, <2>2, AdvanceKeepsPlace
  <2> QED
    BY <1>1, <2>3, TextStays
<1>12. at' \in 1..(Len(text') + 1) /\ open' \in Nat
  BY <1>1, <1>2
<1>13. TokenEnd(Len(spans))' <= at'
  BY <1>1, <1>10
<1>14. (\A k \in TokenEnd(Len(spans))..(at - 1) : Skipped(k))'
  <2>1. \A k : ~(k \in (at + 1)..((at + 1) - 1))
    BY <1>1
  <2> QED
    BY <1>1, <1>10, <2>1
<1> QED
  BY <1>1, <1>6, <1>9, <1>11, <1>12, <1>13, <1>14 DEF LexerInv

\* One case for each lexeme.
LEMMA ScanKeepsSpans ==
  ASSUME LexerInv, Scan
  PROVE  LexerInv'
<1>1. CASE UnterminatedString \/ UnexpectedCharacter
  BY <1>1, UnchangedKeepsInv DEF UnterminatedString, UnexpectedCharacter, Throw
<1> QED
  BY <1>1, SkippingKeepsInv, WordsKeepInv, HexadecimalKeepsInv, DecimalKeepsInv,
     OpenStringKeepsInv, StringKeepsInv, CloseStringKeepsInv, OperatorKeepsInv,
     EndOfTextKeepsInv DEF Scan

\* A text that has not been read.
LEMMA RestartGivesSpans ==
  ASSUME NEW source \in Seq(Characters), Restart(source)
  PROVE  LexerInv'
<1>1. /\ text' = source /\ at' = 1 /\ line' = 1 /\ column' = 1 /\ open' = 0 /\ spans' = <<>>
  BY DEF Restart
<1>2. (NewlinesBefore(at) = {})'
  BY <1>1 DEF NewlinesBefore
<1>3. AtPlace(at, line, column)'
  <2>1. (AtColumn(at, column))'
    BY <1>1 DEF AtColumn
  <2>2. Cardinality(NewlinesBefore(at)') = 0
    BY <1>2, FS_EmptySet
  <2> QED
    BY <1>1, <2>1, <2>2 DEF AtPlace
<1>4. TokenEnd(Len(spans))' = 1
  BY <1>1 DEF TokenEnd
<1>5. Len(source) \in Nat
  OBVIOUS
<1>6. (open = 0 => /\ TokenEnd(Len(spans)) <= at
                   /\ \A k \in TokenEnd(Len(spans))..(at - 1) : Skipped(k))'
  BY <1>1, <1>4
<1> QED
  BY <1>1, <1>3, <1>5, <1>6 DEF LexerInv

\* A line that is typed is a text, which ends before the next one starts.
LEMMA LineFacts ==
  ASSUME NEW source \in Seq(Characters), script.text = source,
         next \in Nat \ {0}, next <= Len(source)
  PROVE  /\ LineEnd(next) \in next..(Len(source) + 1)
         /\ SubSeq(source, next, LineEnd(next) - 1) \in Seq(Characters)
<1> DEFINE Ends == {j \in next..(Len(source) + 1) : j > Len(source) \/ source[j] = "newline"}
<1>1. Len(source) \in Nat
  OBVIOUS
<1>2. Len(source) + 1 \in Ends /\ Ends \in SUBSET Nat
  BY <1>1
<1>3. PICK j \in Ends : \A y \in Ends : j <= y
  BY <1>2, LeastNumber
<1>4. \A k \in next..(j - 1) : k \in next..(Len(source) + 1) /\ ~(j <= k)
  BY <1>1, <1>3
<1>5. \E m \in next..(Len(source) + 1) :
        /\ m > Len(source) \/ source[m] = "newline"
        /\ \A k \in next..(m - 1) : source[k] # "newline"
  BY <1>3, <1>4
<1>6. LineEnd(next) \in next..(Len(source) + 1)
  BY <1>5, Zenon DEF LineEnd
<1>7. \A k \in next..(LineEnd(next) - 1) : k \in 1..Len(source)
  BY <1>1, <1>6
<1>8. \A k \in next..(LineEnd(next) - 1) : source[k] \in Characters
  BY <1>7
<1>9. LineEnd(next) - 1 \in Int /\ next \in Int /\ LineEnd(next) - 1 >= next - 1
  BY <1>1, <1>6
<1>10. SubSeq(source, next, LineEnd(next) - 1) \in Seq(Characters)
  BY <1>1, <1>6, <1>7, <1>8, SubSeqProperties
<1> QED
  BY <1>6, <1>10

SpansInv == LexerInv /\ script \in Scripts /\ next \in Nat \ {0}

-----------------------------------------------------------------------------
\* For every source, given at once or line by line: the tokens lie one after the
\* other in the text that is parsed, nothing but blanks and comments lies between
\* them, and the line and the column of a token are those of its first character.
THEOREM SpansAlwaysPointIntoTheText == Spec => []SpansPointIntoTheText
<1>1. Init => SpansInv
  <2> SUFFICES ASSUME Init PROVE LexerInv /\ script \in Scripts /\ next \in Nat \ {0}
    BY DEF SpansInv
  <2>1. /\ text = <<>> /\ at = 1 /\ line = 1 /\ column = 1 /\ open = 0 /\ spans = <<>>
        /\ next = 1 /\ script \in Scripts
    BY DEF Init, NotStarted
  <2>2. NewlinesBefore(1) = {} /\ AtColumn(1, 1)
    BY DEF NewlinesBefore, AtColumn
  <2>3. AtPlace(at, line, column)
    BY <2>1, <2>2, FS_EmptySet DEF AtPlace
  <2>4. TokenEnd(Len(spans)) = 1
    BY <2>1 DEF TokenEnd
  <2> QED
    BY <2>1, <2>3, <2>4 DEF LexerInv
<1>2. SpansInv /\ [Next]_vars => SpansInv'
  <2> SUFFICES ASSUME SpansInv, [Next]_vars PROVE SpansInv'
    OBVIOUS
  <2>1. ASSUME UNCHANGED <<text, at, line, column, open, spans, script, next>>
        PROVE  SpansInv'
    BY <2>1, UnchangedKeepsInv DEF SpansInv
  <2>2. script.text \in Seq(Characters) /\ text \in Seq(Characters)
    BY ScriptsAreTexts DEF SpansInv, LexerInv
  <2>3. CASE ReadArgument \/ Help \/ MissingValue \/ NotOneMode \/ CannotReadFile
    BY <2>1, <2>3 DEF ReadArgument, Help, MissingValue, NotOneMode, CannotReadFile, Exit, lexerVars
  <2>4. CASE CheckAndExecute \/ ThrowDiagnostic \/ ThrowIncomplete \/ Quit \/ Finish \/ EndOfInput
    BY <2>1, <2>4
       DEF CheckAndExecute, ThrowDiagnostic, ThrowIncomplete, Quit, Finish, EndOfInput, Exit, lexerVars
  <2>5. CASE StartMode
    <3>1. script' = script /\ next' = next
      BY <2>5 DEF StartMode
    <3>2. CASE UNCHANGED lexerVars
      BY <2>1, <3>1, <3>2 DEF lexerVars
    <3>3. CASE Restart(script.text)
      BY <2>2, <3>1, <3>3, RestartGivesSpans DEF SpansInv
    <3> QED
      BY <2>5, <3>2, <3>3 DEF StartMode
  <2>6. CASE ReadLine
    <3> DEFINE typed == SubSeq(script.text, next, LineEnd(next) - 1)
    <3>1. script' = script /\ next' = LineEnd(next) + 1 /\ next <= Len(script.text)
      BY <2>6 DEF ReadLine
    <3>2. next \in Nat \ {0} /\ script \in Scripts
      BY DEF SpansInv
    <3>3. /\ LineEnd(next) \in next..(Len(script.text) + 1) /\ typed \in Seq(Characters)
      BY <2>2, <3>1, <3>2, LineFacts
    <3>4. next' \in Nat \ {0}
      BY <3>1, <3>2, <3>3
    <3>5. Restart(typed) \/ Restart(text \o <<"newline">> \o typed)
      BY <2>6 DEF ReadLine
    <3>6. "newline" \in Characters
      BY Zenon DEF Characters, Blanks
    <3> HIDE DEF typed
    <3>7. text \o <<"newline">> \o typed \in Seq(Characters)
      BY <2>2, <3>3, <3>6
    <3>8. LexerInv'
      BY <3>3, <3>5, <3>7, RestartGivesSpans
    <3> QED
      BY <3>1, <3>2, <3>4, <3>8 DEF SpansInv
  <2>7. CASE ParseSource
    <3>1. script' = script /\ next' = next
      BY <2>7 DEF ParseSource
    <3>2. CASE Scan
      BY <3>1, <3>2, ScanKeepsSpans DEF SpansInv
    <3>3. CASE Parse
      <4>1. UNCHANGED <<text, at, line, column, open, spans>>
        BY <3>3 DEF Parse, Match, Expand, Return, BuildBinary, Assignment, ExternalCall,
            Failure, Accept, Throw, Rewind, lexerVars
      <4> QED
        BY <2>1, <3>1, <4>1
    <3> QED
      BY <2>7, <3>2, <3>3 DEF ParseSource
  <2>8. CASE UNCHANGED vars
    BY <2>1, <2>8 DEF vars, lexerVars
  <2> QED
    BY <2>3, <2>4, <2>5, <2>6, <2>7, <2>8 DEF Next
<1>3. SpansInv => SpansPointIntoTheText
  <2> SUFFICES ASSUME LexerInv, NEW i \in 1..Len(spans), NEW s, s = spans[i]
               PROVE  /\ TokenEnd(i - 1) <= s.start /\ TokenEnd(i) <= Len(text) + 1
                      /\ \A k \in TokenEnd(i - 1)..(s.start - 1) : Char(k) \in Blanks \/ Commented(k)
                      /\ s.line = 1 + Cardinality(NewlinesBefore(s.start))
                      /\ Char(s.start - s.column) = "newline" \/ s.start = s.column
                      /\ \A k \in (s.start - s.column + 1)..(s.start - 1) : Char(k) # "newline"
    BY DEF SpansInv, SpansPointIntoTheText
  <2>1. SpanFits(TokenEnd(i - 1), s)
    BY DEF LexerInv
  <2>2. TokenEnd(i) = s.start + s.length
    <3>1. i # 0
      OBVIOUS
    <3> QED
      BY <3>1 DEF TokenEnd
  <2> QED
    BY <2>1, <2>2 DEF SpanFits, Skipped, AtPlace, AtColumn
<1> QED
  BY <1>1, <1>2, <1>3, PTL DEF Spec

-----------------------------------------------------------------------------
(* The inductive invariant of the parser.                                    *)

\* What Production expands, but for expressions and their loop of operators.
Plain ==
  {"module", "statement", "block", "statements", "else", "arms", "more cases", "next case",
   "assert message", "call statement", "only calls", "pack", "pack value", "type", "type suffix",
   "array suffix", "fields", "field suffix", "field separator", "parameters", "parameter",
   "more parameters", "place", "place suffix", "postfix suffix", "unary", "primary", "strings",
   "member path", "elements", "more elements", "initializers", "more initializers", "anonymous",
   "external", "named", "after type", "arguments", "argument", "more arguments", "next argument"}
Leveled == {"expression", "operators"}

\* The kinds of tokens that the parser may ask for: all but the end of the input.
Wantable ==
  {"if", "else", "switch", "case", "default", "try", "catch", "while", "throw", "break",
   "continue", "return", "assert", "struct", "union", "pack", "sizeof", "alignof", "offsetof",
   "i32", "void", "e", "f", "x", "name", "0", "1", "3", "huge", "variable", "float", "string",
   "(", ")", "{", "}", "[", "]", ",", ".", "@", "+", "-", "*", "/", "%", "^", "~", "=", "!", "&",
   "|", "<", ">", "==", "!=", "&&", "||", "<<", "<=", ">>", ">="}
Kinds == Wantable \cup {Eof}

\* An item wants no end of the input, a level of operators is a positive one (the end of
\* the input has precedence 0), and a place to go back to is a token that was read.
Sets == SUBSET (Wantable \cup Results)
Items ==
  [symbol : Plain \cup Special, set : Sets, arg : Nat, from : 1..Len(tokens)]
    \cup [symbol : Leveled, set : Sets, arg : Nat \ {0}, from : 1..Len(tokens)]

\* What a parse function pushes: all but the loop of operators remember where.
Loops == {"operators", "binary"}
Pushed == {item \in Items : item.symbol \notin Loops /\ item.from = pos}

\* A token that is taken without a look at it, as it was seen before.
Advances(item) == item.symbol = "want" /\ item.arg # 0
Checked == {item \in Pushed : ~Advances(item)}

\* The k-th item takes the token that was seen for it: what is parsed before it is one
\* token, two, or a type of one token, and no type goes on with what is a target.
CallTargets == Identifiers \cup {"variable"}
Is(item, symbol) == item.symbol = symbol
NamedType(item) == item.symbol = "type" /\ item.arg = 0
IsSuffix(item) == item.symbol = "type suffix"
Takes(item, t) == t \in item.set
TakesTarget(item, t) == t \in item.set \cap CallTargets
AheadAt(st, p, k) ==
  \/ k = 1 /\ Takes(st[k], tokens[p])
  \/ k = 2 /\ Is(st[1], "want") /\ Takes(st[k], tokens[p + 1])
  \/ k = 3 /\ Is(st[1], "want") /\ Is(st[2], "want") /\ Takes(st[k], tokens[p + 2])
  \/ k = 2 /\ NamedType(st[1]) /\ TakesTarget(st[k], tokens[p + 1])
  \/ /\ k = 4 /\ Is(st[1], "want") /\ Is(st[2], "gives") /\ IsSuffix(st[3])
     /\ TakesTarget(st[k], tokens[p + 1])
  \/ /\ k = 3 /\ Is(st[1], "gives") /\ IsSuffix(st[2])
     /\ TakesTarget(st[k], tokens[p])
  \/ k = 2 /\ IsSuffix(st[1]) /\ TakesTarget(st[k], tokens[p])
SeenAhead(st, p) == \A k \in 1..Len(st) : Advances(st[k]) => AheadAt(st, p, k)
Foreseen == {q \in Seq(Pushed) : SeenAhead(q, pos)}

Ended == tokens # <<>> /\ tokens[Len(tokens)] = Eof

ParserInv ==
  /\ tokens \in Seq(Kinds)
  /\ outcome = "scanning" => pos = 1 /\ stack = <<Start>>
  /\ outcome = "parsing" => Ended
  /\ outcome # "scanning" /\ Ended =>
       pos \in 1..Len(tokens) /\ stack \in Seq(Items) /\ SeenAhead(stack, pos)

-----------------------------------------------------------------------------
(* The tokens.                                                               *)

\* Only the end of the text ends the tokens.
LEMMA ScanGivesTokens ==
  ASSUME tokens \in Seq(Kinds), Scan
  PROVE  /\ tokens' \in Seq(Kinds)
         /\ outcome = "scanning"
         /\ outcome' = "parsing" => Ended'
<1>1. ASSUME NEW kind \in Kinds, NEW to, Push(kind, to)
      PROVE  tokens' \in Seq(Kinds) /\ outcome' = outcome
  BY <1>1 DEF Push
<1>2. ASSUME NEW e \in {"rejected", "incomplete"}, Throw(e)
      PROVE  tokens' = tokens /\ outcome' # "parsing"
  BY <1>2 DEF Throw
<1>3. /\ Identifiers \subseteq Kinds /\ Digits \subseteq Kinds /\ Singles \subseteq Kinds
      /\ {"variable", "float", "string", "name", "3"} \subseteq Kinds
  <2>1. Identifiers \subseteq Kinds
    BY ZenonT(60) DEF Kinds, Wantable, Identifiers, Keywords, Builtins, Letters
  <2>2. Digits \subseteq Kinds
    BY ZenonT(60) DEF Kinds, Wantable, Digits
  <2>3. Singles \subseteq Kinds
    BY ZenonT(60) DEF Kinds, Wantable, Singles
  <2>4. {"variable", "float", "string", "name", "3"} \subseteq Kinds
    BY ZenonT(60) DEF Kinds, Wantable
  <2> QED
    BY <2>1, <2>2, <2>3, <2>4
<1>4. \A p \in Pairs : p[3] \in Kinds
  <2>1. \A p, a, b, c : p = <<a, b, c>> => p[3] = c
    OBVIOUS
  <2>2. \A p \in Pairs : p[3] \in {"==", "!=", "&&", "||", "<<", "<=", ">>", ">="}
    BY Zenon, <2>1 DEF Pairs
  <2>3. {"==", "!=", "&&", "||", "<<", "<=", ">>", ">="} \subseteq Kinds
    BY ZenonT(60) DEF Kinds, Wantable
  <2> QED
    BY <2>2, <2>3
<1>5. ASSUME NEW from, NEW to, PushInteger(from, to)
      PROVE  tokens' \in Seq(Kinds) /\ (outcome' = "parsing" => outcome = "parsing")
  <2>1. IntegerValue(from, to) \in Kinds
    BY <1>3 DEF IntegerValue
  <2> QED
    BY <1>1, <1>2, <1>5, <2>1 DEF PushInteger
<1> DEFINE Kept == /\ tokens' \in Seq(Kinds) /\ outcome = "scanning"
                   /\ outcome' = "parsing" => Ended'
<1>6. CASE SkipBlank \/ SkipComment
  BY <1>6 DEF SkipBlank, SkipComment, Lexeme
<1>7. CASE ScanVariable
  BY <1>1, <1>2, <1>3, <1>7 DEF ScanVariable, Lexeme
<1>8. CASE ScanIdentifier
  <2>1. outcome = "scanning" /\ Char(at) \in Identifiers
    BY <1>8 DEF ScanIdentifier, Lexeme
  <2>2. PICK kind, to : kind \in Kinds /\ Push(kind, to)
    BY <1>3, <1>8, <2>1 DEF ScanIdentifier
  <2> QED
    BY <1>1, <2>1, <2>2
<1>9. CASE ScanHexadecimal
  <2>1. outcome = "scanning"
    BY <1>9 DEF ScanHexadecimal, Lexeme
  <2>2. Throw("rejected") \/ \E from, to : PushInteger(from, to)
    BY <1>9 DEF ScanHexadecimal
  <2> QED
    BY <1>2, <1>5, <2>1, <2>2
<1>10. CASE ScanDecimal
  <2>1. outcome = "scanning"
    BY <1>10 DEF ScanDecimal, Lexeme
  <2>2. Throw("rejected") \/ \E from, to : PushInteger(from, to) \/ Push("float", to)
    BY <1>10 DEF ScanDecimal
  <2> QED
    BY <1>1, <1>2, <1>3, <1>5, <2>1, <2>2
<1>11. CASE OpenString \/ StringCharacter \/ StringEscape \/ CloseString \/ UnterminatedString
  <2>1. outcome = "scanning"
    BY <1>11 DEF OpenString, StringCharacter, StringEscape, CloseString, UnterminatedString,
        InString, Lexeme
  <2>2. CASE OpenString
    BY <1>3, <2>1, <2>2 DEF OpenString
  <2>3. CASE StringCharacter
    BY <2>1, <2>3 DEF StringCharacter
  <2>4. CASE StringEscape
    BY <1>2, <2>1, <2>4 DEF StringEscape
  <2>5. CASE CloseString
    BY <2>1, <2>5 DEF CloseString
  <2>6. CASE UnterminatedString
    BY <1>2, <2>1, <2>6 DEF UnterminatedString
  <2> QED
    BY <1>11, <2>2, <2>3, <2>4, <2>5, <2>6
<1>12. CASE ScanOperator
  <2>1. outcome = "scanning" /\ Char(at) \in Singles
    BY <1>12 DEF ScanOperator, Lexeme
  <2>2. PICK kind, to : kind \in Kinds /\ Push(kind, to)
    BY <1>3, <1>4, <1>12, <2>1 DEF ScanOperator
  <2> QED
    BY <1>1, <2>1, <2>2
<1>13. CASE UnexpectedCharacter
  BY <1>2, <1>13 DEF UnexpectedCharacter
<1>14. CASE EndOfText
  <2>1. outcome = "scanning" /\ tokens' = Append(tokens, "eof")
    BY <1>14 DEF EndOfText
  <2>2. tokens' \in Seq(Kinds) /\ tokens' # <<>> /\ tokens'[Len(tokens')] = "eof"
    BY <2>1 DEF Kinds, Eof
  <2> QED
    BY <2>1, <2>2 DEF Ended, Eof
<1> QED
  BY <1>6, <1>7, <1>8, <1>9, <1>10, <1>11, <1>12, <1>13, <1>14 DEF Scan

-----------------------------------------------------------------------------
(* The items.                                                                *)

AtToken == tokens \in Seq(Kinds) /\ pos \in 1..Len(tokens)

\* What the constructors of items make.
LEMMA CheckedFacts ==
  ASSUME AtToken
  PROVE  /\ \A k \in Wantable : Want(k) \in Checked
         /\ \A S \in SUBSET Wantable : WantAny(S) \in Checked
         /\ \A k \in Results : Gives(k) \in Checked
         /\ \A s \in Plain \cup {"fail", "assignment", "external target"} : P(s) \in Checked
         /\ \A s \in Plain, n \in Nat : PArg(s, n) \in Checked
         /\ WantName \in Checked /\ Expression \in Checked
<1>1. ASSUME NEW symbol \in Plain \cup (Special \ {"binary"}), NEW set \in Sets, NEW arg \in Nat,
             symbol # "want" \/ arg = 0
      PROVE  Item(symbol, set, arg) \in Checked
  <2>1. symbol \notin Loops
    BY DEF Plain, Special, Loops
  <2>2. Item(symbol, set, arg) \in Items
    BY <1>1 DEF Item, Items, AtToken
  <2> QED
    BY <1>1, <2>1, <2>2 DEF Item, Pushed, Checked, Advances
<1>2. {"want", "gives", "fail", "assignment", "external target"} \subseteq Special \ {"binary"}
  BY DEF Special
<1>3. "want" \notin Plain
  BY Zenon DEF Plain
<1>4. \A k \in Wantable : Want(k) \in Checked
  BY <1>1, <1>2 DEF Want, Sets
<1>5. \A S \in SUBSET Wantable : WantAny(S) \in Checked
  BY <1>1, <1>2 DEF WantAny, Sets
<1>6. \A k \in Results : Gives(k) \in Checked
  BY <1>1, <1>2 DEF Gives, Sets
<1>7. {} \in Sets
  BY DEF Sets
<1>8. \A s \in Plain \cup {"fail", "assignment", "external target"} : P(s) \in Checked
  BY <1>1, <1>2, <1>7 DEF P
<1>9. \A s \in Plain, n \in Nat : PArg(s, n) \in Checked
  BY <1>1, <1>3, <1>7 DEF PArg
<1>10. WantName \in Checked
  <2>1. Identifiers \in SUBSET Wantable
    BY DEF Wantable, Identifiers, Keywords, Builtins, Letters
  <2> QED
    BY <1>5, <2>1 DEF WantName
<1>11. Expression \in Checked
  <2>1. "expression" \in Leveled /\ "expression" \notin Loops /\ 1 \in Nat \ {0}
    BY DEF Leveled, Loops
  <2>2. Expression \in Items
    BY <1>7, <2>1 DEF Expression, PArg, Item, Items, AtToken
  <2> QED
    BY <2>1, <2>2 DEF Expression, PArg, Item, Pushed, Checked, Advances
<1> QED
  BY <1>4, <1>5, <1>6, <1>8, <1>9, <1>10, <1>11

\* Those and the others.
LEMMA ItemFacts ==
  ASSUME AtToken
  PROVE  /\ \A k \in Wantable : Want(k) \in Pushed
         /\ \A S \in SUBSET Wantable : WantAny(S) \in Pushed
         /\ \A S \in SUBSET Wantable, n \in Nat : Seen(S, n) \in Pushed
         /\ \A k \in Results : Gives(k) \in Pushed
         /\ \A s \in Plain \cup {"fail", "assignment", "external target"} : P(s) \in Pushed
         /\ \A s \in Plain, n \in Nat : PArg(s, n) \in Pushed
         /\ \A s \in Leveled, n \in Nat \ {0} : PArg(s, n) \in Items
         /\ WantName \in Pushed /\ Expression \in Pushed
<1>1. Checked \subseteq Pushed
  BY DEF Checked
<1>2. \A S \in SUBSET Wantable, n \in Nat : Seen(S, n) \in Pushed
  <2>1. "want" \in Special /\ "want" \notin Loops
    BY DEF Special, Loops
  <2> QED
    BY <2>1 DEF Seen, Item, Items, Pushed, Sets, AtToken
<1>3. \A s \in Leveled, n \in Nat \ {0} : PArg(s, n) \in Items
  <2>1. {} \in Sets
    BY DEF Sets
  <2> QED
    BY <2>1 DEF PArg, Item, Items, AtToken
<1> QED
  BY <1>1, <1>2, <1>3, CheckedFacts, Zenon

\* The tokens ahead, and the precedence of the last one.
LEMMA PeekFacts ==
  ASSUME AtToken
  PROVE  \A n \in Nat : Peek(n) \in Kinds
<1>1. Eof \in Kinds
  BY DEF Kinds
<1> QED
  BY <1>1 DEF AtToken, Peek

\* What binds has a positive precedence, the end of the input does not bind.
LEMMA PrecedenceFacts ==
  ASSUME NEW t
  PROVE  Precedence(t) \in Nat /\ Precedence(Eof) = 0
BY DEF Precedence, Eof

\* What is left to parse is put together from few items.
LEMMA SequencesOf ==
  ASSUME NEW S
  PROVE  /\ <<>> \in Seq(S)
         /\ \A a \in S : <<a>> \in Seq(S)
         /\ \A a, b \in S : <<a, b>> \in Seq(S)
         /\ \A a, b, c \in S : <<a, b, c>> \in Seq(S)
         /\ \A a, b, c, d \in S : <<a, b, c, d>> \in Seq(S)
         /\ \A a, b, c, d, e \in S : <<a, b, c, d, e>> \in Seq(S)
         /\ \A a, b, c, d, e, f \in S : <<a, b, c, d, e, f>> \in Seq(S)
         /\ \A a, b, c, d, e, f, g \in S : <<a, b, c, d, e, f, g>> \in Seq(S)
         /\ \A a, b, c, d, e, f, g, h \in S : <<a, b, c, d, e, f, g, h>> \in Seq(S)
         /\ \A s, t \in Seq(S) : s \o t \in Seq(S)
OBVIOUS

\* What is put together from items.
LEMMA SequencesOfItems ==
  /\ <<>> \in Seq(Items)
  /\ \A a \in Items : <<a>> \in Seq(Items)
  /\ \A a, b \in Items : <<a, b>> \in Seq(Items)
  /\ \A a, b, c \in Items : <<a, b, c>> \in Seq(Items)
  /\ \A a, b, c, d \in Items : <<a, b, c, d>> \in Seq(Items)
  /\ \A a, b, c, d, e \in Items : <<a, b, c, d, e>> \in Seq(Items)
  /\ \A a, b, c, d, e, f \in Items : <<a, b, c, d, e, f>> \in Seq(Items)
  /\ \A a, b, c, d, e, f, g \in Items : <<a, b, c, d, e, f, g>> \in Seq(Items)
  /\ \A a, b, c, d, e, f, g, h \in Items : <<a, b, c, d, e, f, g, h>> \in Seq(Items)
  /\ \A s, t \in Seq(Items) : s \o t \in Seq(Items)
BY SequencesOf

\* What is put together from items pushed here.
LEMMA SequencesOfPushed ==
  /\ <<>> \in Seq(Pushed)
  /\ \A a \in Pushed : <<a>> \in Seq(Pushed)
  /\ \A a, b \in Pushed : <<a, b>> \in Seq(Pushed)
  /\ \A a, b, c \in Pushed : <<a, b, c>> \in Seq(Pushed)
  /\ \A a, b, c, d \in Pushed : <<a, b, c, d>> \in Seq(Pushed)
  /\ \A a, b, c, d, e \in Pushed : <<a, b, c, d, e>> \in Seq(Pushed)
  /\ \A a, b, c, d, e, f \in Pushed : <<a, b, c, d, e, f>> \in Seq(Pushed)
  /\ \A a, b, c, d, e, f, g \in Pushed : <<a, b, c, d, e, f, g>> \in Seq(Pushed)
  /\ \A a, b, c, d, e, f, g, h \in Pushed : <<a, b, c, d, e, f, g, h>> \in Seq(Pushed)
  /\ \A s, t \in Seq(Pushed) : s \o t \in Seq(Pushed)
BY SequencesOf

\* What is put together from items that look at their token.
LEMMA SequencesOfChecked ==
  /\ <<>> \in Seq(Checked)
  /\ \A a \in Checked : <<a>> \in Seq(Checked)
  /\ \A a, b \in Checked : <<a, b>> \in Seq(Checked)
  /\ \A a, b, c \in Checked : <<a, b, c>> \in Seq(Checked)
  /\ \A a, b, c, d \in Checked : <<a, b, c, d>> \in Seq(Checked)
  /\ \A a, b, c, d, e \in Checked : <<a, b, c, d, e>> \in Seq(Checked)
  /\ \A a, b, c, d, e, f \in Checked : <<a, b, c, d, e, f>> \in Seq(Checked)
  /\ \A a, b, c, d, e, f, g \in Checked : <<a, b, c, d, e, f, g>> \in Seq(Checked)
  /\ \A a, b, c, d, e, f, g, h \in Checked : <<a, b, c, d, e, f, g, h>> \in Seq(Checked)
  /\ \A s, t \in Seq(Checked) : s \o t \in Seq(Checked)
BY SequencesOf

\* The sets of kinds and results that the parser names.
LEMMA KindFacts ==
  /\ Identifiers \subseteq Wantable /\ Integers64 \subseteq Wantable
  /\ TypeKinds \subseteq Results /\ {"variable", "call", "other"} \subseteq Results
<1>1. Identifiers \subseteq Wantable
  BY ZenonT(60) DEF Identifiers, Keywords, Builtins, Letters, Wantable
<1>2. Integers64 \subseteq Wantable
  BY ZenonT(60) DEF Integers64, Digits, Wantable
<1>3. TypeKinds \subseteq Results /\ {"variable", "call", "other"} \subseteq Results
  BY Zenon DEF Results
<1> QED
  BY <1>1, <1>2, <1>3

\* Nothing to be foreseen, or only the first token.
LEMMA SequencesOfForeseen ==
  ASSUME AtToken
  PROVE  /\ Seq(Checked) \subseteq Foreseen /\ Foreseen \subseteq Seq(Pushed)
         /\ \A S \in SUBSET Wantable, q \in Seq(Pushed) :
              /\ Peek(0) \in S /\ q # <<>> /\ q[1] = Seen(S, 0)
              /\ \A k \in 2..Len(q) : q[k] \in Checked
              => q \in Foreseen
<1>1. Checked \subseteq Pushed
  BY DEF Checked
<1>2. Seq(Checked) \subseteq Foreseen
  <2> SUFFICES ASSUME NEW q \in Seq(Checked) PROVE q \in Foreseen
    OBVIOUS
  <2>1. q \in Seq(Pushed)
    BY <1>1
  <2>2. \A k \in 1..Len(q) : ~Advances(q[k])
    BY DEF Checked
  <2> QED
    BY <2>1, <2>2 DEF Foreseen, SeenAhead
<1>3. ASSUME NEW S \in SUBSET Wantable, Peek(0) \in S, NEW q \in Seq(Pushed), q # <<>>,
             q[1] = Seen(S, 0), \A k \in 2..Len(q) : q[k] \in Checked
      PROVE  q \in Foreseen
  <2>1. q[1].set = S
    BY <1>3 DEF Seen, Item
  <2>2. tokens[pos] \in S
    BY <1>3 DEF Peek, AtToken
  <2>3. AheadAt(q, pos, 1)
    BY <2>1, <2>2 DEF AheadAt, Takes
  <2>4. \A k \in 1..Len(q) : k = 1 \/ q[k] \in Checked
    BY <1>3
  <2>5. \A k \in 1..Len(q) : Advances(q[k]) => AheadAt(q, pos, k)
    BY <2>3, <2>4 DEF Checked
  <2> QED
    BY <2>5 DEF Foreseen, SeenAhead
<1> QED
  BY <1>2, <1>3 DEF Foreseen

\* The items after the first.
LEMMA FirstForeseen ==
  ASSUME AtToken, NEW S \in SUBSET Wantable, Peek(0) \in S
  PROVE  /\ <<Seen(S, 0)>> \in Foreseen
         /\ \A b \in Checked : <<Seen(S, 0), b>> \in Foreseen
         /\ \A b, c \in Checked : <<Seen(S, 0), b, c>> \in Foreseen
         /\ \A b, c \in Checked : <<Seen(S, 0), b>> \o <<c>> \in Foreseen
         /\ \A b, c, d, e \in Checked : <<Seen(S, 0), b, c, d, e>> \in Foreseen
         /\ \A b, c, d, e, f \in Checked : <<Seen(S, 0), b, c, d, e, f>> \in Foreseen
         /\ \A b, c, d, e, f, g \in Checked : <<Seen(S, 0), b, c, d, e, f, g>> \in Foreseen
         /\ \A b, c, d, e, f, g, h \in Checked : <<Seen(S, 0), b, c, d, e, f, g, h>> \in Foreseen
         /\ \A q \in Seq(Checked) : <<Seen(S, 0)>> \o q \in Foreseen
<1> DEFINE a == Seen(S, 0)
<1>1. a \in Pushed /\ Checked \subseteq Pushed
  BY ItemFacts DEF Checked
<1>2. \A q \in Seq(Pushed) :
        q # <<>> /\ q[1] = a /\ (\A k \in 2..Len(q) : q[k] \in Checked) => q \in Foreseen
  BY SequencesOfForeseen
<1> HIDE DEF a
<1>3. <<a>> \in Foreseen
  <2>1. /\ <<a>> \in Seq(Pushed) /\ <<a>> # <<>> /\ (<<a>>)[1] = a
        /\ \A k \in 2..Len(<<a>>) : (<<a>>)[k] \in Checked
    BY <1>1
  <2> QED
    BY Zenon, <1>2, <2>1
<1>4. \A b \in Checked : <<a, b>> \in Foreseen
  <2> TAKE b \in Checked
  <2>1. /\ <<a, b>> \in Seq(Pushed) /\ <<a, b>> # <<>> /\ (<<a, b>>)[1] = a
        /\ \A k \in 2..Len(<<a, b>>) : (<<a, b>>)[k] \in Checked
    BY <1>1
  <2> QED
    BY Zenon, <1>2, <2>1
<1>5. \A b, c \in Checked : <<a, b, c>> \in Foreseen
  <2> TAKE b, c \in Checked
  <2>1. /\ <<a, b, c>> \in Seq(Pushed) /\ <<a, b, c>> # <<>> /\ (<<a, b, c>>)[1] = a
        /\ \A k \in 2..Len(<<a, b, c>>) : (<<a, b, c>>)[k] \in Checked
    BY <1>1
  <2> QED
    BY Zenon, <1>2, <2>1
<1>6. \A b, c \in Checked : <<a, b>> \o <<c>> \in Foreseen
  <2> TAKE b, c \in Checked
  <2>1. /\ <<a, b>> \o <<c>> \in Seq(Pushed) /\ <<a, b>> \o <<c>> # <<>> /\ (<<a, b>> \o <<c>>)[1] = a
        /\ \A k \in 2..Len(<<a, b>> \o <<c>>) : (<<a, b>> \o <<c>>)[k] \in Checked
    BY <1>1
  <2> QED
    BY Zenon, <1>2, <2>1
<1>7. \A b, c, d, e \in Checked : <<a, b, c, d, e>> \in Foreseen
  <2> TAKE b, c, d, e \in Checked
  <2>1. /\ <<a, b, c, d, e>> \in Seq(Pushed) /\ <<a, b, c, d, e>> # <<>> /\ (<<a, b, c, d, e>>)[1] = a
        /\ \A k \in 2..Len(<<a, b, c, d, e>>) : (<<a, b, c, d, e>>)[k] \in Checked
    BY <1>1
  <2> QED
    BY Zenon, <1>2, <2>1
<1>8. \A b, c, d, e, f \in Checked : <<a, b, c, d, e, f>> \in Foreseen
  <2> TAKE b, c, d, e, f \in Checked
  <2>1. /\ <<a, b, c, d, e, f>> \in Seq(Pushed) /\ <<a, b, c, d, e, f>> # <<>> /\ (<<a, b, c, d, e, f>>)[1] = a
        /\ \A k \in 2..Len(<<a, b, c, d, e, f>>) : (<<a, b, c, d, e, f>>)[k] \in Checked
    BY <1>1
  <2> QED
    BY Zenon, <1>2, <2>1
<1>9. \A b, c, d, e, f, g \in Checked : <<a, b, c, d, e, f, g>> \in Foreseen
  <2> TAKE b, c, d, e, f, g \in Checked
  <2>1. /\ <<a, b, c, d, e, f, g>> \in Seq(Pushed) /\ <<a, b, c, d, e, f, g>> # <<>> /\ (<<a, b, c, d, e, f, g>>)[1] = a
        /\ \A k \in 2..Len(<<a, b, c, d, e, f, g>>) : (<<a, b, c, d, e, f, g>>)[k] \in Checked
    BY <1>1
  <2> QED
    BY Zenon, <1>2, <2>1
<1>10. \A b, c, d, e, f, g, h \in Checked : <<a, b, c, d, e, f, g, h>> \in Foreseen
  <2> TAKE b, c, d, e, f, g, h \in Checked
  <2>1. /\ <<a, b, c, d, e, f, g, h>> \in Seq(Pushed) /\ <<a, b, c, d, e, f, g, h>> # <<>> /\ (<<a, b, c, d, e, f, g, h>>)[1] = a
        /\ \A k \in 2..Len(<<a, b, c, d, e, f, g, h>>) : (<<a, b, c, d, e, f, g, h>>)[k] \in Checked
    BY <1>1
  <2> QED
    BY Zenon, <1>2, <2>1
<1>11. \A q \in Seq(Checked) : <<a>> \o q \in Foreseen
  <2> TAKE q \in Seq(Checked)
  <2>1. /\ <<a>> \o q \in Seq(Pushed) /\ <<a>> \o q # <<>> /\ (<<a>> \o q)[1] = a
        /\ \A k \in 2..Len(<<a>> \o q) : (<<a>> \o q)[k] \in Checked
    BY <1>1
  <2> QED
    BY Zenon, <1>2, <2>1
<1> QED
  BY <1>3, <1>4, <1>5, <1>6, <1>7, <1>8, <1>9, <1>10, <1>11 DEF a

\* A token further ahead is there, unless it is the end of the input.
LEMMA PeekIsThere ==
  ASSUME AtToken, NEW n \in Nat, NEW S \in SUBSET Wantable, Peek(n) \in S
  PROVE  tokens[pos + n] \in S
<1>1. Eof \notin Wantable
  BY Zenon DEF Eof, Wantable
<1> QED
  BY <1>1 DEF Peek

\* A name behind '&'.
LEMMA SecondForeseen ==
  ASSUME AtToken, NEW a \in Checked, a.symbol = "want", NEW b \in Checked, Peek(1) \in Identifiers
  PROVE  <<a, Seen(Identifiers, 1), b>> \in Foreseen
<1> DEFINE m == Seen(Identifiers, 1)
           t == <<a, m, b>>
<1>1. m \in Pushed /\ m.set = Identifiers /\ a \in Pushed /\ b \in Pushed
  BY ItemFacts, KindFacts DEF Checked, Seen, Item
<1>2. tokens[pos + 1] \in Identifiers
  BY PeekIsThere, KindFacts
<1> HIDE DEF m
<1>3. t \in Seq(Pushed) /\ Len(t) = 3 /\ t[1] = a /\ t[2] = m /\ t[3] = b
  BY <1>1
<1> HIDE DEF t
<1>4. \A k \in 1..Len(t) : k = 1 \/ k = 2 \/ k = 3
  BY <1>3
<1>5. AheadAt(t, pos, 2)
  BY <1>1, <1>2, <1>3 DEF AheadAt, Is, Takes
<1>6. \A k \in 1..Len(t) : Advances(t[k]) => AheadAt(t, pos, k)
  BY <1>3, <1>4, <1>5 DEF Checked
<1>7. t \in Foreseen
  BY <1>3, <1>6 DEF Foreseen, SeenAhead
<1> QED
  BY <1>7 DEF t, m

\* module.dll before a return type.
LEMMA ThreeForeseen ==
  ASSUME AtToken, NEW b \in Checked, NEW c \in Checked,
         Peek(0) \in Identifiers, Peek(1) = ".", Peek(2) \in Identifiers
  PROVE  <<Seen(Identifiers, 0), Seen({"."}, 1), Seen(Identifiers, 2), b, c>> \in Foreseen
<1> DEFINE x == Seen(Identifiers, 0)
           y == Seen({"."}, 1)
           z == Seen(Identifiers, 2)
           t == <<x, y, z, b, c>>
<1>1. "." \in Wantable
  BY ZenonT(60) DEF Wantable
<1>2. /\ x \in Pushed /\ y \in Pushed /\ z \in Pushed /\ b \in Pushed /\ c \in Pushed
      /\ x.set = Identifiers /\ y.set = {"."} /\ z.set = Identifiers
      /\ x.symbol = "want" /\ y.symbol = "want"
  BY <1>1, ItemFacts, KindFacts DEF Checked, Seen, Item
<1>3. tokens[pos] \in Identifiers /\ tokens[pos + 1] \in {"."} /\ tokens[pos + 2] \in Identifiers
  <2>1. tokens[pos + 0] \in Identifiers
    BY PeekIsThere, KindFacts
  <2>2. tokens[pos + 1] \in {"."}
    BY <1>1, PeekIsThere
  <2>3. tokens[pos + 2] \in Identifiers
    BY PeekIsThere, KindFacts
  <2> QED
    BY <2>1, <2>2, <2>3 DEF AtToken
<1> HIDE DEF x, y, z
<1>4. t \in Seq(Pushed) /\ Len(t) = 5 /\ t[1] = x /\ t[2] = y /\ t[3] = z /\ t[4] = b /\ t[5] = c
  BY <1>2
<1> HIDE DEF t
<1>5. \A k \in 1..Len(t) : k \in {1, 2, 3, 4, 5}
  BY <1>4
<1>6. AheadAt(t, pos, 1) /\ AheadAt(t, pos, 2) /\ AheadAt(t, pos, 3)
  BY <1>2, <1>3, <1>4 DEF AheadAt, Is, Takes
<1>7. \A k \in 1..Len(t) : Advances(t[k]) => AheadAt(t, pos, k)
  BY <1>4, <1>5, <1>6 DEF Checked
<1>8. t \in Foreseen
  BY <1>4, <1>7 DEF Foreseen, SeenAhead
<1> QED
  BY <1>8 DEF t, x, y, z

\* The target of a call behind its return type.
LEMMA TargetForeseen ==
  ASSUME AtToken, NEW q \in Seq(Checked), Peek(1) \in CallTargets
  PROVE  <<PArg("type", 0), Seen(CallTargets, 1)>> \o q \in Foreseen
<1> DEFINE x == PArg("type", 0)
           m == Seen(CallTargets, 1)
           t == <<x, m>> \o q
<1>1. CallTargets \in SUBSET Wantable
  BY Zenon, KindFacts DEF CallTargets, Wantable
<1>2. x \in Checked /\ x \in Pushed /\ m \in Pushed
  BY Zenon, <1>1, CheckedFacts, ItemFacts DEF Plain
<1>3. m.set = CallTargets /\ x.symbol = "type" /\ x.arg = 0
  BY DEF Seen, PArg, Item
<1>4. tokens[pos + 1] \in CallTargets
  BY <1>1, PeekIsThere
<1> HIDE DEF x, m
<1>5. q \in Seq(Pushed) /\ t \in Seq(Pushed)
  BY <1>2 DEF Checked
<1>6. t[1] = x /\ t[2] = m /\ \A k \in 1..Len(t) : k \notin {1, 2} => t[k] \in Checked
  BY <1>2
<1> HIDE DEF t
<1>7. AheadAt(t, pos, 2)
  BY <1>3, <1>4, <1>6 DEF AheadAt, NamedType, TakesTarget
<1>8. \A k \in 1..Len(t) : Advances(t[k]) => AheadAt(t, pos, k)
  BY <1>2, <1>6, <1>7 DEF Checked
<1>9. t \in Foreseen
  BY <1>5, <1>8 DEF Foreseen, SeenAhead
<1> QED
  BY <1>9 DEF t, x, m

-----------------------------------------------------------------------------
(* The productions.                                                          *)

\* The parse functions of types and definitions push nothing but items (parse_type_syntax,
\* parse_field_list, parse_function_definition).
LEMMA TypesGiveItems ==
  ASSUME AtToken
  PROVE  /\ PackSuffix \in Seq(Checked)
         /\ PackValue \in Seq(Checked)
         /\ \A b \in BOOLEAN : TypeSyntax(b) \in Foreseen
         /\ ArraySuffix \in Foreseen
         /\ TypeSuffix \in Seq(Checked)
         /\ FieldList \in Seq(Checked)
         /\ FieldSuffix \in Seq(Checked)
         /\ FieldSeparator \in Seq(Checked)
         /\ IsAggregateDefinitionStart => AggregateDefinition \in Foreseen
         /\ FunctionDefinition \in Seq(Checked)
         /\ Parameters \in Seq(Checked)
         /\ Parameter \in Seq(Checked)
         /\ MoreParameters \in Seq(Checked)
<1>1. PackSuffix \in Seq(Checked)
  BY ZenonT(60), CheckedFacts, SequencesOfChecked, KindFacts DEF PackSuffix, Nothing, Plain, Wantable
<1>2. PackValue \in Seq(Checked)
  BY Zenon, CheckedFacts, SequencesOfChecked DEF PackValue, Fail, Nothing, Plain
<1>3. \A b \in BOOLEAN : TypeSyntax(b) \in Foreseen
  <2> SUFFICES ASSUME NEW b \in BOOLEAN PROVE TypeSyntax(b) \in Foreseen
    OBVIOUS
  <2>1. /\ P("pack") \in Checked /\ Want("{") \in Checked /\ P("fields") \in Checked
        /\ Want("}") \in Checked /\ P("type suffix") \in Checked /\ WantName \in Checked
        /\ \A k \in {"aggregate", "builtin", "named"} : Gives(k) \in Checked
    BY ZenonT(60), CheckedFacts, KindFacts DEF TypeKinds, Plain, Wantable
  <2>2. Peek(0) \in {"struct", "union"} => Peek(0) \in Wantable
    BY ZenonT(60) DEF Wantable
  <2>3. Peek(0) \in {"struct", "union"} =>
          <<Seen({Peek(0)}, 0), P("pack"), Want("{"), P("fields"), Want("}"), Gives("aggregate"),
            P("type suffix")>> \in Foreseen
    BY <2>1, <2>2, FirstForeseen
  <2>4. Gives(IF Peek(0) \in Builtins THEN "builtin" ELSE "named") \in Checked
    BY <2>1
  <2>5. <<WantName, Gives(IF Peek(0) \in Builtins THEN "builtin" ELSE "named"), P("type suffix")>> \in Foreseen
    BY Zenon, <2>1, <2>4, SequencesOfChecked, SequencesOfForeseen
  <2> QED
    BY Zenon, <2>3, <2>5 DEF TypeSyntax
<1>4. ArraySuffix \in Foreseen
  <2>1. CASE Peek(0) \in Integers64 /\ Peek(1) = "]"
    <3>1. Peek(0) \in Wantable /\ Want("]") \in Checked
      BY Zenon, <2>1, KindFacts, CheckedFacts DEF Wantable
    <3>2. P("fail") \in Checked /\ Gives("array") \in Checked
      BY Zenon, CheckedFacts, KindFacts DEF TypeKinds
    <3>3. \A x \in Checked : <<Seen({Peek(0)}, 0), Want("]")>> \o <<x>> \in Foreseen
      BY <3>1, FirstForeseen
    <3>4. <<Seen({Peek(0)}, 0), Want("]")>> \o Fail \in Foreseen
      BY Zenon, <3>2, <3>3 DEF Fail
    <3>5. <<Seen({Peek(0)}, 0), Want("]")>> \o (IF Peek(0) = "0" THEN Fail ELSE <<Gives("array")>>) \in Foreseen
      <4>1. <<Seen({Peek(0)}, 0), Want("]")>> \o <<Gives("array")>> \in Foreseen
        BY Zenon, <3>2, <3>3
      <4> QED
        BY Zenon, <3>4, <4>1
    <3>6. Fail \in Foreseen
      BY Zenon, <3>2, SequencesOfChecked, SequencesOfForeseen DEF Fail
    <3> QED
      BY Zenon, <2>1, <3>5, <3>6 DEF ArraySuffix
  <2>2. CASE ~(Peek(0) \in Integers64 /\ Peek(1) = "]")
    <3>1. ArraySuffix \in Seq(Checked)
      BY Zenon, <2>2, CheckedFacts, SequencesOfChecked, KindFacts DEF ArraySuffix, Fail, TypeKinds, Wantable
    <3> QED
      BY <3>1, SequencesOfForeseen
  <2> QED
    BY <2>1, <2>2
<1>5. TypeSuffix \in Seq(Checked)
  BY Zenon, CheckedFacts, SequencesOfChecked DEF TypeSuffix, Nothing, Plain, Wantable
<1>6. FieldList \in Seq(Checked)
  BY Zenon, CheckedFacts, SequencesOfChecked DEF FieldList, Fail, Nothing, Plain
<1>7. FieldSuffix \in Seq(Checked)
  BY Zenon, CheckedFacts, SequencesOfChecked DEF FieldSuffix, Nothing, Plain, Wantable
<1>8. FieldSeparator \in Seq(Checked)
  BY Zenon, CheckedFacts, SequencesOfChecked DEF FieldSeparator, Fail, Nothing, Plain, Wantable
<1>9. IsAggregateDefinitionStart => AggregateDefinition \in Foreseen
  <2>1. /\ WantName \in Checked /\ P("pack") \in Checked /\ Want("{") \in Checked
        /\ P("fields") \in Checked /\ Want("}") \in Checked
    BY ZenonT(60), CheckedFacts DEF Plain, Wantable
  <2>2. {"struct", "union"} \in SUBSET Wantable
    BY ZenonT(60) DEF Wantable
  <2>3. Peek(0) \in {"struct", "union"} => AggregateDefinition \in Foreseen
    BY <2>1, <2>2, FirstForeseen DEF AggregateDefinition
  <2> QED
    BY <2>3 DEF IsAggregateDefinitionStart
<1>10. FunctionDefinition \in Seq(Checked)
  BY ZenonT(60), CheckedFacts, SequencesOfChecked DEF FunctionDefinition, Plain, Wantable
<1>11. Parameters \in Seq(Checked)
  BY Zenon, CheckedFacts, SequencesOfChecked DEF Parameters, Nothing, Plain
<1>12. Parameter \in Seq(Checked)
  BY Zenon, CheckedFacts, SequencesOfChecked DEF Parameter, Plain, Wantable
<1>13. MoreParameters \in Seq(Checked)
  BY Zenon, CheckedFacts, SequencesOfChecked DEF MoreParameters, Nothing, Plain, Wantable
<1> QED
  BY <1>1, <1>2, <1>3, <1>4, <1>5, <1>6, <1>7, <1>8, <1>9, <1>10, <1>11, <1>12, <1>13

\* So do those of statements (parse_statement, parse_switch_statement).
LEMMA StatementsGiveItems ==
  ASSUME AtToken
  PROVE  /\ Condition \in Seq(Checked)
         /\ Block \in Seq(Checked)
         /\ Statements \in Foreseen
         /\ ElseBranch \in Seq(Checked)
         /\ TryStatement \in Seq(Checked)
         /\ SwitchStatement \in Seq(Checked)
         /\ \A b \in BOOLEAN : Arms(b) \in Foreseen
         /\ MoreCases \in Seq(Checked)
         /\ NextCase \in Seq(Checked)
         /\ AssertMessage \in Seq(Checked)
         /\ Peek(0) \in StatementKeywords => KeywordStatement \in Seq(Checked)
         /\ OtherStatement \in Seq(Checked)
         /\ \A b \in BOOLEAN : Statement(b) \in Foreseen
         /\ CallStatement \in Seq(Checked)
         /\ OnlyCalls \in Seq(Checked)
<1>1. Condition \in Seq(Checked)
  BY ZenonT(60), CheckedFacts, SequencesOfChecked DEF Condition, Wantable
<1>2. Block \in Seq(Checked)
  BY Zenon, CheckedFacts, SequencesOfChecked DEF Block, Plain, Wantable
<1>3. Statements \in Foreseen
  <2>1. {"}"} \in SUBSET Wantable
    BY ZenonT(60) DEF Wantable
  <2>2. Peek(0) = "}" => <<Seen({"}"}, 0)>> \in Foreseen
    BY <2>1, FirstForeseen
  <2>3. Fail \in Foreseen /\ <<PArg("statement", 0), P("statements")>> \in Foreseen
    BY Zenon, CheckedFacts, SequencesOfChecked, SequencesOfForeseen DEF Fail, Plain
  <2> QED
    BY Zenon, <2>2, <2>3 DEF Statements
<1>4. ElseBranch \in Seq(Checked)
  BY Zenon, CheckedFacts, SequencesOfChecked DEF ElseBranch, Nothing, Plain, Wantable
<1>5. TryStatement \in Seq(Checked)
  BY ZenonT(60), CheckedFacts, SequencesOfChecked DEF TryStatement, Plain, Wantable
<1>6. SwitchStatement \in Seq(Checked)
  BY ZenonT(60), CheckedFacts, SequencesOfChecked, <1>1 DEF SwitchStatement, Plain, Wantable
<1>7. \A b \in BOOLEAN : Arms(b) \in Foreseen
  <2> SUFFICES ASSUME NEW b \in BOOLEAN PROVE Arms(b) \in Foreseen
    OBVIOUS
  <2>1. {"}"} \in SUBSET Wantable
    BY ZenonT(60) DEF Wantable
  <2>2. Peek(0) = "}" => <<Seen({"}"}, 0)>> \in Foreseen
    BY <2>1, FirstForeseen
  <2>3. Peek(0) # "}" => Arms(b) \in Seq(Checked)
    BY ZenonT(60), CheckedFacts, SequencesOfChecked DEF Arms, Fail, Plain, Wantable
  <2> QED
    BY Zenon, <2>2, <2>3, SequencesOfForeseen DEF Arms
<1>8. MoreCases \in Seq(Checked)
  BY Zenon, CheckedFacts, SequencesOfChecked DEF MoreCases, Nothing, Plain, Wantable
<1>9. NextCase \in Seq(Checked)
  BY Zenon, CheckedFacts, SequencesOfChecked DEF NextCase, Fail, Plain
<1>10. AssertMessage \in Seq(Checked)
  BY Zenon, CheckedFacts, SequencesOfChecked DEF AssertMessage, Nothing, Wantable
<1>11. Peek(0) \in StatementKeywords => KeywordStatement \in Seq(Checked)
  <2>1. {"if", "while", "throw", "break", "continue", "return", "assert", "(", ")"} \subseteq Wantable
    BY ZenonT(60) DEF Wantable
  <2>2. /\ <<Want("if")>> \o Condition \o <<P("block"), P("else")>> \in Seq(Checked)
        /\ <<Want("while")>> \o Condition \o <<P("block")>> \in Seq(Checked)
    BY Zenon, <1>1, <2>1, CheckedFacts, SequencesOfChecked DEF Plain
  <2>3. Peek(0) \in {"break", "continue"} => <<Want(Peek(0))>> \in Seq(Checked)
    BY Zenon, <2>1, CheckedFacts, SequencesOfChecked
  <2>4. /\ <<Want("throw"), Expression>> \in Seq(Checked)
        /\ <<Want("return")>> \o (IF Peek(1) = "}" THEN Nothing ELSE <<Expression>>) \in Seq(Checked)
    BY Zenon, <2>1, CheckedFacts, SequencesOfChecked DEF Nothing
  <2>5. <<Want("assert"), Want("("), Expression, P("assert message"), Want(")")>> \in Seq(Checked)
    BY Zenon, <2>1, CheckedFacts, SequencesOfChecked DEF Plain
  <2>6. Fail \in Seq(Checked)
    BY Zenon, CheckedFacts, SequencesOfChecked DEF Fail
  <2> QED
    BY Zenon, <1>5, <1>6, <2>2, <2>3, <2>4, <2>5, <2>6 DEF KeywordStatement, StatementKeywords
<1>12. OtherStatement \in Seq(Checked)
  BY Zenon, CheckedFacts, SequencesOfChecked, KindFacts DEF OtherStatement, Fail, Plain
<1>13. \A b \in BOOLEAN : Statement(b) \in Foreseen
  BY Zenon, SequencesOfForeseen, <1>11, <1>12, <1>2, TypesGiveItems DEF Statement
<1>14. CallStatement \in Seq(Checked)
  BY Zenon, CheckedFacts, SequencesOfChecked DEF CallStatement, Plain
<1>15. OnlyCalls \in Seq(Checked)
  BY Zenon, CheckedFacts, SequencesOfChecked DEF OnlyCalls, Fail, Nothing, Plain
<1> QED
  BY <1>1, <1>2, <1>3, <1>4, <1>5, <1>6, <1>7, <1>8, <1>9, <1>10, <1>11, <1>12, <1>13, <1>14, <1>15

\* So do those of expressions (parse_unary, parse_primary, parse_named_or_external).
LEMMA ExpressionsGiveItems ==
  ASSUME AtToken
  PROVE  /\ CallArguments \in Seq(Checked)
         /\ Place \in Seq(Checked)
         /\ \A l \in {"place suffix", "postfix suffix"} : Suffix(l) \in Seq(Checked)
         /\ PlaceSuffix \in Seq(Checked)
         /\ PostfixSuffix \in Seq(Checked)
         /\ Unary \in Foreseen
         /\ Condition \in Seq(Checked)
         /\ Primary \in Foreseen
         /\ Strings \in Foreseen
         /\ MemberPath \in Seq(Checked)
         /\ ArrayInitializer \in Seq(Checked)
         /\ Elements \in Seq(Checked)
         /\ MoreElements \in Seq(Checked)
         /\ AggregateInitializer \in Seq(Checked)
         /\ Initializers \in Seq(Checked)
         /\ MoreInitializers \in Seq(Checked)
         /\ Initializer \in Seq(Checked)
         /\ Anonymous \in Seq(Checked)
         /\ External \in Foreseen
         /\ IsCallTarget(0) => ExternalTarget \in Foreseen
         /\ Named \in Foreseen
         /\ AfterType \in Seq(Checked)
         /\ Arguments \in Seq(Checked)
         /\ \A b \in BOOLEAN : Argument(b) \in Seq(Checked)
         /\ \A n \in Nat : MoreArguments(n) \in Seq(Checked)
         /\ \A n \in Nat : NextArgument(n) \in Seq(Checked)
<1>1. CallArguments \in Seq(Checked)
  BY ZenonT(60), CheckedFacts, SequencesOfChecked, KindFacts DEF CallArguments, Plain, Wantable
<1>2. Place \in Seq(Checked)
  BY ZenonT(60), CheckedFacts, SequencesOfChecked DEF Place, Plain, Wantable
<1>3. \A l \in {"place suffix", "postfix suffix"} : Suffix(l) \in Seq(Checked)
  <2>1. {"place suffix", "postfix suffix"} \subseteq Plain
    BY Zenon DEF Plain
  <2> QED
    BY ZenonT(60), <2>1, CheckedFacts, SequencesOfChecked, KindFacts DEF Suffix, Nothing, Wantable
<1>4. PlaceSuffix \in Seq(Checked)
  BY Zenon, SequencesOfChecked, <1>3 DEF PlaceSuffix
<1>5. PostfixSuffix \in Seq(Checked)
  BY Zenon, CheckedFacts, SequencesOfChecked, <1>3, <1>1 DEF PostfixSuffix, Plain
<1>6. Unary \in Foreseen
  <2>1. /\ \A k \in {"-", "!", "~"} : k \in Wantable
        /\ P("unary") \in Checked /\ Gives("other") \in Checked /\ Want("&") \in Checked /\ P("place") \in Checked
    BY ZenonT(60), CheckedFacts, KindFacts DEF Plain, Wantable
  <2>2. Peek(0) \in {"-", "!", "~"} => <<Seen({Peek(0)}, 0), P("unary"), Gives("other")>> \in Foreseen
    BY <2>1, FirstForeseen
  <2>3. <<Want("&"), P("place"), Gives("other")>> \in Foreseen
    BY Zenon, <2>1, SequencesOfChecked, SequencesOfForeseen
  <2>4. Peek(1) \in Identifiers => <<Want("&"), Seen(Identifiers, 1), Gives("other")>> \in Foreseen
    <3>1. Want("&").symbol = "want"
      BY DEF Want, Item
    <3> QED
      BY <2>1, <3>1, SecondForeseen
  <2>5. <<P("primary"), P("postfix suffix")>> \in Foreseen
    BY Zenon, CheckedFacts, SequencesOfChecked, SequencesOfForeseen DEF Plain
  <2> QED
    BY Zenon, <2>2, <2>3, <2>4, <2>5 DEF Unary
<1>7. Condition \in Seq(Checked)
  BY ZenonT(60), CheckedFacts, SequencesOfChecked DEF Condition, Wantable
<1>8. Primary \in Foreseen
  <2>1. {"string", "variable", "offsetof", "(", ")", ","} \subseteq Wantable
    BY ZenonT(60) DEF Wantable
  <2>2. Peek(0) \in Integers64 \cup {"float", "sizeof", "alignof"} => Peek(0) \in Wantable
    BY Zenon, KindFacts DEF Wantable
  <2>3. Peek(0) \in Integers64 \cup {"float"} => <<Want(Peek(0)), Gives("other")>> \in Seq(Checked)
    BY Zenon, <2>2, CheckedFacts, KindFacts, SequencesOfChecked
  <2>4. /\ <<Want("string"), P("strings"), Gives("other")>> \in Seq(Checked)
        /\ <<Want("variable"), Gives("variable")>> \in Seq(Checked)
    BY Zenon, <2>1, CheckedFacts, KindFacts, SequencesOfChecked DEF Plain
  <2>5. (IF Peek(2) = "variable" THEN Expression ELSE PArg("type", 1)) \in Checked
    BY Zenon, CheckedFacts DEF Plain
  <2>6. Peek(0) \in {"sizeof", "alignof"} =>
          <<Seen({Peek(0)}, 0), Want("("),
              IF Peek(2) = "variable" THEN Expression ELSE PArg("type", 1), Want(")"), Gives("other")>>
            \in Foreseen
    <3> DEFINE x == IF Peek(2) = "variable" THEN Expression ELSE PArg("type", 1)
    <3>1. Want("(") \in Checked /\ Want(")") \in Checked /\ Gives("other") \in Checked
      BY Zenon, <2>1, CheckedFacts, KindFacts
    <3>2. x \in Checked
      BY <2>5
    <3> HIDE DEF x
    <3>3. Peek(0) \in {"sizeof", "alignof"} =>
            <<Seen({Peek(0)}, 0), Want("("), x, Want(")"), Gives("other")>> \in Foreseen
      BY <2>2, <3>1, <3>2, FirstForeseen
    <3> QED
      BY <3>3 DEF x
  <2>7. Peek(0) = "offsetof" =>
          <<Seen({"offsetof"}, 0), Want("("), PArg("type", 1), Want(","), WantName, P("member path"),
            Want(")"), Gives("other")>> \in Foreseen
    <3>1. /\ Want("(") \in Checked /\ PArg("type", 1) \in Checked /\ Want(",") \in Checked
          /\ WantName \in Checked /\ P("member path") \in Checked /\ Want(")") \in Checked
          /\ Gives("other") \in Checked
      BY Zenon, <2>1, CheckedFacts, KindFacts DEF Plain
    <3> QED
      BY <2>1, <3>1, FirstForeseen
  <2>8. /\ <<PArg("type", 1), P("anonymous")>> \in Seq(Checked)
        /\ <<P("external")>> \in Seq(Checked) /\ Fail \in Seq(Checked)
    BY Zenon, CheckedFacts, SequencesOfChecked DEF Plain, Fail
  <2> QED
    BY Zenon, <1>7, <2>3, <2>4, <2>6, <2>7, <2>8, SequencesOfForeseen DEF Primary
<1>9. Strings \in Foreseen
  <2>1. {"string"} \in SUBSET Wantable
    BY ZenonT(60) DEF Wantable
  <2>2. Peek(0) = "string" => <<Seen({"string"}, 0), P("strings")>> \in Foreseen
    <3>1. P("strings") \in Checked
      BY Zenon, CheckedFacts DEF Plain
    <3> QED
      BY <2>1, <3>1, FirstForeseen
  <2>3. Nothing \in Foreseen
    BY Zenon, SequencesOfChecked, SequencesOfForeseen DEF Nothing
  <2> QED
    BY Zenon, <2>2, <2>3 DEF Strings
<1>10. MemberPath \in Seq(Checked)
  BY Zenon, CheckedFacts, SequencesOfChecked DEF MemberPath, Nothing, Plain, Wantable
<1>11. ArrayInitializer \in Seq(Checked)
  BY ZenonT(60), CheckedFacts, SequencesOfChecked, KindFacts DEF ArrayInitializer, Plain, Wantable
<1>12. Elements \in Seq(Checked)
  BY Zenon, CheckedFacts, SequencesOfChecked DEF Elements, Nothing, Plain
<1>13. MoreElements \in Seq(Checked)
  BY Zenon, CheckedFacts, SequencesOfChecked DEF MoreElements, Nothing, Plain, Wantable
<1>14. AggregateInitializer \in Seq(Checked)
  BY ZenonT(60), CheckedFacts, SequencesOfChecked, KindFacts DEF AggregateInitializer, Plain, Wantable
<1>15. Initializers \in Seq(Checked)
  BY ZenonT(60), CheckedFacts, SequencesOfChecked DEF Initializers, Nothing, Plain, Wantable
<1>16. MoreInitializers \in Seq(Checked)
  BY Zenon, CheckedFacts, SequencesOfChecked DEF MoreInitializers, Nothing, Plain, Wantable
<1>17. Initializer \in Seq(Checked)
  BY Zenon, SequencesOfChecked, <1>11, <1>14 DEF Initializer
<1>18. Anonymous \in Seq(Checked)
  BY Zenon, CheckedFacts, SequencesOfChecked, KindFacts, <1>17 DEF Anonymous, Fail, Plain
<1>19. External \in Foreseen
  <2>1. Peek(0) \in Identifiers /\ Peek(1) = "." /\ Peek(2) \in Identifiers =>
          <<Seen(Identifiers, 0), Seen({"."}, 1), Seen(Identifiers, 2), PArg("type", 0),
            P("external target")>> \in Foreseen
    <3>1. PArg("type", 0) \in Checked /\ P("external target") \in Checked
      BY Zenon, CheckedFacts DEF Plain
    <3> QED
      BY <3>1, ThreeForeseen
  <2>2. <<P("named")>> \in Foreseen
    BY Zenon, CheckedFacts, SequencesOfChecked, SequencesOfForeseen DEF Plain
  <2> QED
    BY Zenon, <2>1, <2>2 DEF External
<1>20. IsCallTarget(0) => ExternalTarget \in Foreseen
  <2>1. Identifiers \cup {"variable"} \in SUBSET Wantable
    BY Zenon, KindFacts DEF Wantable
  <2> QED
    BY Zenon, <1>1, <2>1, FirstForeseen DEF ExternalTarget, IsCallTarget
<1>21. Named \in Foreseen
  <2>1. <<PArg("type", 0), P("after type")>> \in Foreseen
    BY Zenon, CheckedFacts, SequencesOfChecked, SequencesOfForeseen DEF Plain
  <2>2. IsCallTarget(1) => <<PArg("type", 0), Seen(Identifiers \cup {"variable"}, 1)>> \o CallArguments \in Foreseen
    BY <1>1, TargetForeseen DEF IsCallTarget, CallTargets
  <2> QED
    BY Zenon, <2>1, <2>2 DEF Named
<1>22. AfterType \in Seq(Checked)
  BY ZenonT(60), CheckedFacts, SequencesOfChecked, KindFacts, <1>1, <1>17 DEF AfterType, Fail, Plain, Wantable
<1>23. Arguments \in Seq(Checked)
  BY Zenon, CheckedFacts, SequencesOfChecked DEF Arguments, Nothing, Plain
<1>24. \A b \in BOOLEAN : Argument(b) \in Seq(Checked)
  BY Zenon, CheckedFacts, SequencesOfChecked DEF Argument, Nothing, Plain
<1>25. \A n \in Nat : MoreArguments(n) \in Seq(Checked)
  BY Zenon, CheckedFacts, SequencesOfChecked DEF MoreArguments, Nothing, Plain, Wantable
<1>26. \A n \in Nat : NextArgument(n) \in Seq(Checked)
  BY Zenon, CheckedFacts, SequencesOfChecked DEF NextArgument, Fail, Plain
<1> QED
  BY <1>1, <1>2, <1>3, <1>4, <1>5, <1>6, <1>7, <1>8, <1>9, <1>10, <1>11, <1>12, <1>13, <1>14,
      <1>15, <1>16, <1>17, <1>18, <1>19, <1>20, <1>21, <1>22, <1>23, <1>24, <1>25, <1>26

\* A loop of operators takes no end of the input for one, as that has precedence 0.
LEMMA OperatorsGiveItems ==
  ASSUME AtToken, NEW item \in Items, item.symbol \in Leveled
  PROVE  Operators(item) \in Seq(Items) /\ ExpressionFrom(item.arg) \in Seq(Items)
<1> DEFINE p == Precedence(Peek(0))
           node == [PArg("binary", pos) EXCEPT !.from = item.from]
<1>1. item.arg \in Nat \ {0} /\ item.from \in 1..Len(tokens)
  <2>1. Leveled \cap (Plain \cup Special) = {}
    BY Zenon DEF Leveled, Plain, Special
  <2> QED
    BY <2>1 DEF Items
<1>2. p \in Nat /\ (p >= item.arg => Peek(0) \in Wantable)
  <2>1. Peek(0) \in Wantable \cup {Eof}
    BY PeekFacts DEF Kinds
  <2>2. p \in Nat /\ (Peek(0) = Eof => p = 0)
    BY PrecedenceFacts
  <2> QED
    BY <1>1, <2>1, <2>2
<1>3. node \in Items
  <2>1. "binary" \in Special /\ {} \in Sets
    BY DEF Special, Sets
  <2>2. node = [symbol |-> "binary", set |-> {}, arg |-> pos, from |-> item.from]
    BY DEF PArg, Item
  <2>3. pos \in Nat
    BY DEF AtToken
  <2> HIDE DEF node
  <2>4. node \in [symbol : Plain \cup Special, set : Sets, arg : Nat, from : 1..Len(tokens)]
    BY <1>1, <2>1, <2>2, <2>3
  <2> QED
    BY <1>1, <2>1, <2>2, <2>3, <2>4 DEF Items
<1>4. "operators" \in Leveled /\ "expression" \in Leveled /\ "unary" \in Plain
  BY Zenon DEF Leveled, Plain
<1>5. p >= item.arg => Seen({Peek(0)}, 0) \in Items
  BY <1>2, ItemFacts DEF Pushed
<1>6. PArg("expression", p + 1) \in Items /\ PArg("operators", item.arg) \in Items
  <2>1. p + 1 \in Nat \ {0}
    BY <1>2
  <2> QED
    BY Zenon, <1>1, <1>4, <2>1, ItemFacts
<1>7. P("unary") \in Items
  BY <1>4, ItemFacts DEF Pushed
<1>8. ExpressionFrom(item.arg) \in Seq(Items)
  BY <1>6, <1>7, SequencesOfItems DEF ExpressionFrom
<1>9. Operators(item) \in Seq(Items)
  <2> HIDE DEF p, node
  <2>1. p < item.arg \/ p >= item.arg
    BY <1>1, <1>2
  <2>2. p >= item.arg => <<Seen({Peek(0)}, 0), PArg("expression", p + 1), node, item>> \in Seq(Items)
    BY Zenon, <1>3, <1>5, <1>6, SequencesOfItems
  <2> QED
    BY Zenon, <2>1, <2>2, SequencesOfItems DEF Operators, Nothing, p, node
<1> QED
  BY <1>8, <1>9

\* Whatever is ahead, every other item comes down to items pushed there.
LEMMA ProductionPushes ==
  ASSUME AtToken, NEW item \in Items, item.symbol \in Plain
  PROVE  Production(item) \in Foreseen
<1>1. (item.arg = 1) \in BOOLEAN /\ item.arg \in Nat
  BY DEF Items
<1>4. ModuleStatements \in Seq(Checked)
  BY Zenon, CheckedFacts, SequencesOfChecked DEF ModuleStatements, Nothing, Plain
<1>5. CASE item.symbol \in {"module", "statement"}
  BY Zenon, <1>1, <1>4, <1>5, StatementsGiveItems, SequencesOfForeseen DEF Production
<1>6. CASE item.symbol \in {"block", "statements", "else", "arms", "more cases",
    "next case", "assert message", "call statement", "only calls"}
  BY Zenon, <1>1, <1>6, StatementsGiveItems, SequencesOfForeseen DEF Production
<1>7. CASE item.symbol \in {"pack", "pack value", "type", "type suffix", "array suffix",
    "fields", "field suffix", "field separator", "parameters", "parameter", "more parameters"}
  BY Zenon, <1>1, <1>7, TypesGiveItems, SequencesOfForeseen DEF Production
<1>8. CASE item.symbol \in {"place", "place suffix", "postfix suffix", "unary", "primary",
    "strings", "member path", "elements", "more elements"}
  BY Zenon, <1>1, <1>8, ExpressionsGiveItems, SequencesOfForeseen DEF Production
<1>9. CASE item.symbol \in {"initializers", "more initializers", "anonymous", "external",
    "named", "after type"}
  BY Zenon, <1>1, <1>9, ExpressionsGiveItems, SequencesOfForeseen DEF Production
<1>10. CASE item.symbol \in {"arguments", "argument", "more arguments", "next argument"}
  BY Zenon, <1>1, <1>10, ExpressionsGiveItems, SequencesOfForeseen DEF Production
<1> QED
  BY Zenon, <1>5, <1>6, <1>7, <1>8, <1>9, <1>10 DEF Plain

\* What is pushed is made of items.
LEMMA PushedAreItems ==
  Pushed \subseteq Items /\ \A p \in Seq(Pushed) : p \in Seq(Items)
BY DEF Pushed

\* Every item comes down to items.
LEMMA ProductionGivesItems ==
  ASSUME AtToken, NEW item \in Items, item.symbol \notin Special
  PROVE  Production(item) \in Seq(Items)
<1>1. item.symbol \in Plain \cup Leveled
  BY DEF Items
<1>2. CASE item.symbol \in Leveled
  <2>1. item.symbol \in {"expression", "operators"}
    BY <1>2 DEF Leveled
  <2> QED
    BY Zenon, <2>1, <1>2, OperatorsGiveItems DEF Production
<1>3. CASE item.symbol \in Plain
  BY <1>3, ProductionPushes, SequencesOfForeseen, PushedAreItems
<1> QED
  BY <1>1, <1>2, <1>3

-----------------------------------------------------------------------------
(* The steps of the parser.                                                  *)

\* No item holds the end of the input.
LEMMA NoItemWantsEof ==
  ASSUME NEW item \in Items
  PROVE  Eof \notin item.set
<1>1. Eof \notin Wantable \cup Results
  BY Zenon DEF Eof, Wantable, Results, TypeKinds
<1>2. item.set \in Sets
  BY DEF Items
<1> QED
  BY <1>1, <1>2 DEF Sets

\* The facts that every step starts from.
LEMMA ParserFacts ==
  ASSUME ParserInv, outcome = "parsing"
  PROVE  /\ AtToken /\ Ended /\ stack \in Seq(Items)
         /\ stack # <<>> => Top \in Items /\ Tail(stack) \in Seq(Items)
BY DEF ParserInv, AtToken, Top

\* What is foreseen does not change while the tokens do not.
LEMMA SeenAheadIsKept ==
  ASSUME tokens' = tokens
  PROVE  SeenAhead(stack, pos)' = SeenAhead(stack', pos')
BY DEF SeenAhead, AheadAt

\* What a step has to show.
LEMMA StepKeepsInv ==
  ASSUME ParserInv, outcome = "parsing", tokens' = tokens, outcome' # "scanning",
         pos' \in 1..Len(tokens), stack' \in Seq(Items), SeenAhead(stack', pos')
  PROVE  ParserInv'
<1>1. Items' = Items /\ Ended' = Ended
  BY DEF Items, Ended
<1>2. SeenAhead(stack, pos)'
  BY SeenAheadIsKept
<1> QED
  BY <1>1, <1>2 DEF ParserInv

\* Behind what is neither a token nor a type, nothing is taken without a look.
Leads(item) == Is(item, "want") \/ Is(item, "gives") \/ NamedType(item) \/ IsSuffix(item)
LEMMA LeadingItems ==
  ASSUME NEW item
  PROVE  /\ Is(item, "want") => ~Is(item, "gives") /\ ~NamedType(item) /\ ~IsSuffix(item)
         /\ Is(item, "gives") => ~NamedType(item) /\ ~IsSuffix(item)
         /\ NamedType(item) => ~IsSuffix(item)
         /\ Advances(item) => Is(item, "want")
         /\ item.symbol \in {"binary", "assignment", "external target"} => ~Leads(item)
BY Zenon DEF Is, NamedType, IsSuffix, Advances, Leads

LEMMA NothingSeenBehind ==
  ASSUME NEW st, NEW p, SeenAhead(st, p), NEW i \in 1..Len(st), Len(st) \in Nat,
         ~Leads(st[i])
  PROVE  \A k \in (i + 1)..Len(st) : ~Advances(st[k])
<1> SUFFICES ASSUME NEW k \in (i + 1)..Len(st), Advances(st[k]) PROVE FALSE
  OBVIOUS
<1>1. k \in 1..Len(st) /\ i < k /\ i \in Nat
  OBVIOUS
<1>2. AheadAt(st, p, k)
  BY <1>1 DEF SeenAhead
<1>3. i \in 1..(k - 1)
  BY <1>1
<1>4. CASE k = 2
  <2>1. i = 1
    BY <1>3, <1>4
  <2> QED
    BY <1>2, <1>4, <2>1 DEF AheadAt, Leads
<1>5. CASE k = 3
  <2>1. i = 1 \/ i = 2
    BY <1>3, <1>5
  <2> QED
    BY <1>2, <1>5, <2>1 DEF AheadAt, Leads
<1>6. CASE k = 4
  <2>1. i = 1 \/ i = 2 \/ i = 3
    BY <1>3, <1>6
  <2> QED
    BY <1>2, <1>6, <2>1 DEF AheadAt, Leads
<1>7. k \in {2, 3, 4}
  BY <1>1, <1>2 DEF AheadAt
<1> QED
  BY <1>4, <1>5, <1>6, <1>7

\* What is foreseen stays so before what looks at its tokens.
LEMMA SeenAheadOfRest ==
  ASSUME NEW S, NEW q \in Seq(S), NEW rest \in Seq(S), NEW p, SeenAhead(q, p),
         \A k \in 1..Len(rest) : ~Advances(rest[k])
  PROVE  SeenAhead(q \o rest, p)
<1> DEFINE st == q \o rest
<1>1. Len(st) = Len(q) + Len(rest) /\ Len(q) \in Nat /\ Len(rest) \in Nat
  OBVIOUS
<1>2. \A k \in 1..Len(q) : st[k] = q[k]
  OBVIOUS
<1>3. \A k \in (Len(q) + 1)..Len(st) : st[k] = rest[k - Len(q)] /\ k - Len(q) \in 1..Len(rest)
  OBVIOUS
<1> SUFFICES ASSUME NEW k \in 1..Len(st), Advances(st[k]) PROVE AheadAt(st, p, k)
  BY DEF SeenAhead
<1> HIDE DEF st
<1>4. k \in 1..Len(q)
  BY <1>1, <1>3
<1>5. st[k] = q[k] /\ AheadAt(q, p, k)
  BY <1>2, <1>4 DEF SeenAhead
<1>6. /\ k >= 2 => st[1] = q[1]
      /\ k >= 3 => st[2] = q[2]
      /\ k >= 4 => st[3] = q[3]
  BY <1>1, <1>2, <1>4
<1> QED
  BY <1>4, <1>5, <1>6 DEF AheadAt

\* The first item takes a token.
LEMMA SeenAheadOfMatch ==
  ASSUME NEW S, NEW st \in Seq(S), st # <<>>, Is(st[1], "want"), NEW p \in Nat, SeenAhead(st, p)
  PROVE  SeenAhead(Tail(st), p + 1)
<1> SUFFICES ~NamedType(st[1]) /\ ~Is(st[1], "gives") /\ ~IsSuffix(st[1]) => SeenAhead(Tail(st), p + 1)
  BY LeadingItems, Zenon
<1>6. SUFFICES ASSUME ~NamedType(st[1]), ~Is(st[1], "gives"), ~IsSuffix(st[1]) PROVE SeenAhead(Tail(st), p + 1)
  OBVIOUS
<1> DEFINE t == Tail(st)
<1>1. Len(t) = Len(st) - 1 /\ \A k \in 1..Len(t) : t[k] = st[k + 1] /\ k + 1 \in 1..Len(st)
  OBVIOUS
<1> HIDE DEF t
<1>2. SUFFICES ASSUME NEW k \in 1..Len(t), Advances(t[k]) PROVE AheadAt(t, p + 1, k)
  BY DEF SeenAhead, t
<1>3. t[k] = st[k + 1] /\ AheadAt(st, p, k + 1)
  BY <1>1, <1>2 DEF SeenAhead
<1>4. /\ k >= 2 => t[1] = st[2]
      /\ k >= 3 => t[2] = st[3]
  BY <1>1
<1>5. (p + 1) + 1 = p + 2 /\ k \in Nat \ {0}
  OBVIOUS
<1> QED
  BY <1>2, <1>3, <1>4, <1>5, <1>6 DEF AheadAt

\* The first item takes none.
LEMMA SeenAheadOfReturn ==
  ASSUME NEW S, NEW st \in Seq(S), st # <<>>, NEW p \in Nat, SeenAhead(st, p),
         ~Is(st[1], "want"), ~NamedType(st[1])
  PROVE  SeenAhead(Tail(st), p)
<1> DEFINE t == Tail(st)
<1>1. Len(t) = Len(st) - 1 /\ \A k \in 1..Len(t) : t[k] = st[k + 1] /\ k + 1 \in 1..Len(st)
  OBVIOUS
<1> HIDE DEF t
<1>2. SUFFICES ASSUME NEW k \in 1..Len(t), Advances(t[k]) PROVE AheadAt(t, p, k)
  BY DEF SeenAhead, t
<1>3. t[k] = st[k + 1] /\ AheadAt(st, p, k + 1)
  BY <1>1, <1>2 DEF SeenAhead
<1>4. /\ k >= 2 => t[1] = st[2]
      /\ k >= 3 => t[2] = st[3]
  BY <1>1
<1>5. k \in Nat \ {0} /\ \A item, token : TakesTarget(item, token) => Takes(item, token)
  BY DEF Takes, TakesTarget
<1> QED
  BY <1>2, <1>3, <1>4, <1>5 DEF AheadAt

\* The first item is a type of one token.
LEMMA SeenAheadOfType ==
  ASSUME NEW S, NEW st \in Seq(S), st # <<>>, NamedType(st[1]), NEW p \in Nat, SeenAhead(st, p),
         NEW a, NEW b, NEW c,
         Is(a, "want"), ~Advances(a), Is(b, "gives"), IsSuffix(c)
  PROVE  SeenAhead(<<a, b, c>> \o Tail(st), p)
<1> DEFINE q == <<a, b, c>>
           rest == Tail(st)
           All == S \cup {a, b, c}
           t == q \o rest
<1>1. ~Is(st[1], "want") /\ ~Is(st[1], "gives") /\ ~IsSuffix(st[1]) /\ ~Advances(b) /\ ~Advances(c)
  BY LeadingItems, Zenon
<1>2. /\ rest \in Seq(All) /\ Len(rest) \in Nat /\ Len(rest) = Len(st) - 1 /\ Len(st) \in Nat
      /\ \A k \in 1..Len(rest) : rest[k] = st[k + 1] /\ k + 1 \in 2..Len(st)
  OBVIOUS
<1>3. Len(q) = 3 /\ q[1] = a /\ q[2] = b /\ q[3] = c /\ q \in Seq(All)
  OBVIOUS
<1> HIDE DEF q, rest, All
<1>4. /\ Len(t) = 3 + Len(rest) /\ t[1] = a /\ t[2] = b /\ t[3] = c
      /\ \A k \in 4..Len(t) : t[k] = rest[k - 3] /\ k - 3 \in 1..Len(rest)
  <2>1. /\ Len(t) = Len(q) + Len(rest)
        /\ \A k \in 1..Len(q) : t[k] = q[k]
        /\ \A k \in (Len(q) + 1)..Len(t) : t[k] = rest[k - Len(q)]
    <3>1. q \in Seq(All) /\ rest \in Seq(All)
      BY <1>2, <1>3
    <3> QED
      BY <3>1
  <2> HIDE DEF t
  <2>2. 1 \in 1..Len(q) /\ 2 \in 1..Len(q) /\ 3 \in 1..Len(q)
    BY <1>3
  <2>3. t[1] = a /\ t[2] = b /\ t[3] = c
    BY <1>3, <2>1, <2>2
  <2>4. \A k \in 4..Len(t) : t[k] = rest[k - 3] /\ k - 3 \in 1..Len(rest)
    BY <1>2, <1>3, <2>1
  <2> QED
    BY <1>3, <2>1, <2>3, <2>4
<1> HIDE DEF t
<1>5. SUFFICES ASSUME NEW k \in 1..Len(t), Advances(t[k]) PROVE AheadAt(t, p, k)
  BY DEF SeenAhead, t, q, rest
<1>6. k \in 4..Len(t)
  <2>1. k # 1 /\ k # 2 /\ k # 3
    BY <1>1, <1>4, <1>5
  <2> QED
    BY <2>1, <1>2, <1>4
<1>7. t[k] = st[k - 2] /\ k - 2 \in 2..Len(st) /\ k \in Nat
  BY <1>2, <1>4, <1>6
<1>8. AheadAt(st, p, k - 2) /\ k - 2 # 1
  BY <1>5, <1>7 DEF SeenAhead
<1>9. k - 2 = 2 /\ TakesTarget(st[k - 2], tokens[p + 1])
  BY <1>1, <1>8 DEF AheadAt
<1>10. k = 4
  BY <1>7, <1>9
<1> QED
  BY <1>4, <1>7, <1>9, <1>10 DEF AheadAt

\* An operator was seen.
LEMMA OperatorsForeseen ==
  ASSUME AtToken, NEW item \in Items, item.symbol \in Leveled
  PROVE  SeenAhead(Operators(item), pos) /\ SeenAhead(ExpressionFrom(item.arg), pos)
<1>1. \A symbol, n : PArg(symbol, n).symbol = symbol /\ P(symbol).symbol = symbol
  BY DEF PArg, P, Item
<1>2. SeenAhead(ExpressionFrom(item.arg), pos)
  BY <1>1 DEF SeenAhead, Advances, ExpressionFrom
<1>3. SeenAhead(<<>>, pos)
  BY DEF SeenAhead
<1> DEFINE a == Seen({Peek(0)}, 0)
           b == PArg("expression", Precedence(Peek(0)) + 1)
           node == [PArg("binary", pos) EXCEPT !.from = item.from]
           t == <<a, b, node, item>>
<1>4. tokens[pos] \in a.set
  BY DEF AtToken, Peek, Seen, Item
<1>5. b.symbol # "want" /\ node.symbol # "want" /\ item.symbol # "want"
  BY <1>1 DEF Leveled, PArg, Item
<1>6. Operators(item) \in {<<>>, t}
  BY DEF Operators, Nothing
<1> HIDE DEF a, b, node
<1>7. Len(t) = 4 /\ t[1] = a /\ t[2] = b /\ t[3] = node /\ t[4] = item
  OBVIOUS
<1> HIDE DEF t
<1>8. SeenAhead(t, pos)
  <2> SUFFICES ASSUME NEW k \in 1..Len(t), Advances(t[k]) PROVE AheadAt(t, pos, k)
    BY DEF SeenAhead
  <2>1. k = 1 \/ k = 2 \/ k = 3 \/ k = 4
    BY <1>7
  <2>2. k = 1
    BY <1>5, <1>7, <2>1 DEF Advances
  <2> QED
    BY <1>4, <1>7, <2>2 DEF AheadAt, Takes
<1> QED
  BY Zenon, <1>2, <1>3, <1>6, <1>8

\* Every item comes down to what is foreseen.
LEMMA ProductionIsForeseen ==
  ASSUME AtToken, NEW item \in Items, item.symbol \notin Special
  PROVE  SeenAhead(Production(item), pos)
<1>1. item.symbol \in Plain \cup Leveled
  BY DEF Items
<1>2. CASE item.symbol \in Leveled
  <2>1. item.symbol \in {"expression", "operators"}
    BY <1>2 DEF Leveled
  <2> QED
    BY Zenon, <2>1, <1>2, OperatorsForeseen DEF Production
<1>3. CASE item.symbol \in Plain
  BY <1>3, ProductionPushes DEF Foreseen
<1> QED
  BY <1>1, <1>2, <1>3

\* So does the first of what is left to parse, before the others.
LEMMA ExpandIsForeseen ==
  ASSUME ParserInv, outcome = "parsing", stack # <<>>, Top.symbol \notin Special
  PROVE  SeenAhead(Production(Top) \o Tail(stack), pos)
<1>1. AtToken /\ stack \in Seq(Items) /\ Top \in Items /\ Tail(stack) \in Seq(Items)
  BY ParserFacts
<1>2. SeenAhead(stack, pos) /\ pos \in Nat /\ Len(stack) \in Nat \ {0}
  BY <1>1 DEF ParserInv, AtToken
<1>3. Production(Top) \in Seq(Items) /\ SeenAhead(Production(Top), pos)
  BY <1>1, ProductionGivesItems, ProductionIsForeseen
<1>4. ASSUME \A k \in 2..Len(stack) : ~Advances(stack[k])
      PROVE  SeenAhead(Production(Top) \o Tail(stack), pos)
  <2>1. \A k \in 1..Len(Tail(stack)) : Tail(stack)[k] = stack[k + 1] /\ k + 1 \in 2..Len(stack)
    BY <1>1, <1>2
  <2>2. \A k \in 1..Len(Tail(stack)) : ~Advances(Tail(stack)[k])
    BY <1>4, <2>1
  <2> QED
    BY <1>1, <1>3, <2>2, SeenAheadOfRest
<1>5. CASE ~Leads(Top)
  <2>1. 1 \in 1..Len(stack)
    BY <1>2
  <2>2. \A k \in (1 + 1)..Len(stack) : ~Advances(stack[k])
    BY <1>2, <1>5, <2>1, NothingSeenBehind DEF Top
  <2> QED
    BY <1>4, <2>2
<1>6. CASE NamedType(Top)
  <2>3. Top.symbol = "type" /\ Top.arg = 0
    BY <1>6 DEF NamedType
  <2> DEFINE g == Gives(IF Peek(0) \in Builtins THEN "builtin" ELSE "named")
  <2>1. Production(Top) = <<WantName, g, P("type suffix")>>
    <3>1. Production(Top) = TypeSyntax(Top.arg = 1)
      BY Zenon, <2>3 DEF Production
    <3>2. ~(Top.arg = 1)
      BY <2>3
    <3> QED
      BY Zenon, <3>1, <3>2 DEF TypeSyntax
  <2>2. /\ Is(WantName, "want") /\ ~Advances(WantName) /\ Is(g, "gives")
        /\ IsSuffix(P("type suffix"))
    <3>1. /\ WantName.symbol = "want" /\ WantName.arg = 0 /\ g.symbol = "gives"
          /\ \A symbol : P(symbol).symbol = symbol
      BY DEF WantName, WantAny, Gives, P, Item
    <3> QED
      BY Zenon, <3>1 DEF Is, IsSuffix, Advances
  <2> HIDE DEF g
  <2> QED
    BY <1>1, <1>2, <1>6, <2>1, <2>2, SeenAheadOfType DEF Top
<1>7. CASE IsSuffix(Top)
  <2>4. ~Is(Top, "want") /\ ~Is(Top, "gives") /\ ~NamedType(Top)
    BY <1>7, LeadingItems, Zenon
  <2>1. Production(Top) = TypeSuffix
    BY Zenon, <1>7 DEF Production, IsSuffix
  <2>2. CASE Peek(0) = "["
    <3>1. tokens[pos] = "[" /\ "[" \notin CallTargets
      <4>1. "[" \notin CallTargets
        BY ZenonT(60) DEF CallTargets, Identifiers, Keywords, Builtins, Letters
      <4> QED
        BY <1>1, <2>2, <4>1 DEF Peek, AtToken
    <3>2. ASSUME NEW k \in 2..Len(stack), Advances(stack[k]) PROVE FALSE
      <4>1. AheadAt(stack, pos, k) /\ k # 1
        BY <1>2, <3>2 DEF SeenAhead
      <4>2. TakesTarget(stack[k], tokens[pos])
        BY <2>4, <4>1 DEF AheadAt, Top
      <4> QED
        BY <3>1, <4>2 DEF TakesTarget
    <3> QED
      BY <1>4, <3>2
  <2>3. CASE Peek(0) # "["
    <3>1. Production(Top) = <<>>
      BY Zenon, <2>1, <2>3 DEF TypeSuffix, Nothing
    <3>2. Production(Top) \o Tail(stack) = Tail(stack)
      BY <1>1, <3>1
    <3>3. SeenAhead(Tail(stack), pos)
      BY <1>1, <1>2, <2>4, SeenAheadOfReturn DEF Top
    <3> QED
      BY Zenon, <3>2, <3>3
  <2> QED
    BY <2>2, <2>3
<1>8. ~Is(Top, "want") /\ ~Is(Top, "gives")
  BY DEF Special, Is
<1> QED
  BY <1>5, <1>6, <1>7, <1>8 DEF Leads

\* Where the parser goes back to is a token that was read.
LEMMA RewindKeepsInv ==
  ASSUME ParserInv, outcome = "parsing", NEW i \in 1..Len(stack), ~Leads(stack[i]),
         NEW symbol \in Plain, Rewind(i, symbol)
  PROVE  ParserInv'
<1>1. stack \in Seq(Items) /\ AtToken
  BY ParserFacts
<1>2. stack[i] \in Items
  BY <1>1
<1>3. stack[i].from \in 1..Len(tokens)
  BY <1>2 DEF Items
<1> DEFINE again == [Start EXCEPT !.symbol = symbol, !.from = stack[i].from]
<1>4. again \in Items
  <2>1. {} \in Sets
    BY DEF Sets
  <2>2. \A f \in 1..Len(tokens) :
          [Start EXCEPT !.symbol = symbol, !.from = f]
            \in [symbol : Plain \cup Special, set : Sets, arg : Nat, from : 1..Len(tokens)]
    BY <2>1 DEF Start
  <2> QED
    BY <1>3, <2>2 DEF Items
<1>5. SubSeq(stack, i + 1, Len(stack)) \in Seq(Items)
  <2>1. \A j \in (i + 1)..Len(stack) : stack[j] \in Items
    BY <1>1
  <2> QED
    BY <1>1, <2>1, SubSeqProperties
<1>6. /\ tokens' = tokens /\ outcome' = outcome /\ pos' = stack[i].from
      /\ stack' = <<again>> \o SubSeq(stack, i + 1, Len(stack))
  BY DEF Rewind, lexerVars
<1>8. \A f : ~Advances([Start EXCEPT !.symbol = symbol, !.from = f])
  <2>1. "want" \notin Plain
    BY Zenon DEF Plain
  <2> QED
    BY <2>1 DEF Advances, Start
<1>9. ~Advances(again)
  BY <1>8
<1> HIDE DEF again
<1>7. stack' \in Seq(Items)
  BY <1>4, <1>5, <1>6, SequencesOfItems
<1>10. SeenAhead(stack', pos')
  <2> DEFINE rest == SubSeq(stack, i + 1, Len(stack))
  <2>1. SeenAhead(stack, pos) /\ Len(stack) \in Nat
    BY <1>1 DEF ParserInv, AtToken
  <2>2. \A k \in (i + 1)..Len(stack) : ~Advances(stack[k])
    BY <2>1, NothingSeenBehind
  <2>3. \A k \in 1..Len(rest) : rest[k] = stack[i + k] /\ i + k \in (i + 1)..Len(stack)
    BY <1>1
  <2>4. \A k \in 1..Len(rest) : ~Advances(rest[k])
    BY <2>2, <2>3
  <2>5. SeenAhead(<<again>>, pos')
    BY <1>9 DEF SeenAhead
  <2>6. <<again>> \in Seq(Items) /\ rest \in Seq(Items)
    BY <1>4, <1>5
  <2> HIDE DEF rest
  <2>7. SeenAhead(<<again>> \o rest, pos')
    BY <2>4, <2>5, <2>6, SeenAheadOfRest
  <2> QED
    BY <1>6, <2>7 DEF rest
<1> QED
  BY <1>3, <1>6, <1>7, <1>10, StepKeepsInv

\* The token that is consumed or taken is one that the item stands for.
LEMMA WantedIsThere ==
  ASSUME ParserInv, outcome = "parsing", stack # <<>>, Top.symbol = "want", ~Fails
  PROVE  Peek(0) \in Top.set
<1>1. Top.arg # 0 \/ Peek(0) \in Top.set
  BY Zenon DEF Fails, Special
<1>2. CASE Top.arg # 0
  <2>1. AtToken /\ SeenAhead(stack, pos) /\ 1 \in 1..Len(stack)
    BY ParserFacts DEF ParserInv
  <2>2. AheadAt(stack, pos, 1)
    BY <1>2, <2>1 DEF SeenAhead, Advances, Top
  <2> QED
    BY <2>1, <2>2 DEF AheadAt, Takes, Top, Peek, AtToken
<1> QED
  BY <1>1, <1>2

\* A token is consumed only where it is not the last one.
LEMMA MatchKeepsInv ==
  ASSUME ParserInv, Match
  PROVE  ParserInv'
<1>1. /\ outcome = "parsing" /\ stack # <<>> /\ Top.symbol = "want" /\ ~Fails
      /\ pos' = pos + 1 /\ stack' = Tail(stack) /\ tokens' = tokens /\ outcome' = outcome
  BY DEF Match, Parsing, lexerVars
<1>2. AtToken /\ Ended /\ Top \in Items /\ Tail(stack) \in Seq(Items)
  BY <1>1, ParserFacts
<1>3. Peek(0) \in Top.set
  BY <1>1, WantedIsThere
<1>4. Peek(0) # Eof
  BY <1>2, <1>3, NoItemWantsEof
<1>5. Peek(0) = tokens[pos] /\ pos \in 1..Len(tokens) /\ Len(tokens) \in Nat
  BY <1>2 DEF Peek, AtToken
<1>6. pos # Len(tokens)
  BY <1>2, <1>4, <1>5 DEF Ended
<1>7. pos' \in 1..Len(tokens)
  BY <1>1, <1>5, <1>6
<1>8. SeenAhead(stack', pos')
  <2>1. SeenAhead(stack, pos) /\ stack \in Seq(Items) /\ pos \in Nat
    BY <1>1, <1>2 DEF ParserInv, AtToken
  <2>2. SeenAhead(Tail(stack), pos + 1)
    BY <1>1, <2>1, SeenAheadOfMatch DEF Top, Is
  <2> QED
    BY <1>1, <2>2
<1> QED
  BY <1>1, <1>2, <1>7, <1>8, StepKeepsInv

\* One case for each step of the parser.
LEMMA ParseKeepsInv ==
  ASSUME ParserInv, outcome = "parsing", Parse
  PROVE  ParserInv'
<1>1. AtToken /\ stack \in Seq(Items) /\ pos \in 1..Len(tokens)
  BY ParserFacts DEF AtToken
<1>2. stack # <<>> => Top \in Items /\ Tail(stack) \in Seq(Items)
  BY ParserFacts
<1>14. SeenAhead(stack, pos) /\ pos \in Nat
  BY <1>1 DEF ParserInv, AtToken
<1>3. ASSUME pos' = pos, stack' \in Seq(Items), tokens' = tokens, outcome' # "scanning",
             SeenAhead(stack', pos)
      PROVE  ParserInv'
  BY <1>1, <1>3, StepKeepsInv
<1>4. ASSUME NEW e \in {"accepted", "incomplete", "rejected"}, Throw(e), UNCHANGED parserVars
      PROVE  ParserInv'
  BY <1>1, <1>3, <1>4, <1>14 DEF Throw, parserVars
<1>5. ASSUME NEW new \in Seq(Items), stack # <<>>, stack' = new \o Tail(stack),
    SeenAhead(new \o Tail(stack), pos), UNCHANGED <<lexerVars, pos>>
      PROVE  ParserInv'
  <2>1. new \o Tail(stack) \in Seq(Items)
    BY <1>2, <1>5, SequencesOfItems
  <2> QED
    BY <1>3, <1>5, <2>1 DEF lexerVars
<1>6. {"call statement", "named"} \subseteq Plain
  BY Zenon DEF Plain
<1>7. CASE Match
  BY <1>7, MatchKeepsInv
<1>8. CASE Expand
  <2>1. Production(Top) \in Seq(Items) /\ stack # <<>>
    BY <1>1, <1>2, <1>8, ProductionGivesItems DEF Expand
  <2> QED
    BY <1>5, <1>8, <2>1, ExpandIsForeseen DEF Expand
<1>9. CASE Return \/ BuildBinary
  <2>1. stack # <<>> /\ stack' = Tail(stack) /\ UNCHANGED <<lexerVars, pos>>
    BY <1>9 DEF Return, BuildBinary, Parsing
  <2>2. ~Is(stack[1], "want") /\ ~NamedType(stack[1])
    <3>1. stack[1].symbol \in {"gives"} \/ stack[1].symbol \in {"binary"}
      BY Zenon, <1>9 DEF Return, BuildBinary, Parsing, Top
    <3> QED
      BY Zenon, <3>1 DEF Is, NamedType
  <2>3. SeenAhead(Tail(stack), pos)
    BY <1>1, <1>14, <2>1, <2>2, SeenAheadOfReturn
  <2> QED
    BY <1>2, <1>3, <2>1, <2>3 DEF lexerVars
<1>15. ASSUME stack # <<>>, Top.symbol \in {"assignment", "external target"},
             NEW new \in Seq(Items), SeenAhead(new, pos)
      PROVE  ~Leads(stack[1]) /\ SeenAhead(new \o Tail(stack), pos)
  <2>5. ~Leads(stack[1])
    BY <1>15, LeadingItems, Zenon DEF Top
  <2>6. stack # <<>> /\ new \in Seq(Items) /\ SeenAhead(new, pos)
    BY Zenon, <1>15
  <2>1. ~Leads(stack[1]) /\ 1 \in 1..Len(stack) /\ Len(stack) \in Nat
    BY <1>1, <2>5, <2>6
  <2>2. \A k \in (1 + 1)..Len(stack) : ~Advances(stack[k])
    BY <1>14, <2>1, NothingSeenBehind
  <2>3. \A k \in 1..Len(Tail(stack)) : Tail(stack)[k] = stack[k + 1] /\ k + 1 \in (1 + 1)..Len(stack)
    BY <1>1, <2>6
  <2>4. \A k \in 1..Len(Tail(stack)) : ~Advances(Tail(stack)[k])
    BY <2>2, <2>3
  <2> QED
    BY <1>2, <2>1, <2>4, <2>6, SeenAheadOfRest
<1>10. CASE Assignment
  <2>1. stack # <<>> /\ 1 \in 1..Len(stack)
    <3>1. stack # <<>>
      BY Zenon, <1>10 DEF Assignment, Parsing
    <3> QED
      BY <1>1, <3>1
  <2>2. <<Want("="), Expression>> \in Seq(Items) /\ SeenAhead(<<Want("="), Expression>>, pos)
    <3>1. <<Want("="), Expression>> \in Foreseen
      BY Zenon, <1>1, CheckedFacts, SequencesOfChecked, SequencesOfForeseen DEF Wantable
    <3> QED
      BY <3>1, PushedAreItems DEF Foreseen
  <2>4. Top.symbol \in {"assignment", "external target"}
    BY Zenon, <1>10 DEF Assignment, Parsing
  <2>5. ~Leads(stack[1]) /\ SeenAhead(<<Want("="), Expression>> \o Tail(stack), pos)
    BY <1>15, <2>1, <2>2, <2>4
  <2>3. \/ stack' = <<Want("="), Expression>> \o Tail(stack) /\ UNCHANGED <<lexerVars, pos>>
        \/ Rewind(1, "call statement")
    BY Zenon, <1>10 DEF Assignment
  <2> QED
    BY <1>5, <1>6, <2>1, <2>2, <2>3, <2>5, RewindKeepsInv
<1>11. CASE ExternalCall
  <2>1. stack # <<>> /\ 1 \in 1..Len(stack)
    <3>1. stack # <<>>
      BY Zenon, <1>11 DEF ExternalCall, Parsing
    <3> QED
      BY <1>1, <3>1
  <2>2. IsCallTarget(0) => ExternalTarget \in Seq(Items) /\ SeenAhead(ExternalTarget, pos)
    BY <1>1, ExpressionsGiveItems, PushedAreItems DEF Foreseen
  <2>3. \/ IsCallTarget(0) /\ stack' = ExternalTarget \o Tail(stack) /\ UNCHANGED <<lexerVars, pos>>
        \/ Rewind(1, "named")
    BY Zenon, <1>11 DEF ExternalCall
  <2>4. Top.symbol \in {"assignment", "external target"}
    BY Zenon, <1>11 DEF ExternalCall, Parsing
  <2>5. ~Leads(stack[1])
    BY <2>4, LeadingItems, Zenon DEF Top
  <2>6. IsCallTarget(0) => SeenAhead(ExternalTarget \o Tail(stack), pos)
    BY <1>15, <2>1, <2>2, <2>4
  <2> QED
    BY <1>5, <1>6, <2>1, <2>2, <2>3, <2>5, <2>6, RewindKeepsInv
<1>12. CASE Failure
  <2>1. \/ \E e \in {"incomplete", "rejected"} : Throw(e) /\ UNCHANGED parserVars
        \/ \E i \in 1..Len(stack) : stack[i].symbol = "assignment" /\ Rewind(i, "call statement")
    <3> DEFINE handlers == {i \in 1..Len(stack) : stack[i].symbol = "assignment"}
               h == CHOOSE i \in handlers : TRUE
    <3>1. handlers # {} => h \in handlers
      BY Zenon
    <3>2. h \in handlers => h \in 1..Len(stack) /\ stack[h].symbol = "assignment"
      BY Zenon
    <3>3. \/ \E e \in {"incomplete", "rejected"} : Throw(e) /\ UNCHANGED parserVars
          \/ handlers # {} /\ Rewind(h, "call statement")
      BY Zenon, <1>12 DEF Failure
    <3> QED
      BY Zenon, <3>1, <3>2, <3>3
  <2>2. \A i \in 1..Len(stack) : stack[i].symbol = "assignment" => ~Leads(stack[i])
    BY LeadingItems, Zenon
  <2> QED
    BY <1>4, <1>6, <2>1, <2>2, RewindKeepsInv
<1>13. CASE Accept
  BY <1>4, <1>13 DEF Accept
<1> QED
  BY <1>7, <1>8, <1>9, <1>10, <1>11, <1>12, <1>13 DEF Parse

\* The parser waits at the first token while the tokens are made.
LEMMA ScanKeepsInv ==
  ASSUME ParserInv, Scan, UNCHANGED parserVars
  PROVE  ParserInv'
<1>1. tokens' \in Seq(Kinds) /\ outcome = "scanning" /\ (outcome' = "parsing" => Ended')
  BY ScanGivesTokens DEF ParserInv
<1>2. pos' = 1 /\ stack' = <<Start>>
  BY <1>1 DEF ParserInv, parserVars
<1>4. SeenAhead(stack, pos)'
  <2>1. ~Advances(Start)
    BY DEF Advances, Start
  <2>2. \A k \in 1..Len(<<Start>>) : ~Advances((<<Start>>)[k])
    BY <2>1
  <2>3. \A k \in 1..Len(stack') : ~Advances(stack'[k])
    BY <1>2, <2>2
  <2> QED
    BY <2>3 DEF SeenAhead, Advances
<1>3. Ended' => pos' \in 1..Len(tokens') /\ stack' \in Seq(Items')
  <2> SUFFICES ASSUME Ended' PROVE 1 \in 1..Len(tokens') /\ <<Start>> \in Seq(Items')
    BY <1>2
  <2>1. 1 \in 1..Len(tokens')
    BY <1>1 DEF Ended
  <2>2. "module" \in Plain /\ {} \in Sets
    BY Zenon DEF Plain, Sets
  <2>3. Start \in Items'
    BY <2>1, <2>2 DEF Start, Items
  <2> QED
    BY <2>1, <2>3
<1> QED
  BY <1>1, <1>2, <1>3, <1>4 DEF ParserInv

-----------------------------------------------------------------------------
\* Every step of the program keeps the parser where tokens are.
LEMMA AlwaysParserInv == Spec => []ParserInv
<1>1. Init => ParserInv
  BY DEF Init, NotStarted, ReadyToParse, ParserInv, Ended
<1>2. ParserInv /\ [Next]_vars => ParserInv'
  <2> SUFFICES ASSUME ParserInv, [Next]_vars PROVE ParserInv'
    OBVIOUS
  <2>1. ASSUME UNCHANGED lexerVars, UNCHANGED parserVars
        PROVE  ParserInv'
    <3>1. tokens' = tokens /\ outcome' = outcome /\ pos' = pos /\ stack' = stack
      BY <2>1 DEF lexerVars, parserVars
    <3>2. Items' = Items /\ Ended' = Ended /\ SeenAhead(stack, pos)' = SeenAhead(stack, pos)
      BY <3>1 DEF Items, Ended, SeenAhead, AheadAt
    <3> QED
      BY <3>1, <3>2 DEF ParserInv
  <2>2. ASSUME NEW source, Restart(source), BeginParse
        PROVE  ParserInv'
    BY <2>2 DEF Restart, BeginParse, ParserInv, Ended
  <2>3. CASE ReadArgument \/ Help \/ MissingValue \/ NotOneMode \/ CannotReadFile
    BY <2>1, <2>3 DEF ReadArgument, Help, MissingValue, NotOneMode, CannotReadFile, Exit
  <2>4. CASE CheckAndExecute \/ ThrowDiagnostic \/ ThrowIncomplete \/ Quit \/ Finish \/ EndOfInput
    BY <2>1, <2>4 DEF CheckAndExecute, ThrowDiagnostic, ThrowIncomplete, Quit, Finish, EndOfInput, Exit
  <2>5. CASE StartMode
    BY <2>1, <2>2, <2>5 DEF StartMode
  <2>6. CASE ReadLine
    BY <2>2, <2>6 DEF ReadLine
  <2>7. CASE ParseSource
    <3>1. CASE Scan /\ UNCHANGED parserVars
      BY <3>1, ScanKeepsInv
    <3>2. CASE Parse
      <4>1. outcome = "parsing"
        BY <3>2 DEF Parse, Match, Expand, Return, BuildBinary, Assignment, ExternalCall,
            Failure, Accept, Parsing
      <4> QED
        BY <3>2, <4>1, ParseKeepsInv
    <3> QED
      BY <2>7, <3>1, <3>2 DEF ParseSource
  <2>8. CASE UNCHANGED vars
    BY <2>1, <2>8 DEF vars
  <2> QED
    BY <2>3, <2>4, <2>5, <2>6, <2>7, <2>8 DEF Next
<1> QED
  BY <1>1, <1>2, PTL DEF Spec

\* For every source, given at once or line by line, however it is wrong, and through
\* every attempt that the parser takes back: no token after the last one is read.
THEOREM ReadsAlwaysStayInside == Spec => []ReadsStayInside
<1>1. ParserInv => ReadsStayInside
  <2> SUFFICES ASSUME ParserInv, outcome # "scanning", Ended
               PROVE  pos \in 1..Len(tokens) /\ \A i \in 1..Len(stack) : stack[i].from \in 1..Len(tokens)
    BY DEF ReadsStayInside, Ended
  <2>1. pos \in 1..Len(tokens) /\ stack \in Seq(Items)
    BY DEF ParserInv
  <2>2. \A item \in Items : item.from \in 1..Len(tokens)
    BY DEF Items
  <2> QED
    BY <2>1, <2>2
<1> QED
  BY <1>1, AlwaysParserInv, PTL DEF Spec

-----------------------------------------------------------------------------
(* How deep a place is in brackets.                                          *)

Openings == {"(", "[", "{"}
Closings == {")", "]", "}"}
Weight(t) == IF t \in Openings THEN 1 ELSE IF t \in Closings THEN -1 ELSE 0

\* How many brackets are open behind the i-th token.
Nesting(i) == Depth("(", ")", 1, i) + Depth("[", "]", 1, i) + Depth("{", "}", 1, i)

\* How many of the tokens f..n are t.
Count(t, f, n) == Cardinality({j \in f..n : tokens[j] = t})

\* A range of tokens is finite.
LEMMA CountRange ==
  ASSUME NEW t, NEW f \in Nat, NEW n \in Int
  PROVE  IsFiniteSet({j \in f..n : tokens[j] = t}) /\ Count(t, f, n) \in Nat
<1>1. IsFiniteSet(f..n)
  BY FS_Interval
<1>2. {j \in f..n : tokens[j] = t} \in SUBSET (f..n)
  OBVIOUS
<1>3. IsFiniteSet({j \in f..n : tokens[j] = t})
  BY <1>1, <1>2, FS_Subset
<1> QED
  BY <1>3, FS_CardinalityType DEF Count

\* One token more.
LEMMA CountNext ==
  ASSUME NEW t, NEW f \in Nat, NEW n \in Nat, f <= n + 1
  PROVE  Count(t, f, n + 1) = Count(t, f, n) + (IF tokens[n + 1] = t THEN 1 ELSE 0)
<1> DEFINE S == {j \in f..n : tokens[j] = t}
<1>1. IsFiniteSet(S) /\ Cardinality(S) \in Nat /\ Count(t, f, n) = Cardinality(S)
  <2>1. n \in Int
    OBVIOUS
  <2>2. IsFiniteSet(S) /\ Count(t, f, n) \in Nat
    BY <2>1, CountRange, Zenon
  <2> QED
    BY <2>2 DEF Count
<1>2. CASE tokens[n + 1] = t
  <2>1. {j \in f..(n + 1) : tokens[j] = t} = S \cup {n + 1} /\ n + 1 \notin S
    BY <1>2
  <2> HIDE DEF S
  <2>2. Cardinality(S \cup {n + 1}) = Cardinality(S) + 1
    BY <1>1, <2>1, FS_AddElement
  <2>3. Count(t, f, n + 1) = Count(t, f, n) + 1
    BY <1>1, <2>1, <2>2 DEF Count
  <2> QED
    BY <1>2, <2>3
<1>3. CASE tokens[n + 1] # t
  <2>1. {j \in f..(n + 1) : tokens[j] = t} = S
    BY <1>3
  <2>2. Count(t, f, n + 1) = Count(t, f, n)
    BY <1>1, <2>1 DEF Count
  <2> QED
    BY <1>1, <1>3, <2>2
<1> QED
  BY <1>2, <1>3

\* Those of a range are those up to its end without those before it.
LEMMA CountSplit ==
  ASSUME NEW t, NEW f \in Nat \ {0}, NEW n \in Nat, f <= n + 1
  PROVE  Count(t, f, n) = Count(t, 1, n) - Count(t, 1, f - 1)
<1> DEFINE A == {j \in 1..(f - 1) : tokens[j] = t}
           B == {j \in f..n : tokens[j] = t}
<1>1. A \cup B = {j \in 1..n : tokens[j] = t} /\ A \cap B = {}
  OBVIOUS
<1>2. f - 1 \in Int /\ 1 \in Nat
  OBVIOUS
<1>3. IsFiniteSet(A) /\ Count(t, 1, f - 1) \in Nat
  BY <1>2, CountRange
<1>4. IsFiniteSet(B) /\ Count(t, f, n) \in Nat
  BY CountRange
<1>5. Count(t, 1, f - 1) = Cardinality(A) /\ Count(t, f, n) = Cardinality(B) /\ Count(t, 1, n) = Cardinality(A \cup B)
  BY <1>1 DEF Count
<1> HIDE DEF A, B
<1>6. Cardinality(A \cup B) = Cardinality(A) + Cardinality(B) - Cardinality(A \cap B)
  BY <1>3, <1>4, FS_Union
<1>7. Cardinality(A \cap B) = 0
  BY <1>1, FS_EmptySet
<1> QED
  BY <1>3, <1>4, <1>5, <1>6, <1>7

\* A bracket is opened and closed by tokens of its own.
Turn(a, b, t) == IF t = a THEN 1 ELSE IF t = b THEN -1 ELSE 0

\* What one token more changes.
LEMMA DepthNext ==
  ASSUME NEW a, NEW b, a # b, NEW i \in Nat
  PROVE  /\ Depth(a, b, 1, i) \in Int
         /\ Depth(a, b, 1, i + 1) = Depth(a, b, 1, i) + Turn(a, b, tokens[i + 1])
<1>1. \A n : Depth(a, b, 1, n) = Count(a, 1, n) - Count(b, 1, n)
  BY DEF Depth, Count
<1>2. 1 \in Nat /\ 1 <= i + 1 /\ i \in Int
  OBVIOUS
<1>3. Count(a, 1, i) \in Nat /\ Count(b, 1, i) \in Nat
  BY <1>2, CountRange, Zenon
<1>4. Count(a, 1, i + 1) = Count(a, 1, i) + (IF tokens[i + 1] = a THEN 1 ELSE 0)
  BY <1>2, CountNext
<1>5. Count(b, 1, i + 1) = Count(b, 1, i) + (IF tokens[i + 1] = b THEN 1 ELSE 0)
  BY <1>2, CountNext
<1>6. /\ Depth(a, b, 1, i) = Count(a, 1, i) - Count(b, 1, i)
      /\ Depth(a, b, 1, i + 1) = Count(a, 1, i + 1) - Count(b, 1, i + 1)
  BY <1>1
<1> QED
  BY <1>3, <1>4, <1>5, <1>6 DEF Turn

\* The depth of a range is that at its end without that before it.
LEMMA DepthSplit ==
  ASSUME NEW a, NEW b, NEW from \in Nat \ {0}, NEW i \in Nat, from <= i + 1
  PROVE  /\ Depth(a, b, 1, i) \in Int /\ Depth(a, b, 1, from - 1) \in Int
         /\ Depth(a, b, from, i) = Depth(a, b, 1, i) - Depth(a, b, 1, from - 1)
<1>1. \A f, n : Depth(a, b, f, n) = Count(a, f, n) - Count(b, f, n)
  BY DEF Depth, Count
<1>2. 1 \in Nat /\ i \in Int /\ from - 1 \in Int
  OBVIOUS
<1>3. Count(a, 1, i) \in Nat /\ Count(b, 1, i) \in Nat
  BY <1>2, CountRange, Zenon
<1>4. Count(a, 1, from - 1) \in Nat /\ Count(b, 1, from - 1) \in Nat
  BY <1>2, CountRange, Zenon
<1>5. /\ Count(a, from, i) = Count(a, 1, i) - Count(a, 1, from - 1)
      /\ Count(b, from, i) = Count(b, 1, i) - Count(b, 1, from - 1)
  BY CountSplit, Zenon
<1>6. /\ Depth(a, b, 1, i) = Count(a, 1, i) - Count(b, 1, i)
      /\ Depth(a, b, 1, from - 1) = Count(a, 1, from - 1) - Count(b, 1, from - 1)
      /\ Depth(a, b, from, i) = Count(a, from, i) - Count(b, from, i)
  BY <1>1
<1> QED
  BY <1>3, <1>4, <1>5, <1>6

\* Of the three kinds of brackets, a token is of one at most.
LEMMA TurnFacts ==
  ASSUME NEW t
  PROVE  /\ Turn("(", ")", t) \in Int /\ Turn("[", "]", t) \in Int /\ Turn("{", "}", t) \in Int
         /\ Turn("(", ")", t) + Turn("[", "]", t) + Turn("{", "}", t) = Weight(t)
<1> DEFINE x == Turn("(", ")", t)
           y == Turn("[", "]", t)
           z == Turn("{", "}", t)
           w == Weight(t)
<1>1. \/ t = "(" \/ t = ")" \/ t = "[" \/ t = "]" \/ t = "{" \/ t = "}"
      \/ t \notin Openings \cup Closings
  BY DEF Openings, Closings
<1>2. CASE t = "("
  <2>1. x = 1 /\ y = 0 /\ z = 0
    BY <1>2 DEF Turn
  <2>2. t \in Openings /\ t \notin Closings
    BY <1>2 DEF Openings, Closings
  <2>3. w = 1
    BY <2>2 DEF Weight
  <2> HIDE DEF x, y, z, w
  <2>4. x \in Int /\ y \in Int /\ z \in Int /\ x + y + z = w
    BY <2>1, <2>3
  <2> QED
    BY <2>4 DEF x, y, z, w
<1>3. CASE t = ")"
  <2>1. x = -1 /\ y = 0 /\ z = 0
    BY <1>3 DEF Turn
  <2>2. t \notin Openings /\ t \in Closings
    BY <1>3 DEF Openings, Closings
  <2>3. w = -1
    BY <2>2 DEF Weight
  <2> HIDE DEF x, y, z, w
  <2>4. x \in Int /\ y \in Int /\ z \in Int /\ x + y + z = w
    BY <2>1, <2>3
  <2> QED
    BY <2>4 DEF x, y, z, w
<1>4. CASE t = "["
  <2>1. x = 0 /\ y = 1 /\ z = 0
    BY <1>4 DEF Turn
  <2>2. t \in Openings /\ t \notin Closings
    BY <1>4 DEF Openings, Closings
  <2>3. w = 1
    BY <2>2 DEF Weight
  <2> HIDE DEF x, y, z, w
  <2>4. x \in Int /\ y \in Int /\ z \in Int /\ x + y + z = w
    BY <2>1, <2>3
  <2> QED
    BY <2>4 DEF x, y, z, w
<1>5. CASE t = "]"
  <2>1. x = 0 /\ y = -1 /\ z = 0
    BY <1>5 DEF Turn
  <2>2. t \notin Openings /\ t \in Closings
    BY <1>5 DEF Openings, Closings
  <2>3. w = -1
    BY <2>2 DEF Weight
  <2> HIDE DEF x, y, z, w
  <2>4. x \in Int /\ y \in Int /\ z \in Int /\ x + y + z = w
    BY <2>1, <2>3
  <2> QED
    BY <2>4 DEF x, y, z, w
<1>6. CASE t = "{"
  <2>1. x = 0 /\ y = 0 /\ z = 1
    BY <1>6 DEF Turn
  <2>2. t \in Openings /\ t \notin Closings
    BY <1>6 DEF Openings, Closings
  <2>3. w = 1
    BY <2>2 DEF Weight
  <2> HIDE DEF x, y, z, w
  <2>4. x \in Int /\ y \in Int /\ z \in Int /\ x + y + z = w
    BY <2>1, <2>3
  <2> QED
    BY <2>4 DEF x, y, z, w
<1>7. CASE t = "}"
  <2>1. x = 0 /\ y = 0 /\ z = -1
    BY <1>7 DEF Turn
  <2>2. t \notin Openings /\ t \in Closings
    BY <1>7 DEF Openings, Closings
  <2>3. w = -1
    BY <2>2 DEF Weight
  <2> HIDE DEF x, y, z, w
  <2>4. x \in Int /\ y \in Int /\ z \in Int /\ x + y + z = w
    BY <2>1, <2>3
  <2> QED
    BY <2>4 DEF x, y, z, w
<1>8. CASE t \notin Openings \cup Closings
  <2>1. t # "(" /\ t # ")" /\ t # "[" /\ t # "]" /\ t # "{" /\ t # "}"
    BY <1>8 DEF Openings, Closings
  <2>2. x = 0 /\ y = 0 /\ z = 0
    BY <2>1 DEF Turn
  <2>3. w = 0
    BY <1>8 DEF Weight
  <2> HIDE DEF x, y, z, w
  <2>4. x \in Int /\ y \in Int /\ z \in Int /\ x + y + z = w
    BY <2>2, <2>3
  <2> QED
    BY <2>4 DEF x, y, z, w
<1> QED
  BY <1>1, <1>2, <1>3, <1>4, <1>5, <1>6, <1>7, <1>8

\* What a token adds to the brackets that are open.
LEMMA NestingNext ==
  \A i \in Nat : Nesting(i) \in Int /\ Nesting(i + 1) = Nesting(i) + Weight(tokens[i + 1])
<1> SUFFICES ASSUME NEW i \in Nat
             PROVE  Nesting(i) \in Int /\ Nesting(i + 1) = Nesting(i) + Weight(tokens[i + 1])
  OBVIOUS
<1> DEFINE t == tokens[i + 1]
<1>1. "(" # ")" /\ "[" # "]" /\ "{" # "}"
  OBVIOUS
<1>2. Depth("(", ")", 1, i) \in Int /\ Depth("(", ")", 1, i + 1) = Depth("(", ")", 1, i) + Turn("(", ")", t)
  BY <1>1, DepthNext
<1>3. Depth("[", "]", 1, i) \in Int /\ Depth("[", "]", 1, i + 1) = Depth("[", "]", 1, i) + Turn("[", "]", t)
  BY <1>1, DepthNext
<1>4. Depth("{", "}", 1, i) \in Int /\ Depth("{", "}", 1, i + 1) = Depth("{", "}", 1, i) + Turn("{", "}", t)
  BY <1>1, DepthNext
<1> HIDE DEF t
<1>6. /\ Turn("(", ")", t) \in Int /\ Turn("[", "]", t) \in Int /\ Turn("{", "}", t) \in Int
      /\ Turn("(", ")", t) + Turn("[", "]", t) + Turn("{", "}", t) = Weight(t)
  BY TurnFacts
<1> DEFINE a(n) == Depth("(", ")", 1, n)
           b(n) == Depth("[", "]", 1, n)
           c(n) == Depth("{", "}", 1, n)
           x == Turn("(", ")", t)
           y == Turn("[", "]", t)
           z == Turn("{", "}", t)
<1>7. \A n : Nesting(n) = a(n) + b(n) + c(n)
  BY DEF Nesting
<1>8. /\ a(i) \in Int /\ a(i + 1) = a(i) + x
      /\ b(i) \in Int /\ b(i + 1) = b(i) + y
      /\ c(i) \in Int /\ c(i + 1) = c(i) + z
      /\ x \in Int /\ y \in Int /\ z \in Int /\ x + y + z = Weight(t)
  BY <1>2, <1>3, <1>4, <1>6
<1> HIDE DEF a, b, c, x, y, z
<1>9. Nesting(i) = a(i) + b(i) + c(i) /\ Nesting(i + 1) = a(i + 1) + b(i + 1) + c(i + 1)
  BY <1>7
<1>10. Nesting(i) \in Int /\ Nesting(i + 1) = Nesting(i) + Weight(t)
  BY <1>8, <1>9
<1> QED
  BY <1>10 DEF t

\* Outside of the brackets in a range, no more brackets are open than before it.
LEMMA OutsideFacts ==
  ASSUME NEW i \in Nat, NEW from \in Nat \ {0}, NEW to \in Nat, Outside(i, from, to)
  PROVE  i \in from..to /\ Nesting(i) <= Nesting(from - 1)
<1>1. i \in from..to /\ from <= i + 1
  <2>1. i \in from..to
    BY Zenon DEF Outside
  <2> QED
    BY <2>1
<1>2. Depth("(", ")", from, i) <= 0 /\ Depth("[", "]", from, i) <= 0 /\ Depth("{", "}", from, i) <= 0
  <2> DEFINE pairs == {<<"(", ")">>, <<"[", "]">>, <<"{", "}">>}
  <2>1. \A b \in pairs : Depth(b[1], b[2], from, i) <= 0
    BY Zenon DEF Outside
  <2>2. <<"(", ")">> \in pairs /\ <<"[", "]">> \in pairs /\ <<"{", "}">> \in pairs
    OBVIOUS
  <2> HIDE DEF pairs
  <2>3. \A x, y : <<x, y>> \in pairs => Depth(x, y, from, i) <= 0
    <3> SUFFICES ASSUME NEW x, NEW y, <<x, y>> \in pairs PROVE Depth(x, y, from, i) <= 0
      OBVIOUS
    <3>1. \A b \in pairs : \A u, v : b[1] = u /\ b[2] = v => Depth(u, v, from, i) <= 0
      BY <2>1, Zenon
    <3>2. <<x, y>>[1] = x /\ <<x, y>>[2] = y
      OBVIOUS
    <3> QED
      BY <3>1, <3>2, Zenon
  <2> QED
    BY <2>2, <2>3, Zenon
<1>3. /\ Depth("(", ")", 1, i) \in Int /\ Depth("(", ")", 1, from - 1) \in Int
      /\ Depth("(", ")", from, i) = Depth("(", ")", 1, i) - Depth("(", ")", 1, from - 1)
  BY <1>1, DepthSplit, Zenon
<1>4. /\ Depth("[", "]", 1, i) \in Int /\ Depth("[", "]", 1, from - 1) \in Int
      /\ Depth("[", "]", from, i) = Depth("[", "]", 1, i) - Depth("[", "]", 1, from - 1)
  BY <1>1, DepthSplit, Zenon
<1>5. /\ Depth("{", "}", 1, i) \in Int /\ Depth("{", "}", 1, from - 1) \in Int
      /\ Depth("{", "}", from, i) = Depth("{", "}", 1, i) - Depth("{", "}", 1, from - 1)
  BY <1>1, DepthSplit, Zenon
<1> DEFINE f == from - 1
           a(n) == Depth("(", ")", 1, n)
           b(n) == Depth("[", "]", 1, n)
           c(n) == Depth("{", "}", 1, n)
<1>6. \A n : Nesting(n) = a(n) + b(n) + c(n)
  BY DEF Nesting
<1>7. /\ a(i) \in Int /\ a(f) \in Int /\ a(i) - a(f) <= 0
      /\ b(i) \in Int /\ b(f) \in Int /\ b(i) - b(f) <= 0
      /\ c(i) \in Int /\ c(f) \in Int /\ c(i) - c(f) <= 0
  BY <1>2, <1>3, <1>4, <1>5
<1> HIDE DEF a, b, c, f
<1>8. Nesting(i) = a(i) + b(i) + c(i) /\ Nesting(f) = a(f) + b(f) + c(f)
  BY <1>6
<1>9. Nesting(i) <= Nesting(f)
  BY <1>7, <1>8
<1> QED
  BY <1>1, <1>9 DEF f

\* Ranks of operators; brackets bind nothing.
LEMMA PrecedenceRange ==
  ASSUME NEW t
  PROVE  /\ Precedence(t) \in 0..10
         /\ Precedence(t) >= 1 => Weight(t) = 0
<1>1. CASE t \in Openings \cup Closings
  <2>1. Precedence(t) = 0
    BY <1>1, ZenonT(60) DEF Precedence, Openings, Closings
  <2> QED
    BY <2>1
<1>2. CASE t \notin Openings \cup Closings
  <2>1. Weight(t) = 0
    BY <1>2 DEF Weight
  <2> QED
    BY <2>1 DEF Precedence
<1> QED
  BY <1>1, <1>2

-----------------------------------------------------------------------------
(* What an operand is made of.                                               *)

\* What may be left of an operand at its own depth in brackets, and what may be
\* left of what is in brackets in it.
OperandSymbols ==
  {"want", "gives", "fail", "external target", "pack", "pack value", "type", "type suffix",
   "fields", "field suffix", "field separator", "place", "place suffix", "postfix suffix",
   "unary", "primary", "strings", "member path", "anonymous", "external", "named", "after type"}
InnerSymbols ==
  OperandSymbols \cup
    {"expression", "array suffix", "elements", "more elements", "initializers",
     "more initializers", "arguments", "argument", "more arguments", "next argument"}

\* The brackets that an item opens, less those it closes.
Effect(item, w) ==
  \/ item.symbol = "want" /\ \A t \in item.set : Weight(t) = w
  \/ item.symbol = "array suffix" /\ w = -1
  \/ item.symbol \notin {"want", "array suffix"} /\ w = 0

Openers == {item \in Pushed : item.symbol = "want" /\ Effect(item, 1)}
Closers == {item \in Pushed : item.symbol \in {"want", "array suffix"} /\ Effect(item, -1)}
Inners == {item \in Pushed : item.symbol \in InnerSymbols \ {"external target"} /\ Effect(item, 0)}
Operands == {item \in Pushed : item.symbol \in OperandSymbols \ {"external target"} /\ Effect(item, 0)}
Targets == {item \in Pushed : item.symbol = "external target" /\ Effect(item, 0)}

\* Brackets from o to c, or only the closing one at c.
Bracketed(q, o, c) ==
  /\ o \in 0..(c - 1) /\ c \in 1..Len(q)
  /\ o # 0 => q[o] \in Openers
  /\ q[c] \in Closers
  /\ \A j \in 1..Len(q) : j # o /\ j # c =>
       q[j] \in IF o < j /\ j < c THEN Inners ELSE Operands
InBrackets(q) == q \in Seq(Pushed) /\ \E o, c \in 1..Len(q) : Bracketed(q, o, c)
Closing(q) == q \in Seq(Pushed) /\ \E c \in 1..Len(q) : Bracketed(q, 0, c)
Flat(q) == q \in Seq(Operands \cup Targets)

\* What a parse function pushes for an operand keeps the depth in brackets.
Fitting(q, symbol) ==
  CASE symbol = "array suffix" -> Closing(q)
    [] symbol \in OperandSymbols -> Flat(q) \/ InBrackets(q)
    [] OTHER -> q \in Seq(Inners)

\* The tokens that are no brackets.
Levels == Wantable \ (Openings \cup Closings)

\* What the kinds of tokens weigh.
LEMMA WeightFacts ==
  /\ \A t \in Levels : Weight(t) = 0
  /\ \A t \in Openings : Weight(t) = 1
  /\ \A t \in Closings : Weight(t) = -1
  /\ Identifiers \subseteq Levels /\ Integers64 \subseteq Levels
  /\ Openings \subseteq Wantable /\ Closings \subseteq Wantable
<1>1. Openings \cap Closings = {}
  BY DEF Openings, Closings
<1>2. \A t \in Levels : Weight(t) = 0
  BY DEF Weight, Levels
<1>3. \A t \in Openings : Weight(t) = 1
  BY DEF Weight
<1>4. \A t \in Closings : Weight(t) = -1
  BY <1>1 DEF Weight
<1>5. Identifiers \cap (Openings \cup Closings) = {} /\ Integers64 \cap (Openings \cup Closings) = {}
  BY ZenonT(60) DEF Identifiers, Keywords, Builtins, Letters, Integers64, Digits, Openings, Closings
<1>6. Identifiers \subseteq Levels /\ Integers64 \subseteq Levels
  BY <1>5, KindFacts DEF Levels
<1>7. Openings \subseteq Wantable /\ Closings \subseteq Wantable
  BY ZenonT(60) DEF Openings, Closings, Wantable
<1> QED
  BY <1>2, <1>3, <1>4, <1>6, <1>7

PlainOperands == (OperandSymbols \cap Plain) \cup {"fail"}
PlainInners == ((InnerSymbols \ {"array suffix"}) \cap Plain) \cup {"fail"}

\* What the constructors of items make of an operand.
LEMMA OperandFacts ==
  ASSUME AtToken
  PROVE  /\ \A k \in Levels : Want(k) \in Operands
         /\ \A S \in SUBSET Levels : WantAny(S) \in Operands
         /\ \A S \in SUBSET Levels, n \in {0, 1, 2} : Seen(S, n) \in Operands
         /\ \A k \in Levels, n \in {0, 1, 2} : Seen({k}, n) \in Operands
         /\ WantName \in Operands
         /\ \A k \in Results : Gives(k) \in Operands
         /\ \A s \in PlainOperands : P(s) \in Operands
         /\ \A s \in OperandSymbols \cap Plain, n \in Nat : PArg(s, n) \in Operands
         /\ \A s \in PlainInners : P(s) \in Inners
         /\ \A s \in (InnerSymbols \cap Plain) \ {"array suffix"}, n \in Nat : PArg(s, n) \in Inners
         /\ Expression \in Inners
         /\ P("external target") \in Targets
         /\ \A k \in Openings : Want(k) \in Openers
         /\ \A k \in Closings : Want(k) \in Closers
         /\ P("array suffix") \in Closers
         /\ Operands \subseteq Inners
<1>1. \A k : Want(k).symbol = "want" /\ Want(k).set = {k}
  BY DEF Want, Item
<1>2. \A S : WantAny(S).symbol = "want" /\ WantAny(S).set = S
  BY DEF WantAny, Item
<1>3. \A k \in Levels : Want(k) \in Operands
  <2> SUFFICES ASSUME NEW k \in Levels PROVE Want(k) \in Operands
    OBVIOUS
  <2>1. Want(k) \in Pushed
    BY ItemFacts DEF Levels
  <2>2. Effect(Want(k), 0)
    <3>1. \A t \in Want(k).set : Weight(t) = 0
      BY <1>1, WeightFacts
    <3> QED
      BY <1>1, <3>1, Zenon DEF Effect
  <2>3. "want" \in OperandSymbols \ {"external target"}
    BY Zenon DEF OperandSymbols
  <2> QED
    BY <1>1, <2>1, <2>2, <2>3 DEF Operands
<1>4. \A S \in SUBSET Levels : WantAny(S) \in Operands
  <2> SUFFICES ASSUME NEW S \in SUBSET Levels PROVE WantAny(S) \in Operands
    OBVIOUS
  <2>1. WantAny(S) \in Pushed
    BY ItemFacts DEF Levels
  <2>2. Effect(WantAny(S), 0)
    BY <1>2, WeightFacts DEF Effect
  <2>3. "want" \in OperandSymbols \ {"external target"}
    BY Zenon DEF OperandSymbols
  <2> QED
    BY <1>2, <2>1, <2>2, <2>3 DEF Operands
<1>20. \A S \in SUBSET Levels, n \in {0, 1, 2} : Seen(S, n) \in Operands
  <2> SUFFICES ASSUME NEW S \in SUBSET Levels, NEW n \in {0, 1, 2} PROVE Seen(S, n) \in Operands
    OBVIOUS
  <2>1. Seen(S, n) \in Pushed
    BY ItemFacts DEF Levels
  <2>2. Seen(S, n).symbol = "want" /\ Seen(S, n).set = S
    BY DEF Seen, Item
  <2>3. Effect(Seen(S, n), 0)
    BY <2>2, WeightFacts DEF Effect
  <2>4. "want" \in OperandSymbols \ {"external target"}
    BY Zenon DEF OperandSymbols
  <2> QED
    BY <2>1, <2>2, <2>3, <2>4 DEF Operands
<1>21. \A k \in Levels, n \in {0, 1, 2} : Seen({k}, n) \in Operands
  BY <1>20
<1>5. WantName \in Operands
  BY <1>4, WeightFacts DEF WantName
<1>6. \A k \in Results : Gives(k) \in Operands
  <2> SUFFICES ASSUME NEW k \in Results PROVE Gives(k) \in Operands
    OBVIOUS
  <2>1. Gives(k) \in Pushed /\ Gives(k).symbol = "gives"
    BY ItemFacts DEF Gives, Item
  <2>2. "gives" \in OperandSymbols \ {"external target"} /\ "gives" \notin {"want", "array suffix"}
    BY Zenon DEF OperandSymbols
  <2> QED
    BY <2>1, <2>2 DEF Operands, Effect
<1>7. \A s, n : PArg(s, n).symbol = s /\ P(s).symbol = s
  BY DEF PArg, P, Item
<1>8. {"want", "array suffix", "external target"} \cap (PlainOperands \cup PlainInners) = {}
  BY ZenonT(60) DEF PlainOperands, PlainInners, Plain, OperandSymbols
<1>9. PlainOperands \subseteq OperandSymbols /\ PlainInners \subseteq InnerSymbols /\ OperandSymbols \subseteq InnerSymbols
  BY Zenon DEF PlainOperands, PlainInners, InnerSymbols, OperandSymbols
<1>10. \A s \in PlainOperands : P(s) \in Operands
  <2> SUFFICES ASSUME NEW s \in PlainOperands PROVE P(s) \in Operands
    OBVIOUS
  <2>1. P(s) \in Pushed
    BY ItemFacts DEF PlainOperands
  <2> QED
    BY <1>7, <1>8, <1>9, <2>1 DEF Operands, Effect
<1>11. \A s \in OperandSymbols \cap Plain, n \in Nat : PArg(s, n) \in Operands
  <2> SUFFICES ASSUME NEW s \in OperandSymbols \cap Plain, NEW n \in Nat PROVE PArg(s, n) \in Operands
    OBVIOUS
  <2>1. PArg(s, n) \in Pushed /\ s \in PlainOperands
    BY ItemFacts DEF PlainOperands
  <2> QED
    BY <1>7, <1>8, <1>9, <2>1 DEF Operands, Effect
<1>12. \A s \in PlainInners : P(s) \in Inners
  <2> SUFFICES ASSUME NEW s \in PlainInners PROVE P(s) \in Inners
    OBVIOUS
  <2>1. P(s) \in Pushed
    BY ItemFacts DEF PlainInners
  <2> QED
    BY <1>7, <1>8, <1>9, <2>1 DEF Inners, Effect
<1>13. \A s \in (InnerSymbols \cap Plain) \ {"array suffix"}, n \in Nat : PArg(s, n) \in Inners
  <2> SUFFICES ASSUME NEW s \in (InnerSymbols \cap Plain) \ {"array suffix"}, NEW n \in Nat PROVE PArg(s, n) \in Inners
    OBVIOUS
  <2>1. PArg(s, n) \in Pushed /\ s \in PlainInners
    BY ItemFacts DEF PlainInners
  <2> QED
    BY <1>7, <1>8, <1>9, <2>1 DEF Inners, Effect
<1>14. Expression \in Inners
  <2>1. Expression \in Pushed /\ Expression.symbol = "expression"
    BY ItemFacts DEF Expression, PArg, Item
  <2>2. "expression" \in InnerSymbols \ {"external target"} /\ "expression" \notin {"want", "array suffix"}
    BY Zenon DEF InnerSymbols
  <2> QED
    BY <2>1, <2>2 DEF Inners, Effect
<1>15. P("external target") \in Targets
  BY <1>7, ItemFacts DEF Targets, Effect
<1>16. \A k \in Openings : Want(k) \in Openers
  <2> SUFFICES ASSUME NEW k \in Openings PROVE Want(k) \in Openers
    OBVIOUS
  <2>1. Want(k) \in Pushed /\ Weight(k) = 1
    BY ItemFacts, WeightFacts
  <2> QED
    BY <1>1, <2>1 DEF Openers, Effect
<1>17. \A k \in Closings : Want(k) \in Closers
  <2> SUFFICES ASSUME NEW k \in Closings PROVE Want(k) \in Closers
    OBVIOUS
  <2>1. Want(k) \in Pushed /\ Weight(k) = -1
    BY ItemFacts, WeightFacts
  <2> QED
    BY <1>1, <2>1 DEF Closers, Effect
<1>18. P("array suffix") \in Closers
  <2>1. P("array suffix") \in Pushed
    BY Zenon, ItemFacts DEF Plain
  <2> QED
    BY <1>7, <2>1 DEF Closers, Effect
<1>19. Operands \subseteq Inners
  BY <1>9 DEF Operands, Inners
<1> QED
  BY <1>3, <1>4, <1>5, <1>20, <1>21, <1>6, <1>10, <1>11, <1>12, <1>13, <1>14, <1>15, <1>16, <1>17, <1>18, <1>19

\* Items of an operand are pushed like others.
LEMMA KindsAreItems ==
  /\ Openers \subseteq Pushed /\ Closers \subseteq Pushed /\ Inners \subseteq Pushed
  /\ Operands \subseteq Pushed /\ Targets \subseteq Pushed
BY DEF Openers, Closers, Inners, Operands, Targets

\* Where the brackets are in what is pushed.
LEMMA Shapes ==
  /\ \A o \in Openers, c \in Closers : InBrackets(<<o, c>>)
  /\ \A o \in Openers, c \in Closers, w \in Operands : InBrackets(<<o, c, w>>)
  /\ \A o \in Openers, i \in Inners, c \in Closers : InBrackets(<<o, i, c>>)
  /\ \A o \in Openers, i \in Inners, c \in Closers, w \in Operands : InBrackets(<<o, i, c, w>>)
  /\ \A o \in Openers, i \in Inners, c \in Closers, w, x \in Operands : InBrackets(<<o, i, c, w, x>>)
  /\ \A u \in Operands, o \in Openers, i \in Inners, c \in Closers, w \in Operands : InBrackets(<<u, o, i, c, w>>)
  /\ \A u, v \in Operands, o \in Openers, i \in Inners, c \in Closers, w \in Operands : InBrackets(<<u, v, o, i, c, w>>)
  /\ \A u, v \in Operands, o \in Openers, i \in Inners, c \in Closers, w, x \in Operands : InBrackets(<<u, v, o, i, c, w, x>>)
  /\ \A u \in Operands, o \in Openers, i, j \in Inners, c \in Closers : InBrackets(<<u, o, i, j, c>>)
  /\ \A u \in Operands, o \in Openers, i, j, k, l \in Inners, c \in Closers, w \in Operands : InBrackets(<<u, o, i, j, k, l, c, w>>)
  /\ \A u \in Inners, c \in Closers, w \in Operands : Closing(<<u, c, w>>)
<1>1. ASSUME NEW o \in Openers, NEW c \in Closers
      PROVE  InBrackets(<<o, c>>)
  <2> DEFINE q == <<o, c>>
  <2>1. o \in Pushed /\ c \in Pushed
    BY <1>1, KindsAreItems
  <2>2. q \in Seq(Pushed)
    BY <2>1, SequencesOfPushed
  <2>3. Bracketed(q, 1, 2)
    BY <1>1 DEF Bracketed
  <2>4. Len(q) = 2
    OBVIOUS
  <2> QED
    BY <2>2, <2>3, <2>4 DEF InBrackets
<1>2. ASSUME NEW o \in Openers, NEW c \in Closers, NEW w \in Operands
      PROVE  InBrackets(<<o, c, w>>)
  <2> DEFINE q == <<o, c, w>>
  <2>1. o \in Pushed /\ c \in Pushed /\ w \in Pushed
    BY <1>2, KindsAreItems
  <2>2. q \in Seq(Pushed)
    BY <2>1, SequencesOfPushed
  <2>3. Bracketed(q, 1, 2)
    BY <1>2 DEF Bracketed
  <2>4. Len(q) = 3
    OBVIOUS
  <2> QED
    BY <2>2, <2>3, <2>4 DEF InBrackets
<1>3. ASSUME NEW o \in Openers, NEW i \in Inners, NEW c \in Closers
      PROVE  InBrackets(<<o, i, c>>)
  <2> DEFINE q == <<o, i, c>>
  <2>1. o \in Pushed /\ i \in Pushed /\ c \in Pushed
    BY <1>3, KindsAreItems
  <2>2. q \in Seq(Pushed)
    BY <2>1, SequencesOfPushed
  <2>3. Bracketed(q, 1, 3)
    BY <1>3 DEF Bracketed
  <2>4. Len(q) = 3
    OBVIOUS
  <2> QED
    BY <2>2, <2>3, <2>4 DEF InBrackets
<1>4. ASSUME NEW o \in Openers, NEW i \in Inners, NEW c \in Closers, NEW w \in Operands
      PROVE  InBrackets(<<o, i, c, w>>)
  <2> DEFINE q == <<o, i, c, w>>
  <2>1. o \in Pushed /\ i \in Pushed /\ c \in Pushed /\ w \in Pushed
    BY <1>4, KindsAreItems
  <2>2. q \in Seq(Pushed)
    BY <2>1, SequencesOfPushed
  <2>3. Bracketed(q, 1, 3)
    BY <1>4 DEF Bracketed
  <2>4. Len(q) = 4
    OBVIOUS
  <2> QED
    BY <2>2, <2>3, <2>4 DEF InBrackets
<1>5. ASSUME NEW o \in Openers, NEW i \in Inners, NEW c \in Closers, NEW w \in Operands, NEW x \in Operands
      PROVE  InBrackets(<<o, i, c, w, x>>)
  <2> DEFINE q == <<o, i, c, w, x>>
  <2>1. o \in Pushed /\ i \in Pushed /\ c \in Pushed /\ w \in Pushed /\ x \in Pushed
    BY <1>5, KindsAreItems
  <2>2. q \in Seq(Pushed)
    BY <2>1, SequencesOfPushed
  <2>3. Bracketed(q, 1, 3)
    BY <1>5 DEF Bracketed
  <2>4. Len(q) = 5
    OBVIOUS
  <2> QED
    BY <2>2, <2>3, <2>4 DEF InBrackets
<1>6. ASSUME NEW u \in Operands, NEW o \in Openers, NEW i \in Inners, NEW c \in Closers, NEW w \in Operands
      PROVE  InBrackets(<<u, o, i, c, w>>)
  <2> DEFINE q == <<u, o, i, c, w>>
  <2>1. u \in Pushed /\ o \in Pushed /\ i \in Pushed /\ c \in Pushed /\ w \in Pushed
    BY <1>6, KindsAreItems
  <2>2. q \in Seq(Pushed)
    BY <2>1, SequencesOfPushed
  <2>3. Bracketed(q, 2, 4)
    BY <1>6 DEF Bracketed
  <2>4. Len(q) = 5
    OBVIOUS
  <2> QED
    BY <2>2, <2>3, <2>4 DEF InBrackets
<1>7. ASSUME NEW u \in Operands, NEW v \in Operands, NEW o \in Openers, NEW i \in Inners, NEW c \in Closers, NEW w \in Operands
      PROVE  InBrackets(<<u, v, o, i, c, w>>)
  <2> DEFINE q == <<u, v, o, i, c, w>>
  <2>1. u \in Pushed /\ v \in Pushed /\ o \in Pushed /\ i \in Pushed /\ c \in Pushed /\ w \in Pushed
    BY <1>7, KindsAreItems
  <2>2. q \in Seq(Pushed)
    BY <2>1, SequencesOfPushed
  <2>3. Bracketed(q, 3, 5)
    BY <1>7 DEF Bracketed
  <2>4. Len(q) = 6
    OBVIOUS
  <2> QED
    BY <2>2, <2>3, <2>4 DEF InBrackets
<1>8. ASSUME NEW u \in Operands, NEW v \in Operands, NEW o \in Openers, NEW i \in Inners, NEW c \in Closers, NEW w \in Operands, NEW x \in Operands
      PROVE  InBrackets(<<u, v, o, i, c, w, x>>)
  <2> DEFINE q == <<u, v, o, i, c, w, x>>
  <2>1. u \in Pushed /\ v \in Pushed /\ o \in Pushed /\ i \in Pushed /\ c \in Pushed /\ w \in Pushed /\ x \in Pushed
    BY <1>8, KindsAreItems
  <2>2. q \in Seq(Pushed)
    BY <2>1, SequencesOfPushed
  <2>3. Bracketed(q, 3, 5)
    BY <1>8 DEF Bracketed
  <2>4. Len(q) = 7
    OBVIOUS
  <2> QED
    BY <2>2, <2>3, <2>4 DEF InBrackets
<1>9. ASSUME NEW u \in Operands, NEW o \in Openers, NEW i \in Inners, NEW j \in Inners, NEW c \in Closers
      PROVE  InBrackets(<<u, o, i, j, c>>)
  <2> DEFINE q == <<u, o, i, j, c>>
  <2>1. u \in Pushed /\ o \in Pushed /\ i \in Pushed /\ j \in Pushed /\ c \in Pushed
    BY <1>9, KindsAreItems
  <2>2. q \in Seq(Pushed)
    BY <2>1, SequencesOfPushed
  <2>3. Bracketed(q, 2, 5)
    BY <1>9 DEF Bracketed
  <2>4. Len(q) = 5
    OBVIOUS
  <2> QED
    BY <2>2, <2>3, <2>4 DEF InBrackets
<1>10. ASSUME NEW u \in Operands, NEW o \in Openers, NEW i \in Inners, NEW j \in Inners, NEW k \in Inners, NEW l \in Inners, NEW c \in Closers, NEW w \in Operands
      PROVE  InBrackets(<<u, o, i, j, k, l, c, w>>)
  <2> DEFINE q == <<u, o, i, j, k, l, c, w>>
  <2>1. u \in Pushed /\ o \in Pushed /\ i \in Pushed /\ j \in Pushed /\ k \in Pushed /\ l \in Pushed /\ c \in Pushed /\ w \in Pushed
    BY <1>10, KindsAreItems
  <2>2. q \in Seq(Pushed)
    BY <2>1, SequencesOfPushed
  <2>3. Bracketed(q, 2, 7)
    BY <1>10 DEF Bracketed
  <2>4. Len(q) = 8
    OBVIOUS
  <2> QED
    BY <2>2, <2>3, <2>4 DEF InBrackets
<1>11. ASSUME NEW u \in Inners, NEW c \in Closers, NEW w \in Operands
      PROVE  Closing(<<u, c, w>>)
  <2> DEFINE q == <<u, c, w>>
  <2>1. u \in Pushed /\ c \in Pushed /\ w \in Pushed
    BY <1>11, KindsAreItems
  <2>2. q \in Seq(Pushed)
    BY <2>1, SequencesOfPushed
  <2>3. Bracketed(q, 0, 2)
    BY <1>11 DEF Bracketed
  <2>4. Len(q) = 3
    OBVIOUS
  <2> QED
    BY <2>2, <2>3, <2>4 DEF Closing
<1> QED
  BY <1>1, <1>2, <1>3, <1>4, <1>5, <1>6, <1>7, <1>8, <1>9, <1>10, <1>11

\* What is pushed for an operand, as the parse functions do it.
Formed(q) == Flat(q) \/ InBrackets(q)

\* Operands without brackets.
LEMMA FlatFacts ==
  /\ Flat(<<>>)
  /\ \A a \in Operands : Flat(<<a>>)
  /\ \A a, b \in Operands : Flat(<<a, b>>)
  /\ \A a, b, c \in Operands : Flat(<<a, b, c>>)
  /\ \A a, b, c, d \in Operands : Flat(<<a, b, c, d>>)
  /\ \A a, b, c, d \in Operands, e \in Targets : Flat(<<a, b, c, d, e>>)
  /\ \A a, b, c, d, e, f \in Operands : Flat(<<a, b, c, d, e, f>>)
BY SequencesOf DEF Flat

\* What is put together from what stands in brackets.
LEMMA SequencesOfInners ==
  /\ <<>> \in Seq(Inners)
  /\ \A a \in Inners : <<a>> \in Seq(Inners)
  /\ \A a, b \in Inners : <<a, b>> \in Seq(Inners)
  /\ \A a, b, c, d, e \in Inners : <<a, b, c, d, e>> \in Seq(Inners)
  /\ \A s, t \in Seq(Inners) : s \o t \in Seq(Inners)
BY SequencesOf

\* The symbols and tokens that the parse functions name.
LEMMA Names ==
  /\ {"pack", "pack value", "type", "type suffix", "fields", "field suffix", "field separator", "place",
      "place suffix", "postfix suffix", "unary", "primary", "strings", "member path", "anonymous",
      "external", "named", "after type"} \subseteq OperandSymbols \cap Plain
  /\ OperandSymbols \cap Plain \subseteq PlainOperands
  /\ {"elements", "more elements", "initializers", "more initializers", "arguments", "argument",
      "more arguments", "next argument"} \subseteq (InnerSymbols \cap Plain) \ {"array suffix"}
  /\ (InnerSymbols \cap Plain) \ {"array suffix"} \subseteq PlainInners
  /\ OperandSymbols \cap Plain \subseteq (InnerSymbols \cap Plain) \ {"array suffix"}
  /\ "fail" \in PlainOperands /\ "fail" \in PlainInners
  /\ {"pack", "struct", "union", ".", ",", "=", "@", "variable", "string", "float", "sizeof", "alignof",
      "offsetof", "-", "!", "~", "&"} \subseteq Levels
  /\ {"(", "[", "{"} = Openings /\ {")", "]", "}"} = Closings
  /\ TypeKinds \subseteq Results /\ {"variable", "call", "other", "array", "aggregate", "builtin", "named"} \subseteq Results
<1>1. {"pack", "pack value", "type", "type suffix", "fields", "field suffix", "field separator", "place",
      "place suffix", "postfix suffix", "unary", "primary", "strings", "member path", "anonymous",
      "external", "named", "after type"} \subseteq OperandSymbols \cap Plain
  BY ZenonT(60) DEF OperandSymbols, Plain
<1>2. OperandSymbols \cap Plain \subseteq PlainOperands /\ "fail" \in PlainOperands
  BY Zenon DEF PlainOperands
<1>3. {"elements", "more elements", "initializers", "more initializers", "arguments", "argument",
      "more arguments", "next argument"} \subseteq (InnerSymbols \cap Plain) \ {"array suffix"}
  BY ZenonT(60) DEF InnerSymbols, Plain
<1>4. (InnerSymbols \cap Plain) \ {"array suffix"} \subseteq PlainInners /\ "fail" \in PlainInners
  BY Zenon DEF PlainInners
<1>5. OperandSymbols \subseteq InnerSymbols /\ "array suffix" \notin OperandSymbols
  BY ZenonT(60) DEF InnerSymbols, OperandSymbols
<1>6. {"pack", "struct", "union", ".", ",", "=", "@", "variable", "string", "float", "sizeof", "alignof",
      "offsetof", "-", "!", "~", "&"} \subseteq Levels
  <2> DEFINE named == {"pack", "struct", "union", ".", ",", "=", "@", "variable", "string", "float", "sizeof",
                       "alignof", "offsetof", "-", "!", "~", "&"}
  <2>1. named \subseteq Wantable
    BY ZenonT(60) DEF Wantable
  <2>2. named \cap (Openings \cup Closings) = {}
    BY ZenonT(60) DEF Openings, Closings
  <2> QED
    BY <2>1, <2>2 DEF Levels
<1>7. {"(", "[", "{"} = Openings /\ {")", "]", "}"} = Closings
  BY DEF Openings, Closings
<1>8. TypeKinds \subseteq Results /\ {"variable", "call", "other", "array", "aggregate", "builtin", "named"} \subseteq Results
  BY Zenon DEF Results, TypeKinds
<1> QED
  BY <1>1, <1>2, <1>3, <1>4, <1>5, <1>6, <1>7, <1>8, Zenon

\* Brackets behind what is no bracket.
LEMMA Joined ==
  ASSUME NEW S, NEW s \in Seq(S), NEW t \in Seq(S), NEW w \in Seq(S), Len(w) = Len(s) + Len(t),
         \A i \in 1..Len(s) : w[i] = s[i], \A i \in 1..Len(t) : w[Len(s) + i] = t[i]
  PROVE  s \o t = w
<1>1. /\ s \o t \in Seq(S) /\ Len(s \o t) = Len(s) + Len(t)
      /\ \A i \in 1..(Len(s) + Len(t)) : (s \o t)[i] = IF i <= Len(s) THEN s[i] ELSE t[i - Len(s)]
  BY ConcatProperties
<1>2. \A i \in 1..Len(s \o t) : (s \o t)[i] = w[i]
  <2> SUFFICES ASSUME NEW i \in 1..Len(s \o t) PROVE (s \o t)[i] = w[i]
    OBVIOUS
  <2>1. Len(s) \in Nat /\ Len(t) \in Nat /\ i \in 1..(Len(s) + Len(t))
    BY <1>1
  <2>2. CASE i <= Len(s)
    BY <1>1, <2>1, <2>2
  <2>3. CASE ~(i <= Len(s))
    <3>1. i - Len(s) \in 1..Len(t) /\ Len(s) + (i - Len(s)) = i
      BY <2>1, <2>3
    <3> QED
      BY <1>1, <2>1, <2>3, <3>1
  <2> QED
    BY <2>2, <2>3
<1> QED
  BY <1>1, <1>2, SeqEqual

\* Brackets with something before or behind them.
LEMMA JoinedBrackets ==
  /\ \A u \in Operands, o \in Openers, i \in Inners, c \in Closers, w \in Operands :
       InBrackets(<<u>> \o <<o, i, c, w>>)
  /\ \A u, v \in Operands, o \in Openers, i \in Inners, c \in Closers, w \in Operands :
       InBrackets(<<u, v>> \o <<o, i, c, w>>)
  /\ \A o \in Openers, i \in Inners, c \in Closers, w, x \in Operands :
       InBrackets(<<o, i, c, w>> \o <<x>>)
  /\ \A u \in Inners, c \in Closers, w \in Operands : Closing(<<u, c>> \o <<w>>)
<1>1. ASSUME NEW u \in Operands, NEW o \in Openers, NEW i \in Inners, NEW c \in Closers, NEW w \in Operands
      PROVE  InBrackets(<<u>> \o <<o, i, c, w>>)
  <2> DEFINE S == {u, o, i, c, w}
             l == <<u>>
             r == <<o, i, c, w>>
             q == <<u, o, i, c, w>>
  <2>1. l \in Seq(S) /\ r \in Seq(S) /\ q \in Seq(S)
    OBVIOUS
  <2>2. Len(l) = 1 /\ Len(r) = 4 /\ Len(q) = 5
    OBVIOUS
  <2>3. \A j \in 1..1 : q[j] = l[j]
    OBVIOUS
  <2>4. \A j \in 1..4 : q[1 + j] = r[j]
    OBVIOUS
  <2>5. InBrackets(q)
    BY <1>1, Shapes, Zenon
  <2> HIDE DEF S, l, r, q
  <2>6. Len(q) = Len(l) + Len(r) /\ (\A j \in 1..Len(l) : q[j] = l[j]) /\ (\A j \in 1..Len(r) : q[Len(l) + j] = r[j])
    BY <2>2, <2>3, <2>4
  <2>7. l \o r = q
    BY <2>1, <2>6, Joined, Zenon
  <2>8. InBrackets(l \o r)
    BY <2>5, <2>7
  <2> QED
    BY <2>8 DEF l, r
<1>2. ASSUME NEW u \in Operands, NEW v \in Operands, NEW o \in Openers, NEW i \in Inners, NEW c \in Closers, NEW w \in Operands
      PROVE  InBrackets(<<u, v>> \o <<o, i, c, w>>)
  <2> DEFINE S == {u, v, o, i, c, w}
             l == <<u, v>>
             r == <<o, i, c, w>>
             q == <<u, v, o, i, c, w>>
  <2>1. l \in Seq(S) /\ r \in Seq(S) /\ q \in Seq(S)
    OBVIOUS
  <2>2. Len(l) = 2 /\ Len(r) = 4 /\ Len(q) = 6
    OBVIOUS
  <2>3. \A j \in 1..2 : q[j] = l[j]
    OBVIOUS
  <2>4. \A j \in 1..4 : q[2 + j] = r[j]
    OBVIOUS
  <2>5. InBrackets(q)
    BY <1>2, Shapes, Zenon
  <2> HIDE DEF S, l, r, q
  <2>6. Len(q) = Len(l) + Len(r) /\ (\A j \in 1..Len(l) : q[j] = l[j]) /\ (\A j \in 1..Len(r) : q[Len(l) + j] = r[j])
    BY <2>2, <2>3, <2>4
  <2>7. l \o r = q
    BY <2>1, <2>6, Joined, Zenon
  <2>8. InBrackets(l \o r)
    BY <2>5, <2>7
  <2> QED
    BY <2>8 DEF l, r
<1>3. ASSUME NEW o \in Openers, NEW i \in Inners, NEW c \in Closers, NEW w \in Operands, NEW x \in Operands
      PROVE  InBrackets(<<o, i, c, w>> \o <<x>>)
  <2> DEFINE S == {o, i, c, w, x}
             l == <<o, i, c, w>>
             r == <<x>>
             q == <<o, i, c, w, x>>
  <2>1. l \in Seq(S) /\ r \in Seq(S) /\ q \in Seq(S)
    OBVIOUS
  <2>2. Len(l) = 4 /\ Len(r) = 1 /\ Len(q) = 5
    OBVIOUS
  <2>3. \A j \in 1..4 : q[j] = l[j]
    OBVIOUS
  <2>4. \A j \in 1..1 : q[4 + j] = r[j]
    OBVIOUS
  <2>5. InBrackets(q)
    BY <1>3, Shapes, Zenon
  <2> HIDE DEF S, l, r, q
  <2>6. Len(q) = Len(l) + Len(r) /\ (\A j \in 1..Len(l) : q[j] = l[j]) /\ (\A j \in 1..Len(r) : q[Len(l) + j] = r[j])
    BY <2>2, <2>3, <2>4
  <2>7. l \o r = q
    BY <2>1, <2>6, Joined, Zenon
  <2>8. InBrackets(l \o r)
    BY <2>5, <2>7
  <2> QED
    BY <2>8 DEF l, r
<1>4. ASSUME NEW u \in Inners, NEW c \in Closers, NEW w \in Operands
      PROVE  Closing(<<u, c>> \o <<w>>)
  <2> DEFINE S == {u, c, w}
             l == <<u, c>>
             r == <<w>>
             q == <<u, c, w>>
  <2>1. l \in Seq(S) /\ r \in Seq(S) /\ q \in Seq(S)
    OBVIOUS
  <2>2. Len(l) = 2 /\ Len(r) = 1 /\ Len(q) = 3
    OBVIOUS
  <2>3. \A j \in 1..2 : q[j] = l[j]
    OBVIOUS
  <2>4. \A j \in 1..1 : q[2 + j] = r[j]
    OBVIOUS
  <2>5. Closing(q)
    BY <1>4, Shapes, Zenon
  <2> HIDE DEF S, l, r, q
  <2>6. Len(q) = Len(l) + Len(r) /\ (\A j \in 1..Len(l) : q[j] = l[j]) /\ (\A j \in 1..Len(r) : q[Len(l) + j] = r[j])
    BY <2>2, <2>3, <2>4
  <2>7. l \o r = q
    BY <2>1, <2>6, Joined, Zenon
  <2>8. Closing(l \o r)
    BY <2>5, <2>7
  <2> QED
    BY <2>8 DEF l, r
<1> QED
  BY <1>1, <1>2, <1>3, <1>4, Zenon

\* Types (parse_type_syntax, parse_field_list, parse_pack_suffix).
LEMMA TypesForm ==
  ASSUME AtToken
  PROVE  /\ Formed(PackSuffix)
         /\ Formed(PackValue)
         /\ \A b \in BOOLEAN : Formed(TypeSyntax(b))
         /\ ArraySuffix # Fail => Closing(ArraySuffix)
         /\ Formed(TypeSuffix)
         /\ Formed(FieldList)
         /\ Formed(FieldSuffix)
         /\ Formed(FieldSeparator)
<1> USE DEF Formed
<1>1. Formed(PackSuffix)
  <2>1. Flat(Nothing)
    BY FlatFacts DEF Nothing
  <2>2. /\ Want("pack") \in Operands /\ Want("(") \in Openers /\ WantAny(Integers64) \in Inners
        /\ P("pack value") \in Inners /\ Want(")") \in Closers
    BY Zenon, OperandFacts, WeightFacts, Names
  <2>3. InBrackets(<<Want("pack"), Want("("), WantAny(Integers64), P("pack value"), Want(")")>>)
    BY Zenon, <2>2, Shapes
  <2> QED
    BY Zenon, <2>1, <2>3 DEF PackSuffix
<1>2. Formed(PackValue)
  <2>1. P("fail") \in Operands
    BY Zenon, OperandFacts, Names
  <2> QED
    BY Zenon, <2>1, FlatFacts DEF PackValue, Nothing, Fail
<1>3. \A b \in BOOLEAN : Formed(TypeSyntax(b))
  <2> SUFFICES ASSUME NEW b \in BOOLEAN PROVE Formed(TypeSyntax(b))
    OBVIOUS
  <2>1. Peek(0) \in {"struct", "union"} => Seen({Peek(0)}, 0) \in Operands
    <3>1. 0 \in {0, 1, 2}
      OBVIOUS
    <3> QED
      BY Zenon, <3>1, OperandFacts, Names
  <2>2. /\ P("pack") \in Operands /\ Want("{") \in Openers /\ P("fields") \in Inners /\ Want("}") \in Closers
        /\ Gives("aggregate") \in Operands /\ P("type suffix") \in Operands /\ WantName \in Operands
    BY Zenon, OperandFacts, Names
  <2>3. Gives(IF Peek(0) \in Builtins THEN "builtin" ELSE "named") \in Operands
    BY Zenon, OperandFacts, Names
  <2>4. Peek(0) \in {"struct", "union"} =>
          InBrackets(<<Seen({Peek(0)}, 0), P("pack"), Want("{"), P("fields"), Want("}"), Gives("aggregate"), P("type suffix")>>)
    BY Zenon, <2>1, <2>2, Shapes
  <2>5. Flat(<<WantName, Gives(IF Peek(0) \in Builtins THEN "builtin" ELSE "named"), P("type suffix")>>)
    BY Zenon, <2>2, <2>3, FlatFacts
  <2> QED
    BY Zenon, <2>4, <2>5 DEF TypeSyntax
<1>4. ArraySuffix # Fail => Closing(ArraySuffix)
  <2>1. Want("]") \in Closers /\ Gives("array") \in Operands /\ P("fail") \in Operands /\ Expression \in Inners
    BY Zenon, OperandFacts, Names
  <2>2. CASE Peek(0) \in Integers64 /\ Peek(1) = "]"
    <3>1. Seen({Peek(0)}, 0) \in Inners
      <4>1. Peek(0) \in Levels /\ 0 \in {0, 1, 2}
        BY Zenon, <2>2, WeightFacts
      <4> QED
        BY Zenon, <4>1, OperandFacts
    <3>2. \A w \in Operands : Closing(<<Seen({Peek(0)}, 0), Want("]")>> \o <<w>>)
      BY Zenon, <2>1, <3>1, JoinedBrackets
    <3>3. ArraySuffix = <<Seen({Peek(0)}, 0), Want("]")>> \o <<P("fail")>> \/ ArraySuffix = <<Seen({Peek(0)}, 0), Want("]")>> \o <<Gives("array")>>
      <4>1. Peek(0) # "]"
        BY ZenonT(60), <2>2 DEF Integers64, Digits
      <4> QED
        BY Zenon, <2>2, <4>1 DEF ArraySuffix, Fail
    <3> QED
      BY Zenon, <2>1, <3>2, <3>3
  <2>3. CASE ~(Peek(0) \in Integers64 /\ Peek(1) = "]")
    <3>1. ArraySuffix = Fail \/ ArraySuffix = <<Expression, Want("]"), Gives("array")>>
      BY Zenon, <2>3 DEF ArraySuffix
    <3> QED
      BY Zenon, <2>1, <3>1, Shapes
  <2> QED
    BY <2>2, <2>3
<1>5. Formed(TypeSuffix)
  <2>1. Want("[") \in Openers /\ P("array suffix") \in Closers /\ P("type suffix") \in Operands
    BY Zenon, OperandFacts, Names
  <2> QED
    BY Zenon, <2>1, Shapes, FlatFacts DEF TypeSuffix, Nothing
<1>6. Formed(FieldList)
  <2>1. /\ P("fail") \in Operands /\ PArg("type", 1) \in Operands /\ WantName \in Operands
        /\ P("field suffix") \in Operands /\ P("field separator") \in Operands
    <3>1. 1 \in Nat
      OBVIOUS
    <3> QED
      BY Zenon, <3>1, OperandFacts, Names
  <2> QED
    BY Zenon, <2>1, FlatFacts DEF FieldList, Nothing, Fail
<1>7. Formed(FieldSuffix)
  <2>1. Want("[") \in Openers /\ P("array suffix") \in Closers
    BY Zenon, OperandFacts, Names
  <2> QED
    BY Zenon, <2>1, Shapes, FlatFacts DEF FieldSuffix, Nothing
<1>8. Formed(FieldSeparator)
  <2>1. P("fail") \in Operands /\ Want(",") \in Operands /\ P("fields") \in Operands
    BY Zenon, OperandFacts, Names
  <2> QED
    BY Zenon, <2>1, FlatFacts DEF FieldSeparator, Nothing, Fail
<1> QED
  BY <1>1, <1>2, <1>3, <1>4, <1>5, <1>6, <1>7, <1>8

\* Operands (parse_unary, parse_primary, parse_place, parse_named_or_external).
LEMMA OperandsForm ==
  ASSUME AtToken
  PROVE  /\ Formed(Place)
         /\ Formed(PlaceSuffix)
         /\ Formed(PostfixSuffix)
         /\ Formed(Unary)
         /\ Formed(Primary)
         /\ Formed(Strings)
         /\ Formed(MemberPath)
         /\ Formed(Anonymous)
         /\ Formed(External)
         /\ Formed(ExternalTarget)
         /\ Formed(Named)
         /\ Formed(AfterType)
<1> USE DEF Formed
<1>1. \A n \in {0, 1} : PArg("type", n) \in Operands /\ PArg("type", n) \in Inners
  <2>1. {0, 1} \subseteq Nat
    OBVIOUS
  <2> QED
    BY Zenon, <2>1, OperandFacts, Names
<1>2. /\ Gives("other") \in Operands /\ Gives("call") \in Operands /\ Gives("variable") \in Operands
      /\ WantName \in Operands /\ P("fail") \in Operands /\ P("arguments") \in Inners
      /\ Want("(") \in Openers /\ Want(")") \in Closers /\ Want("{") \in Openers /\ Want("}") \in Closers
      /\ Want("[") \in Openers /\ Want("]") \in Closers /\ Expression \in Inners
  BY Zenon, OperandFacts, Names
<1>3. \A s \in {"unary", "primary", "strings", "member path", "anonymous", "external", "named", "after type",
                "place", "place suffix", "postfix suffix", "type suffix"} : P(s) \in Operands /\ P(s) \in Inners
  BY Zenon, OperandFacts, Names
<1>4. \A k \in {".", ",", "=", "@", "variable", "string", "float", "sizeof", "alignof", "offsetof",
                "-", "!", "~", "&"} : Want(k) \in Operands /\ Want(k) \in Inners
  BY Zenon, OperandFacts, Names
<1>5. CallArguments = <<Want("("), P("arguments"), Want(")"), Gives("call")>> /\ InBrackets(CallArguments)
  BY Zenon, <1>2, Shapes DEF CallArguments
<1>6. \A u \in Operands : InBrackets(<<u>> \o CallArguments)
  BY Zenon, <1>2, <1>5, JoinedBrackets
<1>7. \A u, v \in Operands : InBrackets(<<u, v>> \o CallArguments)
  BY Zenon, <1>2, <1>5, JoinedBrackets
<1>8. \A u \in Operands : InBrackets(CallArguments \o <<u>>)
  BY Zenon, <1>2, <1>5, JoinedBrackets
<1>9. \A n \in {0, 1, 2} :
        /\ Seen(Identifiers \cup {"variable"}, n) \in Operands
        /\ Seen(Identifiers, n) \in Operands
        /\ \A k \in {".", "string", "sizeof", "alignof", "offsetof", "-", "!", "~"} : Seen({k}, n) \in Operands
  <2>1. Identifiers \cup {"variable"} \subseteq Levels /\ Identifiers \subseteq Levels
    BY Zenon, WeightFacts, Names
  <2>2. {".", "string", "sizeof", "alignof", "offsetof", "-", "!", "~"} \subseteq Levels
    BY Zenon, Names
  <2> QED
    BY Zenon, <2>1, <2>2, OperandFacts
<1>24. 0 \in {0, 1, 2} /\ 1 \in {0, 1, 2} /\ 2 \in {0, 1, 2}
  OBVIOUS
<1>10. Formed(Place)
  <2>1. Flat(<<Want("variable"), P("place suffix")>>)
    BY Zenon, <1>3, <1>4, FlatFacts
  <2>2. Flat(<<PArg("type", 0), Want("@"), P("unary"), P("place suffix")>>)
    BY Zenon, <1>1, <1>3, <1>4, FlatFacts
  <2> QED
    BY Zenon, <2>1, <2>2 DEF Place
<1>11. \A l \in {"place suffix", "postfix suffix"} : Formed(Suffix(l))
  <2> SUFFICES ASSUME NEW l \in {"place suffix", "postfix suffix"} PROVE Formed(Suffix(l))
    OBVIOUS
  <2>1. P(l) \in Operands
    BY Zenon, <1>3
  <2>2. Flat(<<Want("."), WantName, Gives("other"), P(l)>>)
    BY Zenon, <1>2, <1>4, <2>1, FlatFacts
  <2>3. InBrackets(<<Want("["), Expression, Want("]"), Gives("other"), P(l)>>)
    BY Zenon, <1>2, <2>1, Shapes
  <2> QED
    BY Zenon, <2>2, <2>3, FlatFacts DEF Suffix, Nothing
<1>12. Formed(PlaceSuffix)
  BY Zenon, <1>11 DEF PlaceSuffix
<1>13. Formed(PostfixSuffix)
  BY Zenon, <1>3, <1>8, <1>11 DEF PostfixSuffix
<1>14. Formed(Unary)
  <2>1. Peek(0) \in {"-", "!", "~"} => Flat(<<Seen({Peek(0)}, 0), P("unary"), Gives("other")>>)
    BY Zenon, <1>2, <1>3, <1>9, <1>24, FlatFacts
  <2>2. \A c \in {Seen(Identifiers, 1), P("place")} : Flat(<<Want("&"), c, Gives("other")>>)
    BY Zenon, <1>2, <1>3, <1>4, <1>9, <1>24, FlatFacts
  <2>3. Flat(<<P("primary"), P("postfix suffix")>>)
    BY Zenon, <1>3, FlatFacts
  <2> QED
    BY Zenon, <2>1, <2>2, <2>3 DEF Unary
<1>15. Formed(Primary)
  <2>1. Peek(0) \in Integers64 \cup {"float"} => Flat(<<Want(Peek(0)), Gives("other")>>)
    <3>1. Peek(0) \in Integers64 \cup {"float"} => Peek(0) \in Levels
      BY Zenon, WeightFacts, Names
    <3>2. Peek(0) \in Levels => Want(Peek(0)) \in Operands
      BY Zenon, OperandFacts
    <3> QED
      BY Zenon, <1>2, <3>1, <3>2, FlatFacts
  <2>2. /\ Flat(<<Want("string"), P("strings"), Gives("other")>>)
        /\ Flat(<<Want("variable"), Gives("variable")>>)
    BY Zenon, <1>2, <1>3, <1>4, FlatFacts
  <2>3. InBrackets(Condition)
    BY Zenon, <1>2, Shapes DEF Condition
  <2>4. Peek(0) \in {"sizeof", "alignof"} =>
          InBrackets(<<Seen({Peek(0)}, 0), Want("("),
              IF Peek(2) = "variable" THEN Expression ELSE PArg("type", 1), Want(")"), Gives("other")>>)
    <3>1. (IF Peek(2) = "variable" THEN Expression ELSE PArg("type", 1)) \in Inners
      BY Zenon, <1>1, <1>2
    <3>2. Peek(0) \in {"sizeof", "alignof"} => Seen({Peek(0)}, 0) \in Operands
      BY Zenon, <1>9, <1>24
    <3> QED
      BY Zenon, <1>2, <3>1, <3>2, Shapes
  <2>5. InBrackets(<<Seen({"offsetof"}, 0), Want("("), PArg("type", 1), Want(","), WantName, P("member path"),
      Want(")"), Gives("other")>>)
    <3>1. WantName \in Inners
      BY Zenon, <1>2, OperandFacts
    <3> QED
      BY Zenon, <1>1, <1>2, <1>3, <1>4, <1>9, <1>24, <3>1, Shapes
  <2>6. /\ Flat(<<PArg("type", 1), P("anonymous")>>)
        /\ Flat(<<P("external")>>) /\ Flat(Fail)
    BY Zenon, <1>1, <1>2, <1>3, FlatFacts DEF Fail
  <2>7. \A q : Flat(q) \/ InBrackets(q) => Formed(q)
    OBVIOUS
  <2> HIDE DEF Formed
  <2> QED
    BY Zenon, <2>1, <2>2, <2>3, <2>4, <2>5, <2>6, <2>7 DEF Primary
<1>16. Formed(Strings)
  BY Zenon, <1>3, <1>9, <1>24, FlatFacts DEF Strings, Nothing
<1>17. Formed(MemberPath)
  BY Zenon, <1>2, <1>3, <1>4, FlatFacts DEF MemberPath, Nothing
<1>18. InBrackets(Initializer)
  <2>1. P("elements") \in Inners /\ P("initializers") \in Inners
    BY Zenon, OperandFacts, Names
  <2> QED
    BY Zenon, <1>2, <2>1, Shapes DEF Initializer, ArrayInitializer, AggregateInitializer
<1>19. Formed(Anonymous)
  BY Zenon, <1>2, <1>18, FlatFacts DEF Anonymous, Fail
<1>20. Formed(External)
  <2>1. Flat(<<Seen(Identifiers, 0), Seen({"."}, 1), Seen(Identifiers, 2), PArg("type", 0), P("external target")>>)
    BY Zenon, <1>1, <1>9, <1>24, OperandFacts, FlatFacts
  <2> QED
    BY Zenon, <1>3, <2>1, FlatFacts DEF External
<1>21. Formed(ExternalTarget)
  BY Zenon, <1>6, <1>9, <1>24 DEF ExternalTarget
<1>22. Formed(Named)
  <2>1. InBrackets(<<PArg("type", 0), Seen(Identifiers \cup {"variable"}, 1)>> \o CallArguments)
    BY Zenon, <1>1, <1>7, <1>9, <1>24
  <2>2. Flat(<<PArg("type", 0), P("after type")>>)
    BY Zenon, <1>1, <1>3, FlatFacts
  <2> QED
    BY Zenon, <2>1, <2>2 DEF Named
<1>23. Formed(AfterType)
  <2>1. /\ Flat(<<Want("@"), P("unary"), Gives("other")>>)
        /\ Flat(<<Gives("other")>>)
        /\ Flat(<<P("primary"), Gives("other")>>)
        /\ Flat(<<P("unary"), Gives("other")>>)
        /\ Flat(Fail)
    BY Zenon, <1>2, <1>3, <1>4, FlatFacts DEF Fail
  <2>2. \A q : Flat(q) \/ InBrackets(q) => Formed(q)
    OBVIOUS
  <2> HIDE DEF Formed
  <2> QED
    BY Zenon, <1>5, <1>18, <2>1, <2>2 DEF AfterType
<1> QED
  BY Zenon, <1>10, <1>12, <1>13, <1>14, <1>15, <1>16, <1>17, <1>19, <1>20, <1>21, <1>22, <1>23

\* What is in brackets (parse_arguments, parse_array_initializer, parse_aggregate_initializer).
LEMMA InnersForm ==
  ASSUME AtToken
  PROVE  /\ Elements \in Seq(Inners)
         /\ MoreElements \in Seq(Inners)
         /\ Initializers \in Seq(Inners)
         /\ MoreInitializers \in Seq(Inners)
         /\ Arguments \in Seq(Inners)
         /\ \A b \in BOOLEAN : Argument(b) \in Seq(Inners)
         /\ \A n \in Nat : MoreArguments(n) \in Seq(Inners)
         /\ \A n \in Nat : NextArgument(n) \in Seq(Inners)
<1>1. {0, 1} \subseteq Nat
  OBVIOUS
<1>2. /\ Expression \in Inners /\ P("fail") \in Inners /\ WantName \in Inners
      /\ \A k \in {",", ".", "="} : Want(k) \in Inners
      /\ \A s \in {"elements", "more elements", "initializers", "more initializers"} : P(s) \in Inners
      /\ \A s \in {"argument", "more arguments", "next argument", "type"}, n \in Nat : PArg(s, n) \in Inners
  BY Zenon, OperandFacts, Names
<1>3. Elements \in Seq(Inners) /\ MoreElements \in Seq(Inners)
  BY Zenon, <1>2, SequencesOfInners DEF Elements, MoreElements, Nothing
<1>4. Initializers \in Seq(Inners) /\ MoreInitializers \in Seq(Inners)
  BY Zenon, <1>2, SequencesOfInners DEF Initializers, MoreInitializers, Nothing
<1>5. Arguments \in Seq(Inners)
  BY Zenon, <1>1, <1>2, SequencesOfInners DEF Arguments, Nothing
<1>6. \A b \in BOOLEAN : Argument(b) \in Seq(Inners)
  BY Zenon, <1>1, <1>2, SequencesOfInners DEF Argument, Nothing
<1>7. \A n \in Nat : MoreArguments(n) \in Seq(Inners) /\ NextArgument(n) \in Seq(Inners)
  BY Zenon, <1>2, SequencesOfInners DEF MoreArguments, NextArgument, Nothing, Fail
<1> QED
  BY <1>3, <1>4, <1>5, <1>6, <1>7

\* Whatever is ahead, what an item of an operand comes down to fits in its place.
LEMMA ProductionFits ==
  ASSUME AtToken, NEW item \in Items, item.symbol \in Plain \cap InnerSymbols, Production(item) # Fail
  PROVE  Fitting(Production(item), item.symbol)
<1>1. (item.arg = 1) \in BOOLEAN /\ item.arg \in Nat
  BY DEF Items
<1>2. "array suffix" \notin OperandSymbols
  BY Zenon DEF OperandSymbols
<1>3. CASE item.symbol \in {"pack", "pack value", "type", "type suffix", "fields", "field suffix", "field separator"}
  <2>1. item.symbol \in OperandSymbols /\ item.symbol # "array suffix"
    BY Zenon, <1>2, <1>3, Names
  <2>2. Formed(Production(item))
    BY Zenon, <1>1, <1>3, TypesForm DEF Production
  <2> QED
    BY Zenon, <2>1, <2>2 DEF Fitting, Formed
<1>4. CASE item.symbol \in {"place", "place suffix", "postfix suffix", "unary", "primary", "strings",
    "member path", "anonymous", "external", "named", "after type"}
  <2>1. item.symbol \in OperandSymbols /\ item.symbol # "array suffix"
    BY Zenon, <1>2, <1>4, Names
  <2>2. Formed(Production(item))
    BY Zenon, <1>4, OperandsForm DEF Production
  <2> QED
    BY Zenon, <2>1, <2>2 DEF Fitting, Formed
<1>5. CASE item.symbol = "array suffix"
  BY Zenon, <1>2, <1>5, TypesForm DEF Production, Fitting
<1>6. CASE item.symbol \in {"elements", "more elements", "initializers", "more initializers", "arguments",
    "argument", "more arguments", "next argument"}
  <2>1. item.symbol \notin OperandSymbols /\ item.symbol # "array suffix"
    BY ZenonT(60), <1>6 DEF OperandSymbols
  <2>2. Production(item) \in Seq(Inners)
    BY Zenon, <1>1, <1>6, InnersForm DEF Production
  <2> QED
    BY Zenon, <2>1, <2>2 DEF Fitting
<1>7. item.symbol # "expression"
  BY Zenon DEF Plain
<1> QED
  BY ZenonT(60), <1>3, <1>4, <1>5, <1>6, <1>7 DEF InnerSymbols, OperandSymbols, Plain

-----------------------------------------------------------------------------
(* The loops of operators.                                                   *)

\* Where the operand starts that a loop, or an operator, is about to end; the
\* precedence that the operators in it have at least: 11 where none has been read.
Base(item) == IF item.symbol = "binary" THEN item.arg + 1 ELSE item.from
LevelAt(st, k) ==
  IF st[k].symbol = "binary" THEN Precedence(tokens[st[k].arg]) + 1
  ELSE IF k > 1 /\ st[k - 1].symbol # "binary" THEN 11
  ELSE st[k].arg

\* An item at depth d above a loop of level l at depth e: it stands for a part of
\* an operand, for what is in brackets, or for operators that bind tightly enough.
Over(item, d, e, l) ==
  /\ d >= e /\ item.symbol \in InnerSymbols \cup Loops
  /\ item.symbol = "external target" => d = Nesting(item.from - 1)
  /\ \/ d > e
     \/ item.symbol \in OperandSymbols
     \/ item.symbol \in Leveled /\ item.arg >= l
     \/ item.symbol = "binary" /\ Precedence(tokens[item.arg]) >= l

\* dp holds the depths in brackets at which the items of st start.
LoopAt(st, dp, ns, p, k) ==
  /\ st[k].from <= p /\ Nesting(st[k].from - 1) = dp[k] /\ Nesting(Base(st[k]) - 1) = dp[k]
  /\ \A m \in ns : m.op >= Base(st[k]) /\ Nesting(m.op) <= dp[k] =>
       Precedence(tokens[m.op]) >= LevelAt(st, k)
  /\ \A j \in 1..(k - 1) :
       Effect(st[j], dp[j + 1] - dp[j]) /\ Over(st[j], dp[j], dp[k], LevelAt(st, k))

\* An operator has a left operand, and waits for its right one.
BinaryAt(st, ns, p, k) ==
  /\ st[k].arg \in st[k].from..p /\ (st[k].arg = p => st[1].symbol = "want")
  /\ k + 1 \in 1..Len(st) /\ st[k + 1].symbol = "operators" /\ st[k + 1].from = st[k].from
  /\ st[k + 1].arg <= Precedence(tokens[st[k].arg])
  /\ k > 1 => st[k - 1].symbol \in Leveled /\ st[k - 1].arg = Precedence(tokens[st[k].arg]) + 1
  /\ \A m \in ns : m.op \in st[k].from..(st[k].arg - 1) /\ Nesting(m.op) <= Nesting(st[k].from - 1) =>
       Precedence(tokens[m.op]) >= Precedence(tokens[st[k].arg])
  /\ \A m \in ns : st[k].arg \notin m.from..m.to

\* What the parser may go back to.
Rewinders == {"assignment", "external target"}
RewinderAt(st, ns, p, k) ==
  /\ st[k].from <= p
  /\ \A m \in ns : m.from < st[k].from => m.to < st[k].from
Before(item, f) ==
  /\ item.symbol \in Rewinders \cup {"operators"} => item.from <= f
  /\ item.symbol = "binary" => item.arg < f

\* A loop that continues or ends has read what binds as tightly as what is ahead.
TopAt(st, dp, ns, p) ==
  /\ st[1].symbol = "operators" =>
       \A m \in ns : m.op >= st[1].from /\ Nesting(m.op) <= dp[1] =>
         Precedence(tokens[m.op]) >= Precedence(tokens[p])
  /\ st[1].symbol = "binary" => Precedence(tokens[p]) <= Precedence(tokens[st[1].arg])

Nodes == [from : Nat \ {0}, op : Nat \ {0}, to : Nat \ {0}]
NodeAt(m, p) == m \in Nodes /\ m.from <= m.op /\ m.op <= m.to /\ m.to < p

DepthsOf(st, dp, p) ==
  dp \in Seq(Int) /\ Len(dp) = Len(st) /\ (st # <<>> => dp[1] = Nesting(p - 1))

ItemAt(st, dp, ns, p, k) ==
  /\ st[k].symbol \in Loops => LoopAt(st, dp, ns, p, k)
  /\ st[k].symbol = "binary" => BinaryAt(st, ns, p, k)
  /\ st[k].symbol \in Rewinders => RewinderAt(st, ns, p, k)
  /\ \A j \in 1..(k - 1) : st[j].symbol \in Loops \cup Rewinders => Before(st[k], st[j].from)

Grouping(st, dp, ns, p) ==
  /\ DepthsOf(st, dp, p)
  /\ \A m \in ns : NodeAt(m, p)
  /\ \A k \in 1..Len(st) : ItemAt(st, dp, ns, p, k)
  /\ st # <<>> => TopAt(st, dp, ns, p)

\* What the fields of an item hold.
LEMMA ItemTypes ==
  \A item \in Items :
    /\ item.from \in Nat \ {0} /\ item.from <= Len(tokens) /\ item.arg \in Nat
    /\ item.symbol \in Leveled => item.arg \in Nat \ {0}
    /\ item.symbol \in Plain \cup Special \cup Leveled
<1> SUFFICES ASSUME NEW item \in Items
             PROVE  /\ item.from \in Nat \ {0} /\ item.from <= Len(tokens) /\ item.arg \in Nat
                    /\ item.symbol \in Leveled => item.arg \in Nat \ {0}
                    /\ item.symbol \in Plain \cup Special \cup Leveled
  OBVIOUS
<1>1. Leveled \cap (Plain \cup Special) = {}
  BY Zenon DEF Leveled, Plain, Special
<1>2. item.from \in 1..Len(tokens) /\ item.arg \in Nat /\ item.symbol \in Plain \cup Special \cup Leveled
  BY DEF Items
<1>3. item.symbol \in Leveled => item.arg \in Nat \ {0}
  BY <1>1 DEF Items
<1>4. item.from \in Nat \ {0} /\ item.from <= Len(tokens)
  BY <1>2
<1> QED
  BY <1>2, <1>3, <1>4

\* The items below the i-th one, under others.
LEMMA Remainder ==
  ASSUME NEW T, NEW st \in Seq(T), NEW q \in Seq(T), NEW i \in 1..Len(st),
         NEW st2, st2 = q \o SubSeq(st, i + 1, Len(st))
  PROVE  /\ st2 \in Seq(T) /\ Len(st2) = Len(q) + Len(st) - i /\ Len(st) \in Nat /\ Len(q) \in Nat
         /\ \A x \in 1..Len(q) : x \in 1..Len(st2) /\ st2[x] = q[x]
         /\ \A k \in (i + 1)..Len(st) : k - i + Len(q) \in 1..Len(st2) /\ st2[k - i + Len(q)] = st[k]
         /\ \A x \in 1..Len(st2) : x \in 1..Len(q) \/ x - Len(q) + i \in (i + 1)..Len(st)
<1> DEFINE r == SubSeq(st, i + 1, Len(st))
<1>1. Len(st) \in Nat /\ Len(q) \in Nat /\ i \in Nat /\ i <= Len(st)
  OBVIOUS
<1>2. /\ r \in Seq(T) /\ Len(r) = Len(st) - i
      /\ \A x \in 1..(Len(st) - i) : r[x] = st[i + x]
  <2>1. \A x \in (i + 1)..Len(st) : st[x] \in T
    BY <1>1
  <2>2. i + 1 \in Int /\ Len(st) \in Int
    BY <1>1
  <2>3. /\ r \in Seq(T) /\ Len(r) = IF i + 1 <= Len(st) THEN Len(st) - (i + 1) + 1 ELSE 0
        /\ \A x \in 1..(Len(st) - (i + 1) + 1) : r[x] = st[i + 1 + x - 1]
    BY <2>1, <2>2, SubSeqProperties
  <2>4. Len(st) - (i + 1) + 1 = Len(st) - i
    BY <1>1
  <2>5. \A x \in 1..(Len(st) - i) : r[x] = st[i + x]
    <3> SUFFICES ASSUME NEW x \in 1..(Len(st) - i) PROVE r[x] = st[i + x]
      OBVIOUS
    <3>1. i + 1 + x - 1 = i + x
      BY <1>1
    <3> QED
      BY <2>3, <2>4, <3>1
  <2> QED
    BY <1>1, <2>3, <2>5
<1> HIDE DEF r
<1>3. /\ st2 \in Seq(T) /\ Len(st2) = Len(q) + Len(r)
      /\ \A x \in 1..(Len(q) + Len(r)) : st2[x] = IF x <= Len(q) THEN q[x] ELSE r[x - Len(q)]
  BY <1>2, ConcatProperties DEF r
<1>4. Len(st2) = Len(q) + Len(st) - i
  BY <1>1, <1>2, <1>3
<1>5. \A x \in 1..Len(q) : x \in 1..Len(st2) /\ st2[x] = q[x]
  BY <1>1, <1>2, <1>3
<1>6. ASSUME NEW k \in (i + 1)..Len(st)
      PROVE  k - i + Len(q) \in 1..Len(st2) /\ st2[k - i + Len(q)] = st[k]
  <2>1. /\ k - i + Len(q) \in 1..(Len(q) + Len(r)) /\ ~(k - i + Len(q) <= Len(q))
        /\ (k - i + Len(q)) - Len(q) = k - i /\ k - i \in 1..(Len(st) - i) /\ i + (k - i) = k
    BY <1>1, <1>2
  <2>2. st2[k - i + Len(q)] = r[k - i]
    BY <1>3, <2>1
  <2>3. r[k - i] = st[k]
    BY <1>2, <2>1
  <2> QED
    BY <1>3, <2>1, <2>2, <2>3
<1>7. \A x \in 1..Len(st2) : x \in 1..Len(q) \/ x - Len(q) + i \in (i + 1)..Len(st)
  BY <1>1, <1>4
<1> QED
  BY <1>1, <1>3, <1>4, <1>5, <1>6, <1>7

\* The items that the loops below them bear at any level.
Deep(item, d, e) ==
  /\ d >= e /\ item.symbol \in InnerSymbols
  /\ item.symbol = "external target" => d = Nesting(item.from - 1)
  /\ d > e \/ item.symbol \in OperandSymbols

\* The items of st from the i-th on under the items q.
Puts(st2, q, st, i) ==
  /\ st2 \in Seq(Items) /\ Len(st2) = Len(q) + Len(st) - i /\ Len(st) \in Nat /\ Len(q) \in Nat
  /\ \A x \in 1..Len(q) : x \in 1..Len(st2) /\ st2[x] = q[x]
  /\ \A k \in (i + 1)..Len(st) : k - i + Len(q) \in 1..Len(st2) /\ st2[k - i + Len(q)] = st[k]
  /\ \A x \in 1..Len(st2) : x \in 1..Len(q) \/ x - Len(q) + i \in (i + 1)..Len(st)

\* Items on top of what is below the i-th one.
LEMMA ItemsRemainder ==
  ASSUME NEW st \in Seq(Items), NEW q \in Seq(Items), NEW i \in 1..Len(st),
         NEW st2, st2 = q \o SubSeq(st, i + 1, Len(st))
  PROVE  Puts(st2, q, st, i)
<1> DEFINE Rest(T, u, r, s, n) ==
      /\ u \in Seq(T) /\ Len(u) = Len(r) + Len(s) - n /\ Len(s) \in Nat /\ Len(r) \in Nat
      /\ \A x \in 1..Len(r) : x \in 1..Len(u) /\ u[x] = r[x]
      /\ \A k \in (n + 1)..Len(s) : k - n + Len(r) \in 1..Len(u) /\ u[k - n + Len(r)] = s[k]
      /\ \A x \in 1..Len(u) : x \in 1..Len(r) \/ x - Len(r) + n \in (n + 1)..Len(s)
<1>1. \A T : \A s \in Seq(T), r \in Seq(T) : \A n \in 1..Len(s) :
        \A u : u = r \o SubSeq(s, n + 1, Len(s)) => Rest(T, u, r, s, n)
  BY Remainder
<1> HIDE DEF Rest
<1>2. \A n \in 1..Len(st) : \A u : u = q \o SubSeq(st, n + 1, Len(st)) => Rest(Items, u, q, st, n)
  BY <1>1
<1>3. Rest(Items, st2, q, st, i)
  BY <1>2
<1> QED
  BY <1>3 DEF Rest, Puts

\* What is left below the i-th item does not lie behind f, nor behind the items q.
Behind(st, i, f) == \A k \in (i + 1)..Len(st) : Before(st[k], f)
Apart(st, q, i) ==
  \A k \in (i + 1)..Len(st), x \in 1..Len(q) :
    q[x].symbol \in Loops \cup Rewinders => Before(st[k], q[x].from)
\* An operator below the items q waits for the operand that the last one reads.
Awaited(st, q, i) ==
  i + 1 \in 1..Len(st) /\ st[i + 1].symbol = "binary" /\ Len(q) # 0 =>
    q[Len(q)].symbol \in Leveled /\ q[Len(q)].arg = Precedence(tokens[st[i + 1].arg]) + 1
\* The loops left below the i-th item bear the items q in its place.
LoopsBear(st, dp, q, st2, dp2, i) ==
  \A k \in (i + 1)..Len(st) : st[k].symbol \in Loops =>
    /\ LevelAt(st, k) = 11 \/ LevelAt(st2, k - i + Len(q)) = LevelAt(st, k)
    /\ \A h \in (i + 1)..k : dp2[h - i + Len(q)] = dp[h]
    /\ \A x \in 1..Len(q) :
         Effect(q[x], dp2[x + 1] - dp2[x]) /\ Over(q[x], dp2[x], dp[k], LevelAt(st2, k - i + Len(q)))

\* A step that puts items q in place of the first i, and may go back, keeps what
\* is said of the items that are left.
LEMMA RestKeeps ==
  ASSUME tokens \in Seq(Kinds),
         NEW st \in Seq(Items), NEW dp, NEW ns, NEW p \in Nat, Grouping(st, dp, ns, p),
         NEW i \in 1..Len(st), NEW q \in Seq(Items), NEW st2, Puts(st2, q, st, i),
         NEW p2 \in Nat, NEW ns2 \in SUBSET ns, NEW dp2,
         Behind(st, i, p2), Apart(st, q, i), Awaited(st, q, i), LoopsBear(st, dp, q, st2, dp2, i)
  PROVE  \A k \in (i + 1)..Len(st) : ItemAt(st2, dp2, ns2, p2, k - i + Len(q))
<1>a. /\ \A k \in (i + 1)..Len(st) : Before(st[k], p2)
      /\ \A k \in (i + 1)..Len(st), x \in 1..Len(q) :
           q[x].symbol \in Loops \cup Rewinders => Before(st[k], q[x].from)
  BY DEF Behind, Apart
<1>c. i + 1 \in 1..Len(st) /\ st[i + 1].symbol = "binary" /\ Len(q) # 0 =>
        q[Len(q)].symbol \in Leveled /\ q[Len(q)].arg = Precedence(tokens[st[i + 1].arg]) + 1
  BY Zenon DEF Awaited
<1>d. \A k \in (i + 1)..Len(st) : st[k].symbol \in Loops =>
        /\ LevelAt(st, k) = 11 \/ LevelAt(st2, k - i + Len(q)) = LevelAt(st, k)
        /\ \A h \in (i + 1)..k : dp2[h - i + Len(q)] = dp[h]
        /\ \A x \in 1..Len(q) :
             Effect(q[x], dp2[x + 1] - dp2[x]) /\ Over(q[x], dp2[x], dp[k], LevelAt(st2, k - i + Len(q)))
  BY Zenon DEF LoopsBear
<1> USE <1>a, <1>c, <1>d
<1> DEFINE At(k) == k - i + Len(q)
<1>1. /\ st2 \in Seq(Items) /\ Len(st2) = Len(q) + Len(st) - i /\ Len(st) \in Nat /\ Len(q) \in Nat
      /\ \A x \in 1..Len(q) : x \in 1..Len(st2) /\ st2[x] = q[x]
      /\ \A k \in (i + 1)..Len(st) : At(k) \in 1..Len(st2) /\ st2[At(k)] = st[k]
      /\ \A x \in 1..Len(st2) : x \in 1..Len(q) \/ x - Len(q) + i \in (i + 1)..Len(st)
  BY DEF Puts
<1>2. i \in Nat /\ i >= 1 /\ i <= Len(st)
  BY <1>1
<1>3. \A x \in 1..Len(st2) : x \in 1..Len(q) \/ \E k \in (i + 1)..Len(st) : x = At(k)
  <2> SUFFICES ASSUME NEW x \in 1..Len(st2), x \notin 1..Len(q)
               PROVE  \E k \in (i + 1)..Len(st) : x = At(k)
    OBVIOUS
  <2>1. x - Len(q) + i \in (i + 1)..Len(st)
    BY <1>1
  <2>2. x = At(x - Len(q) + i)
    BY <1>1, <1>2
  <2> QED
    BY <2>1, <2>2
<1>4. /\ \A m \in ns : NodeAt(m, p)
      /\ \A k \in 1..Len(st) : ItemAt(st, dp, ns, p, k)
      /\ dp \in Seq(Int) /\ Len(dp) = Len(st)
  BY DEF Grouping, DepthsOf
<1>7. \A k \in (i + 1)..Len(st) : k \in 1..Len(st) /\ k > 1 /\ ItemAt(st, dp, ns, p, k) /\ st[k] \in Items
  BY <1>1, <1>2, <1>4
<1>b. ASSUME NEW k \in (i + 1)..Len(st), k # i + 1
      PROVE  /\ k - 1 \in (i + 1)..Len(st) /\ At(k) > 1 /\ k > 1 /\ At(k) - 1 = At(k - 1)
  <2>1. k \in Int /\ k >= i + 1 /\ k <= Len(st)
    BY <1>1, <1>2
  <2>2. k - 1 >= i + 1 /\ k - 1 \in Int /\ k - 1 <= Len(st)
    BY <1>1, <1>2, <1>b, <2>1
  <2>3. k - 1 \in (i + 1)..Len(st)
    BY <1>1, <1>2, <2>2
  <2>4. At(k) > 1 /\ At(k) - 1 = At(k - 1)
    BY <1>1, <1>2, <2>1, <2>2
  <2>5. k > 1
    BY <1>2, <2>1
  <2> QED
    BY <2>3, <2>4, <2>5
<1>8. ASSUME NEW k \in (i + 1)..Len(st), st[k].symbol \in Loops
      PROVE  /\ LevelAt(st, k) = 11 \/ LevelAt(st2, At(k)) = LevelAt(st, k)
             /\ \A h \in (i + 1)..k : dp2[At(h)] = dp[h]
             /\ \A x \in 1..Len(q) :
                  Effect(q[x], dp2[x + 1] - dp2[x]) /\ Over(q[x], dp2[x], dp[k], LevelAt(st2, At(k)))
  BY <1>8
<1>9. ASSUME NEW k \in (i + 1)..Len(st), st[k].symbol \in Loops
      PROVE  LoopAt(st2, dp2, ns2, p2, At(k))
  <2>1. LoopAt(st, dp, ns, p, k) /\ k \in 1..Len(st)
    BY <1>7, <1>9 DEF ItemAt
  <2>2. st2[At(k)] = st[k] /\ At(k) \in 1..Len(st2)
    BY <1>1
  <2>3. dp2[At(k)] = dp[k]
    <3>1. k \in (i + 1)..k
      BY <1>1, <1>2
    <3> QED
      BY <1>8, <1>9, <3>1
  <2>4. Nesting(st[k].from - 1) = dp[k] /\ Nesting(Base(st[k]) - 1) = dp[k]
    BY <2>1 DEF LoopAt
  <2>5. st[k].from <= p2
    <3>1. CASE st[k].symbol = "operators"
      BY <3>1 DEF Before
    <3>2. CASE st[k].symbol = "binary"
      <4>1. st[k].arg \in st[k].from..p /\ st[k].arg < p2
        BY <1>7, <3>2 DEF ItemAt, BinaryAt, Before
      <4>2. st[k].from \in Nat
        BY <1>7, ItemTypes
      <4> QED
        BY <4>1, <4>2
    <3> QED
      BY <1>9, <3>1, <3>2 DEF Loops
  <2>6. ASSUME NEW m \in ns2, m.op >= Base(st[k]), Nesting(m.op) <= dp[k]
        PROVE  Precedence(tokens[m.op]) >= LevelAt(st2, At(k))
    <3>1. Precedence(tokens[m.op]) >= LevelAt(st, k)
      BY <2>1, <2>6 DEF LoopAt
    <3>2. Precedence(tokens[m.op]) \in 0..10
      BY PrecedenceRange
    <3>3. CASE LevelAt(st2, At(k)) = LevelAt(st, k)
      BY <3>1, <3>3
    <3>4. CASE LevelAt(st, k) = 11
      <4>1. Precedence(tokens[m.op]) >= 11
        BY <3>1, <3>4
      <4> HIDE DEF At
      <4> QED
        BY <3>2, <4>1
    <3> HIDE DEF At
    <3> QED
      BY <1>8, <1>9, <3>3, <3>4
  <2>7. ASSUME NEW j \in 1..(At(k) - 1)
        PROVE  /\ Effect(st2[j], dp2[j + 1] - dp2[j])
               /\ Over(st2[j], dp2[j], dp[k], LevelAt(st2, At(k)))
    <3>1. CASE j \in 1..Len(q)
      <4>1. st2[j] = q[j]
        BY <1>1, <3>1
      <4> HIDE DEF At
      <4> QED
        BY <1>8, <1>9, <3>1, <4>1
    <3>2. CASE j \notin 1..Len(q)
      <4>1. j \in 1..Len(st2)
        BY <1>1, <1>2, <2>2
      <4>2. PICK h \in (i + 1)..Len(st) : j = At(h)
        BY <1>3, <3>2, <4>1
      <4>3. h \in 1..(k - 1) /\ h + 1 \in (i + 1)..k /\ h \in (i + 1)..k /\ At(h + 1) = j + 1 /\ k # i + 1
        BY <1>1, <1>2, <4>2
      <4>4. dp2[j] = dp[h] /\ dp2[j + 1] = dp[h + 1] /\ st2[j] = st[h]
        BY <1>1, <1>8, <1>9, <4>2, <4>3
      <4>5. Effect(st[h], dp[h + 1] - dp[h]) /\ Over(st[h], dp[h], dp[k], LevelAt(st, k))
        BY <2>1, <4>3 DEF LoopAt
      <4>6. LevelAt(st2, At(k)) = LevelAt(st, k)
        <5>1. CASE st[k].symbol = "binary"
          BY <2>2, <5>1 DEF LevelAt
        <5>2. CASE st[k].symbol # "binary"
          <6>1. k - 1 \in (i + 1)..Len(st) /\ At(k) > 1 /\ k > 1 /\ At(k) - 1 = At(k - 1)
            BY <1>b, <4>3
          <6>2. st2[At(k) - 1] = st[k - 1]
            BY <1>1, <6>1
          <6> HIDE DEF At
          <6> QED
            BY <2>2, <5>2, <6>1, <6>2 DEF LevelAt
        <5> QED
          BY <5>1, <5>2
      <4> QED
        BY <4>4, <4>5, <4>6
    <3> QED
      BY <3>1, <3>2
  <2> HIDE DEF At
  <2> QED
    BY <2>2, <2>3, <2>4, <2>5, <2>6, <2>7 DEF LoopAt
<1>10. ASSUME NEW k \in (i + 1)..Len(st), st[k].symbol = "binary"
       PROVE  BinaryAt(st2, ns2, p2, At(k))
  <2>1. BinaryAt(st, ns, p, k) /\ Before(st[k], p2) /\ k > 1 /\ st[k] \in Items
    BY <1>7, <1>10 DEF ItemAt
  <2>2. st2[At(k)] = st[k]
    BY <1>1
  <2>3. At(k) > 1 => /\ st2[At(k) - 1].symbol \in Leveled
                     /\ st2[At(k) - 1].arg = Precedence(tokens[st[k].arg]) + 1
    <3>1. CASE k = i + 1
      <4> SUFFICES ASSUME At(k) > 1
                   PROVE  /\ st2[At(k) - 1].symbol \in Leveled
                          /\ st2[At(k) - 1].arg = Precedence(tokens[st[k].arg]) + 1
        OBVIOUS
      <4>1. At(k) - 1 = Len(q) /\ Len(q) # 0 /\ Len(q) \in 1..Len(q) /\ i + 1 \in 1..Len(st)
        BY <1>1, <1>2, <3>1
      <4>2. st2[Len(q)] = q[Len(q)]
        BY <1>1, <4>1
      <4>3. q[Len(q)].symbol \in Leveled /\ q[Len(q)].arg = Precedence(tokens[st[i + 1].arg]) + 1
        BY <1>10, <3>1, <4>1
      <4> HIDE DEF At
      <4> QED
        BY <3>1, <4>1, <4>2, <4>3
    <3>2. CASE k # i + 1
      <4>1. k - 1 \in (i + 1)..Len(st) /\ At(k) - 1 = At(k - 1)
        BY <1>b, <3>2
      <4>2. st2[At(k) - 1] = st[k - 1]
        BY <1>1, <4>1
      <4>3. st[k - 1].symbol \in Leveled /\ st[k - 1].arg = Precedence(tokens[st[k].arg]) + 1
        BY <2>1 DEF BinaryAt
      <4> HIDE DEF At
      <4> QED
        BY <4>2, <4>3
    <3> QED
      BY <3>1, <3>2
  <2>4. k + 1 \in (i + 1)..Len(st) /\ At(k) + 1 = At(k + 1)
    <3>1. k + 1 \in 1..Len(st)
      BY <2>1 DEF BinaryAt
    <3>2. k \in Int /\ k >= i + 1 /\ k + 1 <= Len(st)
      BY <1>1, <1>2, <3>1
    <3>3. k + 1 \in (i + 1)..Len(st)
      BY <1>1, <1>2, <3>2
    <3>4. At(k) + 1 = At(k + 1)
      BY <1>1, <1>2, <3>2
    <3> QED
      BY <3>3, <3>4
  <2>5. st2[At(k) + 1] = st[k + 1] /\ At(k) + 1 \in 1..Len(st2)
    <3>1. At(k + 1) \in 1..Len(st2) /\ st2[At(k + 1)] = st[k + 1]
      BY <1>1, <2>4
    <3> HIDE DEF At
    <3> QED
      BY <2>4, <3>1
  <2>6. st[k].arg \in st[k].from..p2 /\ st[k].arg # p2
    <3>1. st[k].arg < p2 /\ st[k].arg \in st[k].from..p
      BY <1>10, <2>1 DEF Before, BinaryAt
    <3>2. st[k].from \in Nat
      BY <2>1, ItemTypes
    <3> QED
      BY <3>1, <3>2
  <2> HIDE DEF At
  <2> QED
    BY <2>1, <2>2, <2>3, <2>5, <2>6 DEF BinaryAt
<1>11. ASSUME NEW k \in (i + 1)..Len(st)
       PROVE  ItemAt(st2, dp2, ns2, p2, At(k))
  <2>2. st2[At(k)] = st[k] /\ ItemAt(st, dp, ns, p, k) /\ Before(st[k], p2)
    BY <1>1, <1>7
  <2>3. st[k].symbol \in Loops => LoopAt(st2, dp2, ns2, p2, At(k))
    BY <1>9
  <2>4. st[k].symbol = "binary" => BinaryAt(st2, ns2, p2, At(k))
    BY <1>10
  <2>5. st[k].symbol \in Rewinders => RewinderAt(st2, ns2, p2, At(k))
    BY <2>2 DEF ItemAt, RewinderAt, Before
  <2>6. ASSUME NEW j \in 1..(At(k) - 1), st2[j].symbol \in Loops \cup Rewinders
        PROVE  Before(st[k], st2[j].from)
    <3>1. CASE j \in 1..Len(q)
      <4>1. st2[j] = q[j]
        BY <1>1, <3>1
      <4> HIDE DEF At
      <4> QED
        BY <2>6, <3>1, <4>1
    <3>2. CASE j \notin 1..Len(q)
      <4>1. j \in 1..Len(st2)
        BY <1>1
      <4>2. PICK h \in (i + 1)..Len(st) : j = At(h)
        BY <1>3, <3>2, <4>1
      <4>3. st2[j] = st[h]
        BY <1>1, <4>2
      <4>4. h \in Int /\ h >= i + 1 /\ k \in Int /\ j <= At(k) - 1 /\ j \in Int
        BY <1>1, <1>2
      <4>5. h - i + Len(q) <= k - i + Len(q) - 1
        BY <4>2, <4>4
      <4>6. h <= k - 1 /\ h >= 1
        BY <1>1, <1>2, <4>4, <4>5
      <4>7. h \in 1..(k - 1)
        BY <4>4, <4>6
      <4> QED
        BY <2>2, <2>6, <4>3, <4>7 DEF ItemAt
    <3> QED
      BY <3>1, <3>2
  <2> QED
    BY <2>2, <2>3, <2>4, <2>5, <2>6 DEF ItemAt
<1> QED
  BY <1>11

\* Items pushed at p2, that are no loops.
Laid(q, p2) == \A x \in 1..Len(q) : q[x].symbol \notin Loops /\ q[x].from = p2
\* The loops left below the i-th item bear the items q in its place.
Borne(st, dp, q, dp2, i) ==
  \A k \in (i + 1)..Len(st) : st[k].symbol \in Loops =>
    /\ \A h \in (i + 1)..k : dp2[h - i + Len(q)] = dp[h]
    /\ \A x \in 1..Len(q) : Effect(q[x], dp2[x + 1] - dp2[x]) /\ Deep(q[x], dp2[x], dp[k])

\* A step that puts items q, none a loop, in place of the first i, and may go back.
LEMMA QuietKeeps ==
  ASSUME tokens \in Seq(Kinds),
         NEW st \in Seq(Items), NEW dp, NEW ns, NEW p \in Nat, Grouping(st, dp, ns, p),
         NEW i \in 1..Len(st), st[i].symbol \notin Loops \cup Leveled,
         NEW q \in Seq(Items), NEW st2, Puts(st2, q, st, i),
         NEW p2 \in Nat, NEW ns2 \in SUBSET ns, NEW dp2, DepthsOf(st2, dp2, p2),
         \A m \in ns2 : m.to < p2,
         Laid(q, p2), Behind(st, i, p2), Borne(st, dp, q, dp2, i)
  PROVE  Grouping(st2, dp2, ns2, p2)
<1>a. /\ \A x \in 1..Len(q) : q[x].symbol \notin Loops /\ q[x].from = p2
      /\ \A k \in (i + 1)..Len(st) : Before(st[k], p2)
  BY DEF Laid, Behind
<1>c. \A k \in (i + 1)..Len(st) : st[k].symbol \in Loops =>
        /\ \A h \in (i + 1)..k : dp2[h - i + Len(q)] = dp[h]
        /\ \A x \in 1..Len(q) : Effect(q[x], dp2[x + 1] - dp2[x]) /\ Deep(q[x], dp2[x], dp[k])
  BY DEF Borne
<1> USE <1>a, <1>c
<1> DEFINE At(k) == k - i + Len(q)
<1>1. /\ st2 \in Seq(Items) /\ Len(st2) = Len(q) + Len(st) - i /\ Len(st) \in Nat /\ Len(q) \in Nat
      /\ \A x \in 1..Len(q) : x \in 1..Len(st2) /\ st2[x] = q[x]
      /\ \A k \in (i + 1)..Len(st) : At(k) \in 1..Len(st2) /\ st2[At(k)] = st[k]
      /\ \A x \in 1..Len(st2) : x \in 1..Len(q) \/ x - Len(q) + i \in (i + 1)..Len(st)
  BY DEF Puts
<1>2. i \in Nat /\ i >= 1 /\ i <= Len(st)
  BY <1>1
<1>3. \A x \in 1..Len(st2) : x \in 1..Len(q) \/ \E k \in (i + 1)..Len(st) : x = At(k)
  <2> SUFFICES ASSUME NEW x \in 1..Len(st2), x \notin 1..Len(q)
               PROVE  \E k \in (i + 1)..Len(st) : x = At(k)
    OBVIOUS
  <2>1. x - Len(q) + i \in (i + 1)..Len(st)
    BY <1>1
  <2>2. x = At(x - Len(q) + i)
    BY <1>1, <1>2
  <2> QED
    BY <2>1, <2>2
<1>4. /\ \A m \in ns : NodeAt(m, p)
      /\ \A k \in 1..Len(st) : ItemAt(st, dp, ns, p, k)
      /\ dp \in Seq(Int) /\ Len(dp) = Len(st)
  BY DEF Grouping, DepthsOf
<1>5. dp2 \in Seq(Int) /\ Len(dp2) = Len(st2)
  BY DEF DepthsOf
<1>6. \A m \in ns2 : NodeAt(m, p2)
  BY <1>4 DEF NodeAt
<1>7. \A k \in (i + 1)..Len(st) : k \in 1..Len(st) /\ k > 1 /\ ItemAt(st, dp, ns, p, k) /\ st[k] \in Items
  BY <1>1, <1>2, <1>4
<1>b. ASSUME NEW k \in (i + 1)..Len(st), k # i + 1
      PROVE  /\ k - 1 \in (i + 1)..Len(st) /\ At(k) > 1 /\ k > 1 /\ At(k) - 1 = At(k - 1)
  <2>1. k \in Int /\ k >= i + 1 /\ k <= Len(st)
    BY <1>1, <1>2
  <2>2. k - 1 >= i + 1 /\ k - 1 \in Int /\ k - 1 <= Len(st)
    BY <1>1, <1>2, <1>b, <2>1
  <2>3. k - 1 \in (i + 1)..Len(st)
    BY <1>1, <1>2, <2>2
  <2>4. At(k) > 1 /\ At(k) - 1 = At(k - 1)
    BY <1>1, <1>2, <2>1, <2>2
  <2>5. k > 1
    BY <1>2, <2>1
  <2> QED
    BY <2>3, <2>4, <2>5
\* The level of a loop that is left is no higher, or no operator is in it.
<1>8. ASSUME NEW k \in (i + 1)..Len(st), st[k].symbol \in Loops
      PROVE  LevelAt(st, k) = 11 \/ LevelAt(st2, At(k)) = LevelAt(st, k)
  <2>1. CASE st[k].symbol = "binary"
    BY <1>1, <1>8, <2>1 DEF LevelAt
  <2>2. CASE st[k].symbol # "binary" /\ k = i + 1
    <3>1. k > 1 /\ k - 1 = i
      BY <1>2, <2>2
    <3>2. st[k - 1].symbol # "binary"
      <4>1. "binary" \in Loops
        BY DEF Loops
      <4> QED
        BY <3>1, <4>1
    <3> QED
      BY <2>2, <3>1, <3>2 DEF LevelAt
  <2>3. CASE st[k].symbol # "binary" /\ k # i + 1
    <3>1. k - 1 \in (i + 1)..Len(st) /\ At(k) > 1 /\ k > 1 /\ At(k) - 1 = At(k - 1)
      BY <1>b, <2>3
    <3>2. st2[At(k) - 1] = st[k - 1] /\ st2[At(k)] = st[k]
      BY <1>1, <3>1
    <3> HIDE DEF At
    <3> QED
      BY <2>3, <3>1, <3>2 DEF LevelAt
  <2> QED
    BY <2>1, <2>2, <2>3
<1>9. ASSUME NEW k \in (i + 1)..Len(st), st[k].symbol \in Loops
      PROVE  /\ LevelAt(st, k) = 11 \/ LevelAt(st2, k - i + Len(q)) = LevelAt(st, k)
             /\ \A h \in (i + 1)..k : dp2[h - i + Len(q)] = dp[h]
             /\ \A x \in 1..Len(q) :
                  Effect(q[x], dp2[x + 1] - dp2[x]) /\ Over(q[x], dp2[x], dp[k], LevelAt(st2, k - i + Len(q)))
  <2>1. LevelAt(st, k) = 11 \/ LevelAt(st2, k - i + Len(q)) = LevelAt(st, k)
    BY <1>8, <1>9
  <2>2. ASSUME NEW x \in 1..Len(q)
        PROVE  Effect(q[x], dp2[x + 1] - dp2[x]) /\ Over(q[x], dp2[x], dp[k], LevelAt(st2, k - i + Len(q)))
    <3>1. Effect(q[x], dp2[x + 1] - dp2[x]) /\ Deep(q[x], dp2[x], dp[k])
      BY <1>9
    <3> QED
      BY <3>1 DEF Deep, Over
  <2> QED
    BY <1>9, <2>1, <2>2
<1>10. i + 1 \in 1..Len(st) => st[i + 1].symbol # "binary"
  <2> SUFFICES ASSUME i + 1 \in 1..Len(st), st[i + 1].symbol = "binary"
               PROVE  FALSE
    OBVIOUS
  <2>1. i + 1 \in (i + 1)..Len(st) /\ i + 1 > 1 /\ (i + 1) - 1 = i
    BY <1>1, <1>2
  <2>2. BinaryAt(st, ns, p, i + 1)
    BY <1>7, <2>1 DEF ItemAt
  <2>3. st[i].symbol \in Leveled
    BY <2>1, <2>2 DEF BinaryAt
  <2> QED
    BY <2>3
<1>13. \A k \in (i + 1)..Len(st), x \in 1..Len(q) :
         q[x].symbol \in Loops \cup Rewinders => Before(st[k], q[x].from)
  BY <1>1
<1>14. \A k \in (i + 1)..Len(st) : ItemAt(st2, dp2, ns2, p2, k - i + Len(q))
  <2>1. LoopsBear(st, dp, q, st2, dp2, i)
    BY <1>9 DEF LoopsBear
  <2>2. Awaited(st, q, i)
    BY <1>10 DEF Awaited
  <2>3. Apart(st, q, i)
    BY <1>13 DEF Apart
  <2> QED
    BY <2>1, <2>2, <2>3, RestKeeps
<1>11. \A x \in 1..Len(st2) : ItemAt(st2, dp2, ns2, p2, x)
  <2> SUFFICES ASSUME NEW x \in 1..Len(st2) PROVE ItemAt(st2, dp2, ns2, p2, x)
    OBVIOUS
  <2>1. CASE x \in 1..Len(q)
    <3>1. st2[x] = q[x] /\ q[x].symbol \notin Loops /\ q[x].from = p2
      BY <1>1, <2>1
    <3>2. q[x].symbol # "binary" /\ q[x].symbol # "operators"
      BY <3>1 DEF Loops
    <3>3. RewinderAt(st2, ns2, p2, x)
      BY <3>1 DEF RewinderAt
    <3>4. \A j \in 1..(x - 1) : Before(st2[x], st2[j].from)
      <4> SUFFICES ASSUME NEW j \in 1..(x - 1) PROVE Before(st2[x], st2[j].from)
        OBVIOUS
      <4>1. j \in 1..Len(q)
        BY <1>1, <2>1
      <4>2. st2[j].from = p2 /\ p2 <= p2
        <5>1. st2[j] = q[j] /\ q[j].from = p2
          BY <1>1, <4>1
        <5> QED
          BY <5>1
      <4>3. st2[x].symbol # "binary" /\ st2[x].from <= st2[j].from
        BY <3>1, <3>2, <4>2
      <4> QED
        BY <4>3 DEF Before
    <3> QED
      BY <3>1, <3>2, <3>3, <3>4 DEF ItemAt
  <2>2. CASE x \notin 1..Len(q)
    <3>1. PICK k \in (i + 1)..Len(st) : x = At(k)
      BY <1>3, <2>2
    <3> QED
      BY <1>14, <3>1
  <2> QED
    BY <2>1, <2>2
<1>12. st2 # <<>> => TopAt(st2, dp2, ns2, p2)
  <2> SUFFICES ASSUME st2 # <<>> PROVE TopAt(st2, dp2, ns2, p2)
    OBVIOUS
  <2>1. 1 \in 1..Len(st2)
    BY <1>1
  <2>2. CASE 1 \in 1..Len(q)
    <3>1. st2[1].symbol \notin Loops
      BY <1>1, <2>2
    <3> QED
      BY <3>1 DEF TopAt, Loops
  <2>3. CASE 1 \notin 1..Len(q)
    <3>1. i + 1 \in (i + 1)..Len(st) /\ At(i + 1) = 1
      <4>1. PICK k \in (i + 1)..Len(st) : 1 = At(k)
        BY <1>3, <2>1, <2>3
      <4>2. Len(q) = 0
        BY <1>1, <2>3
      <4> QED
        BY <1>1, <1>2, <4>1, <4>2
    <3>2. st2[1] = st[i + 1] /\ ItemAt(st, dp, ns, p, i + 1) /\ i + 1 > 1 /\ (i + 1) - 1 = i
      BY <1>1, <1>7, <3>1
    <3>3. st[i + 1].symbol # "binary"
      BY <3>2 DEF ItemAt, BinaryAt
    <3>4. ASSUME st[i + 1].symbol = "operators", NEW m \in ns2, m.op >= st[i + 1].from, Nesting(m.op) <= dp2[1]
          PROVE  FALSE
      <4>0. "binary" \in Loops /\ "operators" \in Loops
        BY DEF Loops
      <4>1. st[i + 1].symbol \in Loops /\ st[i].symbol # "binary"
        BY <3>4, <4>0
      <4>2. dp2[1] = dp[i + 1]
        <5>1. i + 1 \in (i + 1)..(i + 1)
          BY <1>2
        <5>2. dp2[At(i + 1)] = dp[i + 1]
          BY <3>1, <4>1, <5>1
        <5> HIDE DEF At
        <5> QED
          BY <3>1, <5>2
      <4>3. LevelAt(st, i + 1) = 11 /\ Base(st[i + 1]) = st[i + 1].from
        <5>1. st[i + 1].symbol # "binary" /\ st[(i + 1) - 1].symbol # "binary"
          BY <3>2, <3>4, <4>1
        <5>2. Base(st[i + 1]) = st[i + 1].from
          BY <5>1 DEF Base
        <5>3. LevelAt(st, i + 1) = 11
          BY <5>1, <3>2 DEF LevelAt
        <5> QED
          BY <5>2, <5>3
      <4>4. Precedence(tokens[m.op]) >= 11
        BY <3>2, <3>4, <4>1, <4>2, <4>3 DEF ItemAt, LoopAt
      <4>5. Precedence(tokens[m.op]) \in 0..10
        BY PrecedenceRange
      <4> QED
        BY <4>4, <4>5
    <3> QED
      BY <3>2, <3>3, <3>4 DEF TopAt
  <2> QED
    BY <2>2, <2>3
<1> QED
  BY <1>6, <1>11, <1>12 DEF Grouping

\* The depths e at which the items q start, from d on, are as deep as what they stand for.
Placed(e, q, d, last, s) ==
  /\ e \in Seq(Int) /\ Len(e) = Len(q) + 1 /\ e[1] = d /\ e[Len(q) + 1] = last
  /\ \A x \in 1..Len(q) :
       /\ Effect(q[x], e[x + 1] - e[x])
       /\ \A f \in Int : d >= f /\ (d > f \/ s \in OperandSymbols) => Deep(q[x], e[x], f)

InPlace(item, d) == item.symbol = "external target" => d = Nesting(item.from - 1)

\* Which symbols stand for parts of operands, and which for loops.
LEMMA SymbolFacts ==
  /\ "want" \in OperandSymbols /\ "array suffix" \in InnerSymbols
  /\ OperandSymbols \subseteq InnerSymbols /\ "array suffix" \notin OperandSymbols
  /\ "external target" \in OperandSymbols
  /\ InnerSymbols \cap Loops = {}
  /\ "assignment" \notin InnerSymbols \cup Loops
  /\ "expression" \in InnerSymbols /\ "expression" \notin OperandSymbols
  /\ "want" \notin Plain /\ "want" \notin Leveled /\ "gives" \in OperandSymbols
  /\ Plain \cap Loops = {} /\ Plain \cap Leveled = {}
BY ZenonT(60) DEF OperandSymbols, InnerSymbols, Loops, Plain, Leveled

\* Items that do not change the depth.
LEMMA LevelDepths ==
  ASSUME NEW q \in Seq(Pushed), NEW d \in Int, NEW s,
         \A x \in 1..Len(q) :
           /\ \A w : w = 0 => Effect(q[x], w)
           /\ q[x].symbol \in InnerSymbols
           /\ InPlace(q[x], d)
           /\ s \in OperandSymbols => q[x].symbol \in OperandSymbols
  PROVE  \E e : Placed(e, q, d, d, s)
<1> DEFINE e == [x \in 1..(Len(q) + 1) |-> d]
<1>1. Len(q) \in Nat
  OBVIOUS
<1>2. e \in Seq(Int) /\ Len(e) = Len(q) + 1 /\ e[1] = d /\ e[Len(q) + 1] = d
  BY <1>1
<1>3. \A x \in 1..Len(q) : e[x] = d /\ e[x + 1] - e[x] = 0
  BY <1>1
<1> HIDE DEF e
<1>a. \A x \in 1..Len(q) : Effect(q[x], e[x + 1] - e[x])
  BY <1>3
<1>4. ASSUME NEW x \in 1..Len(q), NEW f \in Int, d >= f, d > f \/ s \in OperandSymbols
      PROVE  Deep(q[x], e[x], f)
  BY <1>3, <1>4 DEF Deep, InPlace
<1> QED
  BY <1>2, <1>a, <1>4 DEF Placed

\* Items with brackets.
LEMMA BracketDepths ==
  ASSUME NEW q \in Seq(Pushed), NEW o, NEW c, Bracketed(q, o, c), NEW b \in Int, NEW s,
         o = 0 => s \notin OperandSymbols
  PROVE  \E e : Placed(e, q, IF o = 0 THEN b + 1 ELSE b, b, s)
<1> DEFINE e == [x \in 1..(Len(q) + 1) |-> IF o < x /\ x <= c THEN b + 1 ELSE b]
           d == IF o = 0 THEN b + 1 ELSE b
<1>1. Len(q) \in Nat /\ o \in Nat /\ c \in Nat /\ o < c /\ c <= Len(q) /\ c >= 1
  BY DEF Bracketed
<1>2. e \in Seq(Int) /\ Len(e) = Len(q) + 1
  BY <1>1
<1>3. e[1] = d /\ e[Len(q) + 1] = b /\ d \in Int
  BY <1>1
<1>4. \A x \in 1..Len(q) :
        /\ e[x] = IF o < x /\ x <= c THEN b + 1 ELSE b
        /\ e[x + 1] = IF o < x + 1 /\ x + 1 <= c THEN b + 1 ELSE b
  BY <1>1
<1> HIDE DEF e
<1>5. \A item \in Openers : (\A w : w = 1 => Effect(item, w)) /\ item.symbol \in OperandSymbols \ {"external target"}
  BY SymbolFacts, Zenon DEF Openers
<1>6. \A item \in Closers : (\A w : w = -1 => Effect(item, w)) /\ item.symbol \in InnerSymbols \ {"external target"}
  BY SymbolFacts, Zenon DEF Closers
<1>7. \A item \in Inners : (\A w : w = 0 => Effect(item, w)) /\ item.symbol \in InnerSymbols \ {"external target"}
  BY Zenon DEF Inners
<1>8. \A item \in Operands : (\A w : w = 0 => Effect(item, w)) /\ item.symbol \in OperandSymbols \ {"external target"}
  BY Zenon DEF Operands
<1>b. /\ q[c] \in Closers /\ (o # 0 => q[o] \in Openers)
      /\ \A j \in 1..Len(q) : j # o /\ j # c => q[j] \in IF o < j /\ j < c THEN Inners ELSE Operands
  BY Zenon DEF Bracketed
<1>9. ASSUME NEW x \in 1..Len(q)
      PROVE  /\ Effect(q[x], e[x + 1] - e[x])
             /\ q[x].symbol \in InnerSymbols \ {"external target"}
             /\ e[x] = b + 1 \/ (e[x] = b /\ q[x].symbol \in OperandSymbols)
  <2>1. x \in Int /\ x >= 1 /\ x <= Len(q)
    OBVIOUS
  <2>2. /\ e[x] = IF o < x /\ x <= c THEN b + 1 ELSE b
        /\ e[x + 1] = IF o < x + 1 /\ x + 1 <= c THEN b + 1 ELSE b
    BY <1>4
  <2>3. CASE x = o
    <3>1. e[x] = b /\ e[x + 1] - e[x] = 1
      BY <1>1, <2>1, <2>2, <2>3
    <3>2. q[x] \in Openers
      BY <1>1, <1>b, <2>1, <2>3
    <3> QED
      BY <1>5, <3>1, <3>2, SymbolFacts
  <2>4. CASE x = c
    <3>1. e[x] = b + 1 /\ e[x + 1] - e[x] = -1
      BY <1>1, <2>1, <2>2, <2>4
    <3>2. q[x] \in Closers
      BY <1>b, <2>4
    <3>4. (\A w : w = -1 => Effect(q[x], w)) /\ q[x].symbol \in InnerSymbols \ {"external target"}
      BY <1>6, <3>2
    <3>5. Effect(q[x], e[x + 1] - e[x])
      BY <3>1, <3>4
    <3>6. q[x].symbol \in InnerSymbols \ {"external target"}
      BY <3>4, SymbolFacts
    <3>7. e[x] = b + 1 \/ (e[x] = b /\ q[x].symbol \in OperandSymbols)
      BY <3>1, <3>4, Zenon
    <3> QED
      BY <3>5, <3>6, <3>7
  <2>5. CASE o < x /\ x < c
    <3>1. e[x] = b + 1 /\ e[x + 1] - e[x] = 0
      BY <1>1, <2>1, <2>2, <2>5
    <3>2. x # o /\ x # c
      BY <1>1, <2>1, <2>5
    <3>3. q[x] \in Inners
      BY <1>b, <2>5, <3>2
    <3>4. (\A w : w = 0 => Effect(q[x], w)) /\ q[x].symbol \in InnerSymbols \ {"external target"}
      BY <1>7, <3>3
    <3>5. Effect(q[x], e[x + 1] - e[x])
      BY <3>1, <3>4
    <3>6. q[x].symbol \in InnerSymbols \ {"external target"}
      BY <3>4, SymbolFacts
    <3>7. e[x] = b + 1 \/ (e[x] = b /\ q[x].symbol \in OperandSymbols)
      BY <3>1, <3>4, Zenon
    <3> QED
      BY <3>5, <3>6, <3>7
  <2>6. CASE x < o \/ x > c
    <3>1. e[x] = b /\ e[x + 1] - e[x] = 0
      BY <1>1, <2>1, <2>2, <2>6
    <3>2. x # o /\ x # c /\ ~(o < x /\ x < c)
      BY <1>1, <2>1, <2>6
    <3>3. q[x] \in Operands
      BY <1>b, <3>2
    <3>4. (\A w : w = 0 => Effect(q[x], w)) /\ q[x].symbol \in OperandSymbols \ {"external target"}
      BY <1>8, <3>3
    <3>5. Effect(q[x], e[x + 1] - e[x])
      BY <3>1, <3>4
    <3>6. q[x].symbol \in InnerSymbols \ {"external target"}
      BY <3>4, SymbolFacts
    <3>7. e[x] = b + 1 \/ (e[x] = b /\ q[x].symbol \in OperandSymbols)
      BY <3>1, <3>4, Zenon
    <3> QED
      BY <3>5, <3>6, <3>7
  <2>7. x = o \/ x = c \/ (o < x /\ x < c) \/ (x < o \/ x > c)
    BY <1>1, <2>1
  <2> QED
    BY <2>3, <2>4, <2>5, <2>6, <2>7, Zenon
<1>10. ASSUME NEW x \in 1..Len(q), NEW f \in Int, d >= f, d > f \/ s \in OperandSymbols
       PROVE  Deep(q[x], e[x], f)
  <2>1. b >= f
    <3>1. CASE o = 0
      BY <1>10, <3>1
    <3>2. CASE o # 0
      BY <1>10, <3>2
    <3> QED
      BY <3>1, <3>2
  <2>2. e[x] >= f /\ (e[x] > f \/ q[x].symbol \in OperandSymbols)
    <3>1. e[x] = b + 1 \/ (e[x] = b /\ q[x].symbol \in OperandSymbols)
      BY <1>9
    <3>2. CASE e[x] = b + 1
      BY <2>1, <3>2
    <3>3. CASE e[x] = b /\ q[x].symbol \in OperandSymbols
      BY <2>1, <3>3
    <3> QED
      BY <3>1, <3>2, <3>3
  <2> QED
    BY <1>9, <2>2 DEF Deep
<1> QED
  BY <1>2, <1>3, <1>9, <1>10 DEF Placed

\* The depth at which ends what an item stands for.
Below(symbol, d) == IF symbol = "array suffix" THEN d - 1 ELSE d

\* What an item of an operand comes down to.
LEMMA FittingDepths ==
  ASSUME NEW q \in Seq(Pushed), NEW s \in InnerSymbols, Fitting(q, s), NEW d \in Int, d = Nesting(pos - 1)
  PROVE  \E e : Placed(e, q, d, Below(s, d), s)
<1>0. Below(s, d) = IF s = "array suffix" THEN d - 1 ELSE d
  BY DEF Below
<1>1. CASE s = "array suffix"
  <2>0. Closing(q)
    BY <1>1, SymbolFacts DEF Fitting
  <2>1. PICK c \in 1..Len(q) : Bracketed(q, 0, c)
    BY <2>0, Zenon DEF Closing
  <2>2. s \notin OperandSymbols
    BY <1>1, SymbolFacts
  <2>3. d - 1 \in Int /\ (d - 1) + 1 = d
    OBVIOUS
  <2>4. \E e : Placed(e, q, (d - 1) + 1, d - 1, s)
    BY <2>1, <2>2, <2>3, BracketDepths
  <2> QED
    BY <1>0, <1>1, <2>3, <2>4
<1>2. CASE s # "array suffix" /\ s \in OperandSymbols
  <2>2. CASE Flat(q)
    <3>1. ASSUME NEW x \in 1..Len(q)
          PROVE  /\ \A w : w = 0 => Effect(q[x], w)
                 /\ q[x].symbol \in InnerSymbols /\ q[x].symbol \in OperandSymbols
                 /\ InPlace(q[x], d)
      <4>1. q[x] \in Operands \cup Targets /\ q[x] \in Pushed
        BY <2>2 DEF Flat
      <4>2. (\A w : w = 0 => Effect(q[x], w)) /\ q[x].symbol \in OperandSymbols /\ q[x].from = pos
        BY <4>1, SymbolFacts, Zenon DEF Operands, Targets, Pushed
      <4> QED
        BY <4>2, SymbolFacts DEF InPlace
    <3>2. \E e : Placed(e, q, d, d, s)
      BY <3>1, LevelDepths
    <3> QED
      BY <1>0, <1>2, <3>2
  <2>3. CASE InBrackets(q)
    <3>1. PICK o, c \in 1..Len(q) : Bracketed(q, o, c)
      BY <2>3 DEF InBrackets
    <3>2. o # 0
      BY <3>1
    <3>3. \E e : Placed(e, q, d, d, s)
      BY <3>1, <3>2, BracketDepths
    <3> QED
      BY <1>0, <1>2, <3>3
  <2> QED
    BY <1>2, <2>2, <2>3, SymbolFacts DEF Fitting
<1>3. CASE s # "array suffix" /\ s \notin OperandSymbols
  <2>1. q \in Seq(Inners)
    BY <1>3, Zenon DEF Fitting
  <2>2. \A item \in Inners : (\A w : w = 0 => Effect(item, w)) /\ item.symbol \in InnerSymbols \ {"external target"}
    BY Zenon DEF Inners
  <2>4. \A x \in 1..Len(q) : q[x] \in Inners
    BY <2>1
  <2>5. \A x \in 1..Len(q) : InPlace(q[x], d)
    BY <2>2, <2>4, Zenon DEF InPlace
  <2>3. \E e : Placed(e, q, d, d, s)
    BY <1>3, <2>2, <2>4, <2>5, LevelDepths
  <2> QED
    BY <1>0, <1>3, <2>3
<1> QED
  BY <1>1, <1>2, <1>3

\* What is left to parse does not lie ahead.
LEMMA StillBefore ==
  ASSUME NEW st \in Seq(Items), NEW dp, NEW ns, NEW p \in Nat, Grouping(st, dp, ns, p), NEW k \in 1..Len(st)
  PROVE  Before(st[k], p + 1) /\ (st[1].symbol # "want" => Before(st[k], p))
<1>1. st[k] \in Items /\ ItemAt(st, dp, ns, p, k)
  BY DEF Grouping
<1>2. st[k].from \in Nat /\ st[k].arg \in Nat
  BY <1>1, ItemTypes
<1>3. st[k].symbol \in Rewinders => st[k].from <= p
  BY <1>1 DEF ItemAt, RewinderAt
<1>4. st[k].symbol = "operators" => st[k].from <= p
  BY <1>1 DEF ItemAt, LoopAt, Loops
<1>5. st[k].symbol = "binary" => st[k].arg <= p /\ (st[k].arg = p => st[1].symbol = "want")
  <2> SUFFICES ASSUME st[k].symbol = "binary"
               PROVE  st[k].arg <= p /\ (st[k].arg = p => st[1].symbol = "want")
    OBVIOUS
  <2>1. st[k].arg \in st[k].from..p /\ (st[k].arg = p => st[1].symbol = "want")
    BY <1>1 DEF ItemAt, BinaryAt
  <2> QED
    BY <1>2, <2>1
<1>6. st[k].symbol \in Rewinders \cup {"operators"} => st[k].from <= p
  BY <1>3, <1>4
<1>7. Before(st[k], p + 1)
  <2>1. st[k].symbol \in Rewinders \cup {"operators"} => st[k].from <= p + 1
    BY <1>2, <1>6
  <2>2. st[k].symbol = "binary" => st[k].arg < p + 1
    BY <1>2, <1>5
  <2> QED
    BY <2>1, <2>2 DEF Before
<1>8. st[1].symbol # "want" => Before(st[k], p)
  <2>1. st[1].symbol # "want" => (st[k].symbol = "binary" => st[k].arg < p)
    BY <1>2, <1>5
  <2> QED
    BY <1>6, <2>1 DEF Before
<1> QED
  BY <1>7, <1>8

\* A loop bears what is above it.
LEMMA TopBorne ==
  ASSUME NEW st \in Seq(Items), NEW dp, NEW ns, NEW p \in Nat, Grouping(st, dp, ns, p),
         NEW i \in 1..Len(st), NEW k \in (i + 1)..Len(st), st[k].symbol \in Loops
  PROVE  /\ Effect(st[i], dp[i + 1] - dp[i]) /\ Over(st[i], dp[i], dp[k], LevelAt(st, k))
         /\ dp[1] = Nesting(p - 1) /\ dp[i] \in Int /\ dp[i + 1] \in Int /\ dp[k] \in Int
<1>1. Len(st) \in Nat /\ k \in 1..Len(st) /\ i \in 1..(k - 1) /\ i + 1 \in 1..Len(st)
  OBVIOUS
<1>2. LoopAt(st, dp, ns, p, k)
  BY <1>1 DEF Grouping, ItemAt
<1>3. dp \in Seq(Int) /\ Len(dp) = Len(st) /\ dp[1] = Nesting(p - 1)
  BY <1>1 DEF Grouping, DepthsOf
<1>4. Effect(st[i], dp[i + 1] - dp[i]) /\ Over(st[i], dp[i], dp[k], LevelAt(st, k))
  BY <1>1, <1>2 DEF LoopAt
<1> QED
  BY <1>1, <1>3, <1>4

\* A step above which, and below which, no loop is.
LEMMA LoopFree ==
  ASSUME tokens \in Seq(Kinds),
         NEW st \in Seq(Items), NEW dp, NEW ns, NEW p \in Nat, Grouping(st, dp, ns, p),
         NEW i \in 1..Len(st), st[i].symbol \notin Loops \cup Leveled,
         NEW q \in Seq(Items), NEW st2, Puts(st2, q, st, i),
         NEW p2 \in Nat \ {0}, NEW ns2 \in SUBSET ns,
         \A m \in ns2 : m.to < p2,
         Laid(q, p2), Behind(st, i, p2), \A k \in (i + 1)..Len(st) : st[k].symbol \notin Loops
  PROVE  \E dp2 : Grouping(st2, dp2, ns2, p2)
<1> DEFINE dp2 == [j \in 1..Len(st2) |-> Nesting(p2 - 1)]
<1>1. st2 \in Seq(Items) /\ Len(st2) \in Nat
  BY DEF Puts
<1>2. p2 \in Nat /\ Nesting(p2 - 1) \in Int
  <2>1. p2 - 1 \in Nat
    OBVIOUS
  <2> QED
    BY <2>1, NestingNext
<1>3. DepthsOf(st2, dp2, p2)
  <2>1. dp2 \in Seq(Int) /\ Len(dp2) = Len(st2)
    BY <1>1, <1>2
  <2>2. st2 # <<>> => dp2[1] = Nesting(p2 - 1)
    BY <1>1
  <2> QED
    BY <2>1, <2>2 DEF DepthsOf
<1> HIDE DEF dp2
<1>5. Borne(st, dp, q, dp2, i)
  BY DEF Borne
<1>6. Grouping(st2, dp2, ns2, p2)
  BY <1>2, <1>3, <1>5, QuietKeeps
<1> QED
  BY <1>6

\* The depths e at which the items q start, in the place of the first one.
Fills(e, q, st, dp, d) ==
  /\ e \in Seq(Int) /\ Len(e) = Len(q) + 1 /\ e[1] = d /\ e[Len(q) + 1] = dp[2]
  /\ \A x \in 1..Len(q) :
       /\ Effect(q[x], e[x + 1] - e[x])
       /\ \A k \in 2..Len(st) : st[k].symbol \in Loops => Deep(q[x], e[x], dp[k])

\* A step above a loop.
LEMMA LoopBelow ==
  ASSUME tokens \in Seq(Kinds),
         NEW st \in Seq(Items), NEW dp, NEW ns, NEW p \in Nat, Grouping(st, dp, ns, p),
         Len(st) > 1, st[1].symbol \notin Loops \cup Leveled,
         NEW q \in Seq(Items), NEW st2, Puts(st2, q, st, 1),
         NEW p2 \in Nat \ {0}, NEW ns2 \in SUBSET ns,
         \A m \in ns2 : m.to < p2,
         Laid(q, p2), Behind(st, 1, p2),
         NEW e, Fills(e, q, st, dp, Nesting(p2 - 1))
  PROVE  \E dp2 : Grouping(st2, dp2, ns2, p2)
<1> DEFINE dp2 == [j \in 1..Len(st2) |-> IF j <= Len(q) THEN e[j] ELSE dp[j - Len(q) + 1]]
<1>1. /\ st2 \in Seq(Items) /\ Len(st2) = Len(q) + Len(st) - 1 /\ Len(st) \in Nat /\ Len(q) \in Nat
      /\ p2 \in Nat /\ 1 \in 1..Len(st)
  BY DEF Puts
<1>2. e \in Seq(Int) /\ Len(e) = Len(q) + 1 /\ e[1] = Nesting(p2 - 1) /\ e[Len(q) + 1] = dp[2]
  BY DEF Fills
<1>3. dp \in Seq(Int) /\ Len(dp) = Len(st)
  BY DEF Grouping, DepthsOf
<1>4. dp2 \in Seq(Int) /\ Len(dp2) = Len(st2)
  <2>1. \A j \in 1..Len(st2) : (IF j <= Len(q) THEN e[j] ELSE dp[j - Len(q) + 1]) \in Int
    <3> SUFFICES ASSUME NEW j \in 1..Len(st2)
                 PROVE  (IF j <= Len(q) THEN e[j] ELSE dp[j - Len(q) + 1]) \in Int
      OBVIOUS
    <3>1. CASE j <= Len(q)
      BY <1>1, <1>2, <3>1
    <3>2. CASE ~(j <= Len(q))
      <4>1. j - Len(q) + 1 \in 1..Len(dp)
        BY <1>1, <1>3, <3>2
      <4> QED
        BY <1>3, <3>2, <4>1
    <3> QED
      BY <3>1, <3>2
  <2> QED
    BY <1>1, <2>1
<1>5. \A h \in 2..Len(st) : dp2[h - 1 + Len(q)] = dp[h]
  <2> SUFFICES ASSUME NEW h \in 2..Len(st) PROVE dp2[h - 1 + Len(q)] = dp[h]
    OBVIOUS
  <2>1. /\ h - 1 + Len(q) \in 1..Len(st2) /\ ~(h - 1 + Len(q) <= Len(q))
        /\ (h - 1 + Len(q)) - Len(q) + 1 = h
    BY <1>1
  <2> QED
    BY <2>1
<1>6. \A x \in 1..(Len(q) + 1) : dp2[x] = e[x]
  <2> SUFFICES ASSUME NEW x \in 1..(Len(q) + 1) PROVE dp2[x] = e[x]
    OBVIOUS
  <2>1. x \in 1..Len(st2)
    BY <1>1
  <2>2. CASE x <= Len(q)
    BY <2>1, <2>2
  <2>3. CASE ~(x <= Len(q))
    <3>1. x = Len(q) + 1 /\ x - Len(q) + 1 = 2
      BY <1>1, <2>3
    <3> QED
      BY <1>2, <2>1, <2>3, <3>1
  <2> QED
    BY <2>2, <2>3
<1> HIDE DEF dp2
<1>7. DepthsOf(st2, dp2, p2)
  <2>1. dp2[1] = Nesting(p2 - 1)
    BY <1>1, <1>2, <1>6
  <2> QED
    BY <1>4, <2>1 DEF DepthsOf
<1>8. 1 + 1 = 2
  OBVIOUS
<1>9. ASSUME NEW k \in (1 + 1)..Len(st), st[k].symbol \in Loops
      PROVE  /\ \A h \in (1 + 1)..k : dp2[h - 1 + Len(q)] = dp[h]
             /\ \A x \in 1..Len(q) : Effect(q[x], dp2[x + 1] - dp2[x]) /\ Deep(q[x], dp2[x], dp[k])
  <2>1. \A h \in (1 + 1)..k : dp2[h - 1 + Len(q)] = dp[h]
    <3> SUFFICES ASSUME NEW h \in (1 + 1)..k PROVE dp2[h - 1 + Len(q)] = dp[h]
      OBVIOUS
    <3>1. h \in 2..Len(st)
      BY <1>1
    <3> QED
      BY <1>5, <3>1
  <2>2. ASSUME NEW x \in 1..Len(q)
        PROVE  Effect(q[x], dp2[x + 1] - dp2[x]) /\ Deep(q[x], dp2[x], dp[k])
    <3>1. dp2[x] = e[x] /\ dp2[x + 1] = e[x + 1]
      BY <1>1, <1>6
    <3>2. k \in 2..Len(st)
      BY <1>8
    <3>3. Effect(q[x], e[x + 1] - e[x]) /\ Deep(q[x], e[x], dp[k])
      BY <1>9, <3>2 DEF Fills
    <3> QED
      BY <3>1, <3>3
  <2> QED
    BY <2>1, <2>2
<1>10. Borne(st, dp, q, dp2, 1)
  BY <1>9 DEF Borne
<1>11. Grouping(st2, dp2, ns2, p2)
  BY <1>1, <1>7, <1>9, <1>10, QuietKeeps
<1> QED
  BY <1>11

\* A step puts items in place of the first one, or takes it away.
LEMMA PutsOnTail ==
  ASSUME NEW st \in Seq(Items), st # <<>>, NEW q \in Seq(Items)
  PROVE  Puts(q \o Tail(st), q, st, 1) /\ Puts(Tail(st), <<>>, st, 1) /\ 1 \in 1..Len(st)
<1>1. 1 \in 1..Len(st) /\ Len(st) \in Nat
  OBVIOUS
<1>2. Tail(st) = SubSeq(st, 1 + 1, Len(st)) /\ Tail(st) \in Seq(Items)
  BY <1>1
<1>3. Puts(q \o Tail(st), q, st, 1)
  <2>1. q \o Tail(st) = q \o SubSeq(st, 1 + 1, Len(st))
    BY <1>2
  <2> QED
    BY <1>1, <2>1, ItemsRemainder
<1>4. Puts(Tail(st), <<>>, st, 1)
  <2>1. <<>> \in Seq(Items) /\ Tail(st) = <<>> \o SubSeq(st, 1 + 1, Len(st))
    BY <1>2
  <2> QED
    BY <1>1, <2>1, ItemsRemainder
<1> QED
  BY <1>1, <1>3, <1>4

\* A step of the first item, that is no loop.
LEMMA QuietTop ==
  ASSUME tokens \in Seq(Kinds),
         NEW st \in Seq(Items), NEW dp, NEW ns, NEW p \in Nat, Grouping(st, dp, ns, p),
         st # <<>>, st[1].symbol \notin Loops \cup Leveled,
         NEW q \in Seq(Items), NEW st2, Puts(st2, q, st, 1),
         NEW p2 \in Nat \ {0}, NEW ns2 \in SUBSET ns,
         \A m \in ns2 : m.to < p2, Laid(q, p2), Behind(st, 1, p2),
         \A k \in 2..Len(st) : st[k].symbol \in Loops => \E e : Fills(e, q, st, dp, Nesting(p2 - 1))
  PROVE  \E dp2 : Grouping(st2, dp2, ns2, p2)
<1>1. Len(st) \in Nat /\ 1 \in 1..Len(st) /\ 1 + 1 = 2
  OBVIOUS
<1>2. CASE \A k \in (1 + 1)..Len(st) : st[k].symbol \notin Loops
  BY <1>1, <1>2, LoopFree
<1>3. CASE \E k \in (1 + 1)..Len(st) : st[k].symbol \in Loops
  <2>1. PICK k \in 2..Len(st) : st[k].symbol \in Loops
    BY <1>1, <1>3
  <2>2. PICK e : Fills(e, q, st, dp, Nesting(p2 - 1))
    BY <2>1
  <2>3. Len(st) > 1
    BY <1>1, <2>1
  <2> QED
    BY <2>2, <2>3, LoopBelow
<1> QED
  BY <1>2, <1>3

\* What every step has at hand.
LEMMA GroupingFacts ==
  ASSUME NEW st \in Seq(Items), NEW dp, NEW ns, NEW p \in Nat, Grouping(st, dp, ns, p)
  PROVE  /\ \A m \in ns : m \in Nodes /\ m.from \in Nat /\ m.op \in Nat /\ m.to \in Nat
                          /\ m.from <= m.op /\ m.op <= m.to /\ m.to < p
         /\ Behind(st, 1, p + 1) /\ (st # <<>> /\ st[1].symbol # "want" => Behind(st, 1, p))
<1>1. \A m \in ns : m \in Nodes /\ m.from \in Nat /\ m.op \in Nat /\ m.to \in Nat
                    /\ m.from <= m.op /\ m.op <= m.to /\ m.to < p
  BY DEF Grouping, NodeAt, Nodes
<1>2. \A k \in (1 + 1)..Len(st) : k \in 1..Len(st)
  OBVIOUS
<1>3. Behind(st, 1, p + 1)
  BY <1>2, StillBefore DEF Behind
<1>4. ASSUME st # <<>>, st[1].symbol # "want"
      PROVE  Behind(st, 1, p)
  BY <1>2, <1>4, StillBefore DEF Behind
<1> QED
  BY <1>1, <1>3, <1>4

\* An item that nothing takes the place of.
LEMMA NothingFills ==
  ASSUME NEW st, NEW dp, NEW d \in Int, dp[2] = d
  PROVE  \E e : Fills(e, <<>>, st, dp, d)
<1> DEFINE e == <<d>>
<1>1. e \in Seq(Int) /\ Len(e) = Len(<<>>) + 1 /\ e[1] = d /\ e[Len(<<>>) + 1] = d
  OBVIOUS
<1> HIDE DEF e
<1>2. Fills(e, <<>>, st, dp, d)
  BY <1>1 DEF Fills
<1> QED
  BY <1>2

\* The depth in brackets ahead of the parser, and behind the token there.
LEMMA DepthAhead ==
  AtToken => /\ Nesting(pos - 1) \in Int /\ Nesting(pos) = Nesting(pos - 1) + Weight(tokens[pos])
             /\ pos \in Nat /\ pos - 1 \in Nat /\ pos >= 1
<1> SUFFICES ASSUME AtToken
             PROVE  /\ Nesting(pos - 1) \in Int /\ Nesting(pos) = Nesting(pos - 1) + Weight(tokens[pos])
                    /\ pos \in Nat /\ pos - 1 \in Nat /\ pos >= 1
  OBVIOUS
<1>1. pos \in Nat /\ pos - 1 \in Nat /\ pos >= 1 /\ (pos - 1) + 1 = pos
  BY DEF AtToken
<1> DEFINE i == pos - 1
<1>2. i \in Nat /\ i + 1 = pos
  BY <1>1
<1> HIDE DEF i
<1>3. Nesting(i) \in Int /\ Nesting(i + 1) = Nesting(i) + Weight(tokens[i + 1])
  BY <1>2, NestingNext
<1>4. Nesting(i) \in Int /\ Nesting(pos) = Nesting(i) + Weight(tokens[pos])
  BY <1>2, <1>3
<1> QED
  BY <1>1, <1>4 DEF i

\* A token is consumed.
LEMMA MatchGroups ==
  ASSUME ParserInv, outcome = "parsing", NEW dp, Grouping(stack, dp, nodes, pos), Match
  PROVE  \E dp2 : Grouping(stack', dp2, nodes', pos')
<1>1. /\ stack # <<>> /\ Top.symbol = "want" /\ ~Fails
      /\ pos' = pos + 1 /\ stack' = Tail(stack) /\ nodes' = nodes
  BY DEF Match, Parsing, lexerVars
<1>2. AtToken /\ stack \in Seq(Items) /\ tokens \in Seq(Kinds)
  BY ParserFacts DEF AtToken
<1>3. Peek(0) \in Top.set /\ Peek(0) = tokens[pos]
  <2>1. Peek(0) \in Top.set
    BY <1>1, WantedIsThere
  <2>2. Peek(0) = tokens[pos]
    BY <1>2 DEF Peek, AtToken
  <2> QED
    BY <2>1, <2>2
<1>4. /\ Nesting(pos - 1) \in Int /\ Nesting(pos) = Nesting(pos - 1) + Weight(tokens[pos])
      /\ pos \in Nat /\ pos + 1 \in Nat \ {0} /\ (pos + 1) - 1 = pos
  BY <1>2, DepthAhead
<1>5. stack[1].symbol \notin Loops \cup Leveled
  BY <1>1 DEF Top, Loops, Leveled
<1>6. \A m \in nodes : m.to < pos + 1
  <2>1. \A m \in nodes : m.to \in Nat /\ m.to < pos
    BY <1>2, <1>4, GroupingFacts
  <2> QED
    BY <1>4, <2>1
<1>7. Behind(stack, 1, pos + 1)
  BY <1>2, <1>4, GroupingFacts
<1>8. Puts(Tail(stack), <<>>, stack, 1) /\ Laid(<<>>, pos + 1) /\ <<>> \in Seq(Items) /\ 1 \in 1..Len(stack)
  BY <1>1, <1>2, PutsOnTail DEF Laid
<1>9. ASSUME NEW k \in 2..Len(stack), stack[k].symbol \in Loops
      PROVE  \E e : Fills(e, <<>>, stack, dp, Nesting(pos))
  <2>1. k \in (1 + 1)..Len(stack) /\ 1 + 1 = 2
    OBVIOUS
  <2>2. Effect(stack[1], dp[2] - dp[1]) /\ dp[1] = Nesting(pos - 1) /\ dp[2] \in Int /\ dp[1] \in Int
    BY <1>2, <1>4, <1>8, <1>9, <2>1, TopBorne
  <2>3. Weight(tokens[pos]) = dp[2] - dp[1]
    <3> DEFINE w == dp[2] - dp[1]
    <3>1. Effect(Top, w)
      BY <2>2 DEF Top
    <3> HIDE DEF w
    <3>2. \A t \in Top.set : Weight(t) = w
      BY <1>1, <3>1, Zenon DEF Effect
    <3>3. Weight(tokens[pos]) = w
      BY <1>3, <3>2
    <3> QED
      BY <3>3 DEF w
  <2>4. dp[2] = Nesting(pos) /\ Nesting(pos) \in Int
    BY <1>4, <2>2, <2>3
  <2> QED
    BY <2>4, NothingFills
<1>10. \E dp2 : Grouping(Tail(stack), dp2, nodes, pos + 1)
  <2>1. \A k \in 2..Len(stack) : stack[k].symbol \in Loops =>
          \E e : Fills(e, <<>>, stack, dp, Nesting((pos + 1) - 1))
    BY <1>4, <1>9
  <2>2. nodes \in SUBSET nodes
    OBVIOUS
  <2> QED
    BY <1>1, <1>2, <1>4, <1>5, <1>6, <1>7, <1>8, <2>1, <2>2, QuietTop
<1> QED
  BY <1>1, <1>10

\* A result is given back.
LEMMA ReturnGroups ==
  ASSUME ParserInv, outcome = "parsing", NEW dp, Grouping(stack, dp, nodes, pos), Return
  PROVE  \E dp2 : Grouping(stack', dp2, nodes', pos')
<1>1. /\ stack # <<>> /\ Top.symbol = "gives"
      /\ pos' = pos /\ stack' = Tail(stack) /\ nodes' = nodes
  BY DEF Return, Parsing, lexerVars
<1>2. AtToken /\ stack \in Seq(Items) /\ tokens \in Seq(Kinds)
  BY ParserFacts DEF AtToken
<1>4. Nesting(pos - 1) \in Int /\ pos \in Nat \ {0}
  BY <1>2, DepthAhead
<1>5. stack[1].symbol \notin Loops \cup Leveled /\ stack[1].symbol \notin {"want", "array suffix"}
  BY <1>1 DEF Top, Loops, Leveled
<1>6. \A m \in nodes : m.to < pos
  BY <1>2, <1>4, GroupingFacts
<1>7. Behind(stack, 1, pos)
  BY <1>1, <1>2, <1>4, <1>5, GroupingFacts
<1>8. Puts(Tail(stack), <<>>, stack, 1) /\ Laid(<<>>, pos) /\ <<>> \in Seq(Items) /\ 1 \in 1..Len(stack)
  BY <1>1, <1>2, PutsOnTail DEF Laid
<1>9. ASSUME NEW k \in 2..Len(stack), stack[k].symbol \in Loops
      PROVE  \E e : Fills(e, <<>>, stack, dp, Nesting(pos - 1))
  <2>1. k \in (1 + 1)..Len(stack) /\ 1 + 1 = 2
    OBVIOUS
  <2>2. Effect(stack[1], dp[2] - dp[1]) /\ dp[1] = Nesting(pos - 1) /\ dp[2] \in Int /\ dp[1] \in Int
    BY <1>2, <1>4, <1>8, <1>9, <2>1, TopBorne
  <2>3. dp[2] - dp[1] = 0
    BY <1>5, <2>2, Zenon DEF Effect
  <2>4. dp[2] = Nesting(pos - 1)
    BY <2>2, <2>3
  <2> QED
    BY <1>4, <2>4, NothingFills
<1>10. \E dp2 : Grouping(Tail(stack), dp2, nodes, pos)
  <2>2. nodes \in SUBSET nodes
    OBVIOUS
  <2> QED
    BY <1>1, <1>2, <1>4, <1>5, <1>6, <1>7, <1>8, <1>9, <2>2, QuietTop
<1> QED
  BY <1>1, <1>10

\* What an item comes down to takes its place above a loop.
LEMMA PlacedFills ==
  ASSUME NEW st \in Seq(Items), NEW dp, NEW ns, NEW p \in Nat, Grouping(st, dp, ns, p), st # <<>>,
         st[1].symbol \notin {"want"} \cup Loops \cup Leveled, NEW d \in Int, d = Nesting(p - 1),
         NEW q, NEW e, Placed(e, q, d, Below(st[1].symbol, d), st[1].symbol),
         NEW k \in 2..Len(st), st[k].symbol \in Loops
  PROVE  Fills(e, q, st, dp, d)
<1>1. 1 + 1 = 2 /\ 1 \in 1..Len(st)
  OBVIOUS
<1>2. \A h \in 2..Len(st) : st[h].symbol \in Loops =>
        /\ Effect(st[1], dp[2] - dp[1]) /\ Over(st[1], dp[1], dp[h], LevelAt(st, h))
        /\ dp[1] = d /\ dp[1] \in Int /\ dp[2] \in Int /\ dp[h] \in Int
  BY <1>1, TopBorne
<1>a. st[1].symbol # "want"
  OBVIOUS
<1>3. dp[2] = Below(st[1].symbol, d)
  <2>1. Effect(st[1], dp[2] - dp[1]) /\ dp[1] = d /\ dp[2] \in Int
    BY <1>2
  <2>2. CASE st[1].symbol = "array suffix"
    <3>1. dp[2] - dp[1] = -1
      BY <1>a, <2>1, <2>2, Zenon DEF Effect
    <3>2. dp[2] = d - 1
      BY <2>1, <3>1
    <3> QED
      BY <2>2, <3>2 DEF Below
  <2>3. CASE st[1].symbol # "array suffix"
    <3>1. dp[2] - dp[1] = 0
      BY <1>a, <2>1, <2>3, Zenon DEF Effect
    <3>2. dp[2] = d
      BY <2>1, <3>1
    <3> QED
      BY <2>3, <3>2 DEF Below
  <2> QED
    BY <2>2, <2>3
<1>4. ASSUME NEW h \in 2..Len(st), st[h].symbol \in Loops
      PROVE  dp[h] \in Int /\ d >= dp[h] /\ (d > dp[h] \/ st[1].symbol \in OperandSymbols)
  <2>1. Over(st[1], d, dp[h], LevelAt(st, h)) /\ dp[h] \in Int
    BY <1>2, <1>4
  <2>2. st[1].symbol # "binary" /\ st[1].symbol \notin Leveled
    BY DEF Loops
  <2> QED
    BY <2>1, <2>2 DEF Over
<1>5. /\ e \in Seq(Int) /\ Len(e) = Len(q) + 1 /\ e[1] = d /\ e[Len(q) + 1] = dp[2]
  BY <1>3, Zenon DEF Placed
<1>6. ASSUME NEW x \in 1..Len(q)
      PROVE  /\ Effect(q[x], e[x + 1] - e[x])
             /\ \A h \in 2..Len(st) : st[h].symbol \in Loops => Deep(q[x], e[x], dp[h])
  <2>1. /\ Effect(q[x], e[x + 1] - e[x])
        /\ \A f \in Int : d >= f /\ (d > f \/ st[1].symbol \in OperandSymbols) => Deep(q[x], e[x], f)
    BY Zenon DEF Placed
  <2> QED
    BY <1>4, <2>1
<1> QED
  BY <1>5, <1>6 DEF Fills

\* What an item comes down to fits where a loop bears the item.
Fits(q, symbol) == symbol \in InnerSymbols => Fitting(q, symbol)

Expanded == Plain \cup {"external target"}

\* A parse function pushes what it is made of.
LEMMA ExpandGroups ==
  ASSUME ParserInv, outcome = "parsing", NEW dp, Grouping(stack, dp, nodes, pos),
         stack # <<>>, Top.symbol \in Expanded, NEW q \in Seq(Pushed),
         Fits(q, Top.symbol)
  PROVE  \E dp2 : Grouping(q \o Tail(stack), dp2, nodes, pos)
<1>1. AtToken /\ stack \in Seq(Items) /\ tokens \in Seq(Kinds)
  BY ParserFacts, Zenon DEF AtToken
<1>2. Nesting(pos - 1) \in Int /\ pos \in Nat \ {0}
  BY <1>1, DepthAhead
<1>3. stack[1].symbol \notin {"want"} \cup Loops \cup Leveled
  <2>1. "external target" \notin {"want"} \cup Loops \cup Leveled
    BY DEF Loops, Leveled
  <2> QED
    BY <2>1, SymbolFacts DEF Top, Expanded
<1>4. \A m \in nodes : m.to < pos
  BY <1>1, <1>2, GroupingFacts
<1>5. Behind(stack, 1, pos)
  BY <1>1, <1>2, <1>3, GroupingFacts
<1>6. Laid(q, pos) /\ q \in Seq(Items)
  <2>1. q \in Seq(Items)
    BY PushedAreItems
  <2>2. \A x \in 1..Len(q) : q[x] \in Pushed
    OBVIOUS
  <2>3. Laid(q, pos)
    BY <2>2 DEF Laid, Pushed
  <2> QED
    BY <2>1, <2>3
<1>7. Puts(q \o Tail(stack), q, stack, 1)
  BY <1>1, <1>6, PutsOnTail
<1>8. ASSUME NEW k \in 2..Len(stack), stack[k].symbol \in Loops
      PROVE  \E e : Fills(e, q, stack, dp, Nesting(pos - 1))
  <2>1. k \in (1 + 1)..Len(stack) /\ 1 \in 1..Len(stack)
    <3>1. 1 + 1 = 2 /\ Len(stack) \in Nat
      BY <1>1
    <3> QED
      BY <3>1
  <2>2. Over(stack[1], dp[1], dp[k], LevelAt(stack, k))
    BY <1>1, <1>2, <1>8, <2>1, TopBorne
  <2>3. stack[1].symbol \in InnerSymbols
    BY <1>3, <2>2 DEF Over
  <2> DEFINE d == Nesting(pos - 1)
             s == stack[1].symbol
  <2>4. Fitting(q, s) /\ s \in InnerSymbols /\ d \in Int /\ d = Nesting(pos - 1)
    BY <1>2, <2>3 DEF Top, Fits
  <2> HIDE DEF d, s
  <2>5. PICK e : Placed(e, q, d, Below(s, d), s)
    BY <2>4, FittingDepths
  <2>6. Placed(e, q, d, Below(stack[1].symbol, d), stack[1].symbol)
    BY <2>5 DEF s
  <2>7. Fills(e, q, stack, dp, d)
    BY <1>1, <1>2, <1>3, <1>8, <2>4, <2>6, PlacedFills
  <2> QED
    BY <2>7 DEF d
<1>9. nodes \in SUBSET nodes
  OBVIOUS
<1> QED
  BY <1>1, <1>2, <1>3, <1>4, <1>5, <1>6, <1>7, <1>8, <1>9, QuietTop

\* Where the parser goes back to, and what it keeps.
LEMMA RewindFacts ==
  ASSUME ParserInv, outcome = "parsing", NEW dp, Grouping(stack, dp, nodes, pos),
         NEW i \in 1..Len(stack), stack[i].symbol \in Rewinders, NEW symbol \in Plain, Rewind(i, symbol)
  PROVE  /\ pos' = stack[i].from /\ pos' \in Nat \ {0}
         /\ nodes' \in SUBSET nodes /\ \A m \in nodes' : m.to < pos'
         /\ Behind(stack, i, pos')
         /\ \E again \in Items : /\ again.symbol = symbol /\ Laid(<<again>>, pos')
                                 /\ <<again>> \in Seq(Items) /\ Puts(stack', <<again>>, stack, i)
<1>1. AtToken /\ stack \in Seq(Items) /\ stack[i] \in Items
  BY ParserFacts
<1>2. stack[i].from \in 1..Len(tokens) /\ stack[i].from \in Nat \ {0}
  <2>1. stack[i].from \in 1..Len(tokens)
    BY <1>1 DEF Items
  <2> QED
    BY <1>1, <2>1, ItemTypes
<1>3. /\ pos' = stack[i].from /\ nodes' = {n \in nodes : n.from < stack[i].from}
      /\ stack' = <<[Start EXCEPT !.symbol = symbol, !.from = stack[i].from]>> \o SubSeq(stack, i + 1, Len(stack))
  BY DEF Rewind
<1>4. ASSUME NEW m \in nodes'
      PROVE  m.to < stack[i].from
  <2>1. RewinderAt(stack, nodes, pos, i)
    BY DEF Grouping, ItemAt
  <2> QED
    BY <1>3, <1>4, <2>1 DEF RewinderAt
<1>5. Behind(stack, i, stack[i].from)
  <2> SUFFICES ASSUME NEW k \in (i + 1)..Len(stack) PROVE Before(stack[k], stack[i].from)
    BY DEF Behind
  <2>1. k \in 1..Len(stack) /\ i \in 1..(k - 1)
    BY <1>1
  <2>2. ItemAt(stack, dp, nodes, pos, k)
    BY <2>1 DEF Grouping
  <2> QED
    BY <2>1, <2>2 DEF ItemAt
<1> DEFINE again == [Start EXCEPT !.symbol = symbol, !.from = stack[i].from]
<1>6. again \in Items /\ again.symbol = symbol /\ again.from = stack[i].from
  <2>1. {} \in Sets
    BY DEF Sets
  <2>2. \A f \in 1..Len(tokens) :
          [Start EXCEPT !.symbol = symbol, !.from = f]
            \in [symbol : Plain \cup Special, set : Sets, arg : Nat, from : 1..Len(tokens)]
    BY <2>1 DEF Start
  <2>3. again.symbol = symbol /\ again.from = stack[i].from
    BY DEF Start
  <2> QED
    BY <1>2, <2>2, <2>3 DEF Items
<1>7. stack' = <<again>> \o SubSeq(stack, i + 1, Len(stack))
  BY <1>3
<1> HIDE DEF again
<1>8. <<again>> \in Seq(Items)
  BY <1>6, SequencesOfItems
<1>9. Puts(stack', <<again>>, stack, i)
  BY <1>1, <1>7, <1>8, ItemsRemainder
<1>10. Laid(<<again>>, stack[i].from)
  <2>1. \A x \in 1..Len(<<again>>) : <<again>>[x] = again
    OBVIOUS
  <2>2. again.symbol \notin Loops
    BY <1>6, SymbolFacts
  <2> QED
    BY <1>6, <2>1, <2>2, Zenon DEF Laid
<1> QED
  BY <1>2, <1>3, <1>4, <1>5, <1>6, <1>8, <1>9, <1>10

\* A parse function other than parse_expression is expanded.
LEMMA ExpandPlainGroups ==
  ASSUME ParserInv, outcome = "parsing", NEW dp, Grouping(stack, dp, nodes, pos), Expand, Top.symbol \in Plain
  PROVE  \E dp2 : Grouping(stack', dp2, nodes', pos')
<1>1. /\ stack # <<>> /\ ~Fails /\ Top.symbol \notin Special
      /\ pos' = pos /\ stack' = Production(Top) \o Tail(stack) /\ nodes' = nodes
  BY Zenon DEF Expand, lexerVars
<1>2. AtToken /\ Top \in Items
  BY <1>1, ParserFacts
<1>3. Production(Top) \in Seq(Pushed)
  BY <1>2, ProductionPushes, SequencesOfForeseen
<1>4. Production(Top) # Fail
  <2>1. Top.symbol # "want"
    BY <1>1, Zenon DEF Special
  <2> QED
    BY <1>1, <2>1, Zenon DEF Fails
<1>5. Fits(Production(Top), Top.symbol)
  BY <1>2, <1>4, ProductionFits, Zenon DEF Fits
<1>6. Top.symbol \in Expanded
  BY DEF Expanded
<1> QED
  BY <1>1, <1>3, <1>5, <1>6, ExpandGroups, Zenon

\* No loop of operators is below a statement.
LEMMA NoLoopBelow ==
  ASSUME ParserInv, outcome = "parsing", NEW dp, Grouping(stack, dp, nodes, pos),
         NEW i \in 1..Len(stack), stack[i].symbol = "assignment"
  PROVE  \A k \in (i + 1)..Len(stack) : stack[k].symbol \notin Loops
<1>1. AtToken /\ stack \in Seq(Items) /\ pos \in Nat
  BY ParserFacts, DepthAhead
<1>2. stack[i].symbol \notin InnerSymbols \cup Loops
  BY SymbolFacts
<1> SUFFICES ASSUME NEW k \in (i + 1)..Len(stack), stack[k].symbol \in Loops
             PROVE  FALSE
  OBVIOUS
<1>3. Over(stack[i], dp[i], dp[k], LevelAt(stack, k))
  BY <1>1, TopBorne
<1> QED
  BY <1>2, <1>3 DEF Over

\* A statement whose target was wrong is parsed again as an expression.
LEMMA AssignmentRewinds ==
  ASSUME ParserInv, outcome = "parsing", NEW dp, Grouping(stack, dp, nodes, pos),
         NEW i \in 1..Len(stack), stack[i].symbol = "assignment", Rewind(i, "call statement")
  PROVE  \E dp2 : Grouping(stack', dp2, nodes', pos')
<1>1. AtToken /\ stack \in Seq(Items) /\ pos \in Nat /\ tokens \in Seq(Kinds)
  BY ParserFacts, DepthAhead DEF AtToken
<1>2. "call statement" \in Plain /\ stack[i].symbol \in Rewinders /\ stack[i].symbol \notin Loops \cup Leveled
  BY Zenon DEF Plain, Rewinders, Loops, Leveled
<1>3. /\ pos' \in Nat \ {0} /\ nodes' \in SUBSET nodes /\ \A m \in nodes' : m.to < pos'
      /\ Behind(stack, i, pos')
      /\ \E again \in Items : /\ again.symbol = "call statement" /\ Laid(<<again>>, pos')
                              /\ <<again>> \in Seq(Items) /\ Puts(stack', <<again>>, stack, i)
  BY <1>2, RewindFacts
<1>4. PICK again \in Items : Laid(<<again>>, pos') /\ <<again>> \in Seq(Items) /\ Puts(stack', <<again>>, stack, i)
  BY <1>3
<1>5. \A k \in (i + 1)..Len(stack) : stack[k].symbol \notin Loops
  BY NoLoopBelow
<1> QED
  BY <1>1, <1>2, <1>3, <1>4, <1>5, LoopFree

\* The parser takes a target for the start of an assignment, or not.
LEMMA AssignmentGroups ==
  ASSUME ParserInv, outcome = "parsing", NEW dp, Grouping(stack, dp, nodes, pos), Assignment
  PROVE  \E dp2 : Grouping(stack', dp2, nodes', pos')
<1>1. stack # <<>> /\ stack[1].symbol = "assignment"
  BY Zenon DEF Assignment, Parsing, Top
<1>2. AtToken /\ stack \in Seq(Items) /\ tokens \in Seq(Kinds)
  BY ParserFacts, Zenon DEF AtToken
<1>3. pos \in Nat \ {0} /\ 1 \in 1..Len(stack)
  BY <1>1, <1>2, DepthAhead
<1>4. CASE Rewind(1, "call statement")
  BY <1>1, <1>3, <1>4, AssignmentRewinds
<1>5. CASE stack' = <<Want("="), Expression>> \o Tail(stack) /\ UNCHANGED <<lexerVars, pos, result, nodes>>
  <2> DEFINE q == <<Want("="), Expression>>
  <2>1. q \in Seq(Pushed)
    BY Zenon, <1>2, ItemFacts, SequencesOfPushed DEF Wantable
  <2> HIDE DEF q
  <2>2. Laid(q, pos) /\ q \in Seq(Items)
    <3>1. \A x \in 1..Len(q) : q[x] \in Pushed
      BY <2>1
    <3> QED
      BY <2>1, <3>1, PushedAreItems DEF Laid, Pushed
  <2>3. Puts(q \o Tail(stack), q, stack, 1)
    BY <1>1, <1>2, <2>2, PutsOnTail
  <2>4. stack[1].symbol \notin Loops \cup Leveled /\ stack[1].symbol # "want"
    BY <1>1 DEF Loops, Leveled
  <2>5. (\A m \in nodes : m.to < pos) /\ Behind(stack, 1, pos)
    BY <1>1, <1>2, <1>3, <2>4, GroupingFacts
  <2>6. \A k \in (1 + 1)..Len(stack) : stack[k].symbol \notin Loops
    BY <1>1, <1>3, NoLoopBelow
  <2>7. nodes \in SUBSET nodes /\ pos \in Nat
    BY <1>3
  <2>8. \E dp2 : Grouping(q \o Tail(stack), dp2, nodes, pos)
    BY <1>2, <1>3, <2>2, <2>3, <2>4, <2>5, <2>6, <2>7, LoopFree
  <2>9. stack' = q \o Tail(stack) /\ nodes' = nodes /\ pos' = pos
    BY <1>5 DEF q
  <2> QED
    BY <2>8, <2>9
<1> QED
  BY Zenon, <1>4, <1>5 DEF Assignment

\* What is no call of module.dll is parsed again as what starts with a type.
LEMMA ExternalCallGroups ==
  ASSUME ParserInv, outcome = "parsing", NEW dp, Grouping(stack, dp, nodes, pos), ExternalCall
  PROVE  \E dp2 : Grouping(stack', dp2, nodes', pos')
<1>1. stack # <<>> /\ Top.symbol = "external target" /\ stack[1].symbol = "external target"
  BY Zenon DEF ExternalCall, Parsing, Top
<1>2. AtToken /\ stack \in Seq(Items) /\ tokens \in Seq(Kinds)
  BY ParserFacts, Zenon DEF AtToken
<1>3. pos \in Nat \ {0} /\ 1 \in 1..Len(stack) /\ Nesting(pos - 1) \in Int
  <2>1. pos \in Nat /\ pos >= 1 /\ Nesting(pos - 1) \in Int
    BY <1>2, DepthAhead, Zenon
  <2>2. stack # <<>>
    BY <1>1, Zenon
  <2>3. 1 \in 1..Len(stack)
    BY <1>2, <2>2
  <2> QED
    BY <2>1, <2>3
<1>4. CASE stack' = ExternalTarget \o Tail(stack) /\ UNCHANGED <<lexerVars, pos, result, nodes>>
  <2>1. ExternalTarget \in Seq(Pushed)
    <3>1. Identifiers \cup {"variable"} \in SUBSET Wantable /\ 0 \in Nat
      BY KindFacts DEF Wantable
    <3>2. Seen(Identifiers \cup {"variable"}, 0) \in Pushed
      BY Zenon, <1>2, <3>1, ItemFacts
    <3>3. CallArguments \in Seq(Pushed)
      BY <1>2, ExpressionsGiveItems, SequencesOfForeseen
    <3> QED
      BY Zenon, <3>2, <3>3, SequencesOfPushed DEF ExternalTarget
  <2>2. Fits(ExternalTarget, Top.symbol)
    <3>1. Formed(ExternalTarget)
      BY <1>2, OperandsForm
    <3>2. Top.symbol \in OperandSymbols /\ Top.symbol # "array suffix"
      BY <1>1, SymbolFacts
    <3> QED
      BY <3>1, <3>2, Zenon DEF Fits, Fitting, Formed
  <2>3. Top.symbol \in Expanded
    BY <1>1 DEF Expanded
  <2>4. \E dp2 : Grouping(ExternalTarget \o Tail(stack), dp2, nodes, pos)
    BY <1>1, <2>1, <2>2, <2>3, ExpandGroups
  <2> QED
    BY <1>4, <2>4
<1>5. CASE Rewind(1, "named")
  <2>1. "named" \in Plain /\ stack[1].symbol \in Rewinders /\ stack[1].symbol \notin Loops \cup Leveled
    BY <1>1, Zenon DEF Plain, Rewinders, Loops, Leveled
  <2>2. /\ pos' = stack[1].from
        /\ pos' \in Nat \ {0} /\ nodes' \in SUBSET nodes /\ \A m \in nodes' : m.to < pos'
        /\ Behind(stack, 1, pos')
        /\ \E again \in Items : /\ again.symbol = "named" /\ Laid(<<again>>, pos')
                                /\ <<again>> \in Seq(Items) /\ Puts(stack', <<again>>, stack, 1)
    BY <1>3, <1>5, <2>1, RewindFacts
  <2>3. PICK again \in Items : /\ again.symbol = "named" /\ Laid(<<again>>, pos')
                               /\ <<again>> \in Seq(Items) /\ Puts(stack', <<again>>, stack, 1)
    BY <2>2
  <2>4. ASSUME NEW k \in 2..Len(stack), stack[k].symbol \in Loops
        PROVE  \E e : Fills(e, <<again>>, stack, dp, Nesting(pos' - 1))
    <3> DEFINE d == Nesting(pos' - 1)
               e == <<d, d>>
    <3>1. d \in Int
      <4>1. pos' - 1 \in Nat
        BY <2>2
      <4> QED
        BY <4>1, NestingNext
    <3>2. \A h \in 2..Len(stack) : stack[h].symbol \in Loops =>
            /\ Effect(stack[1], dp[2] - dp[1]) /\ Over(stack[1], dp[1], dp[h], LevelAt(stack, h))
            /\ dp[1] \in Int /\ dp[2] \in Int /\ dp[h] \in Int
      <4>1. 1 + 1 = 2 /\ pos \in Nat
        BY <1>3
      <4> QED
        BY <1>2, <1>3, <4>1, TopBorne
    <3>3. dp[1] = d
      BY <1>1, <2>2, <2>4, <3>2 DEF Over
    <3>4. dp[2] = d
      <4>1. dp[2] - dp[1] = 0
        BY <1>1, <2>4, <3>2, Zenon DEF Effect
      <4> QED
        BY <2>4, <3>1, <3>2, <3>3, <4>1
    <3>5. again.symbol \in OperandSymbols /\ again.symbol \in InnerSymbols
          /\ again.symbol \notin {"want", "array suffix", "external target"}
      BY <2>3, Zenon DEF OperandSymbols, InnerSymbols
    <3>6. \A h \in 2..Len(stack) : stack[h].symbol \in Loops => Deep(again, d, dp[h])
      BY <3>2, <3>3, <3>5 DEF Deep, Over
    <3>7. Effect(again, d - d)
      <4>1. d - d = 0
        BY <3>1
      <4> QED
        BY <3>5, <4>1, Zenon DEF Effect
    <3> HIDE DEF d
    <3>8. /\ e \in Seq(Int) /\ Len(e) = Len(<<again>>) + 1 /\ e[1] = d /\ e[2] = d /\ Len(<<again>>) = 1
          /\ <<again>>[1] = again
      BY <3>1
    <3> HIDE DEF e
    <3>9. \A x \in 1..Len(<<again>>) : x = 1 /\ x + 1 = 2
      BY <3>8
    <3>10. Fills(e, <<again>>, stack, dp, d)
      BY <3>4, <3>6, <3>7, <3>8, <3>9 DEF Fills
    <3> QED
      BY <3>10 DEF d
  <2> DEFINE q == <<again>>
             p2 == pos'
             ns2 == nodes'
             st2 == stack'
  <2>5. /\ q \in Seq(Items) /\ Puts(st2, q, stack, 1) /\ p2 \in Nat \ {0} /\ ns2 \in SUBSET nodes
        /\ (\A m \in ns2 : m.to < p2) /\ Laid(q, p2) /\ Behind(stack, 1, p2)
    BY <2>2, <2>3
  <2>6. \A k \in 2..Len(stack) : stack[k].symbol \in Loops => \E e : Fills(e, q, stack, dp, Nesting(p2 - 1))
    BY <2>4
  <2> HIDE DEF q, p2, ns2, st2
  <2>7. stack # <<>> /\ stack[1].symbol \notin Loops \cup Leveled /\ pos \in Nat
    BY <1>1, <1>3, <2>1
  <2>8. \E dp2 : Grouping(st2, dp2, ns2, p2)
    BY <1>2, <2>5, <2>6, <2>7, QuietTop
  <2> QED
    BY <2>8 DEF p2, ns2, st2
<1> QED
  BY Zenon, <1>4, <1>5 DEF ExternalCall

LoopsIn(st) == \E k \in 2..Len(st) : st[k].symbol \in Loops

Shift(st, dp, q, st2, p, e, dp2) ==
  /\ DepthsOf(st2, dp2, p) /\ dp2 \in Seq(Int) /\ Len(dp2) = Len(st2)
  /\ \A x \in 1..Len(q) : dp2[x] = e[x]
  /\ LoopsIn(st) => /\ \A x \in 1..(Len(q) + 1) : dp2[x] = e[x]
                    /\ \A h \in 2..Len(st) : dp2[h - 1 + Len(q)] = dp[h]

\* The depths when items q that start at the depths e take the place of the first one.
LEMMA Shifted ==
  ASSUME NEW st \in Seq(Items), st # <<>>, NEW dp \in Seq(Int), Len(dp) = Len(st),
         NEW q \in Seq(Items), NEW st2, Puts(st2, q, st, 1), NEW p \in Nat \ {0},
         NEW e \in Seq(Int), Len(e) = Len(q) + 1, e[1] = Nesting(p - 1),
         LoopsIn(st) => e[Len(q) + 1] = dp[2]
  PROVE  \E dp2 : Shift(st, dp, q, st2, p, e, dp2)
<1> DEFINE below(h) == IF LoopsIn(st) THEN dp[h] ELSE Nesting(p - 1)
           dp2 == [j \in 1..Len(st2) |-> IF j <= Len(q) THEN e[j] ELSE below(j - Len(q) + 1)]
<1>1. st2 \in Seq(Items) /\ Len(st2) = Len(q) + Len(st) - 1 /\ Len(st) \in Nat /\ Len(q) \in Nat /\ Len(st) >= 1
  BY DEF Puts
<1>2. Nesting(p - 1) \in Int
  <2>1. p - 1 \in Nat
    OBVIOUS
  <2> QED
    BY <2>1, NestingNext
<1>3. \A h \in 1..Len(st) : below(h) \in Int
  BY <1>2
<1>4. dp2 \in Seq(Int) /\ Len(dp2) = Len(st2)
  <2> HIDE DEF below
  <2>1. \A j \in 1..Len(st2) : (IF j <= Len(q) THEN e[j] ELSE below(j - Len(q) + 1)) \in Int
    <3> SUFFICES ASSUME NEW j \in 1..Len(st2)
                 PROVE  (IF j <= Len(q) THEN e[j] ELSE below(j - Len(q) + 1)) \in Int
      OBVIOUS
    <3>1. CASE j <= Len(q)
      BY <1>1, <3>1
    <3>2. CASE ~(j <= Len(q))
      <4>1. j - Len(q) + 1 \in 1..Len(st)
        BY <1>1, <3>2
      <4> QED
        BY <1>3, <3>2, <4>1
    <3> QED
      BY <3>1, <3>2
  <2> QED
    BY <1>1, <2>1
<1>5. \A x \in 1..Len(q) : dp2[x] = e[x]
  BY <1>1
<1>6. \A h \in 2..Len(st) : dp2[h - 1 + Len(q)] = below(h)
  <2> HIDE DEF below
  <2> SUFFICES ASSUME NEW h \in 2..Len(st) PROVE dp2[h - 1 + Len(q)] = below(h)
    OBVIOUS
  <2>1. /\ h - 1 + Len(q) \in 1..Len(st2) /\ ~(h - 1 + Len(q) <= Len(q))
        /\ (h - 1 + Len(q)) - Len(q) + 1 = h
    BY <1>1
  <2> QED
    BY <2>1
<1> HIDE DEF dp2
<1>7. LoopsIn(st) => \A h \in 2..Len(st) : dp2[h - 1 + Len(q)] = dp[h]
  BY <1>6
<1>8. ASSUME LoopsIn(st)
      PROVE  \A x \in 1..(Len(q) + 1) : dp2[x] = e[x]
  <2>1. 2 \in 2..Len(st)
    BY <1>1, <1>8 DEF LoopsIn
  <2>2. dp2[2 - 1 + Len(q)] = dp[2] /\ 2 - 1 + Len(q) = Len(q) + 1
    BY <1>1, <1>7, <1>8, <2>1
  <2>3. dp2[Len(q) + 1] = e[Len(q) + 1]
    BY <1>8, <2>2
  <2>4. \A x \in 1..(Len(q) + 1) : x \in 1..Len(q) \/ x = Len(q) + 1
    BY <1>1
  <2> QED
    BY <1>5, <2>3, <2>4
<1>9. DepthsOf(st2, dp2, p)
  <2>1. st2 # <<>> => dp2[1] = Nesting(p - 1)
    <3>1. CASE Len(q) # 0
      <4>1. 1 \in 1..Len(q)
        BY <1>1, <3>1
      <4> QED
        BY <1>5, <4>1
    <3>2. CASE Len(q) = 0 /\ LoopsIn(st)
      <4>1. 1 \in 1..(Len(q) + 1)
        BY <3>2
      <4> QED
        BY <1>8, <3>2, <4>1
    <3>3. CASE Len(q) = 0 /\ ~LoopsIn(st) /\ st2 # <<>>
      <4>1. 2 \in 2..Len(st) /\ 2 - 1 + Len(q) = 1
        BY <1>1, <3>3
      <4>2. dp2[1] = below(2)
        BY <1>6, <4>1
      <4> QED
        BY <3>3, <4>2
    <3> QED
      BY <3>1, <3>2, <3>3
  <2> QED
    BY <1>4, <2>1 DEF DepthsOf
<1> QED
  BY <1>4, <1>5, <1>7, <1>8, <1>9 DEF Shift

\* The facts about the items below the first one.
LEMMA BelowTop ==
  ASSUME NEW st \in Seq(Items), NEW dp, NEW ns, NEW p \in Nat, Grouping(st, dp, ns, p), st # <<>>
  PROVE  /\ \A k \in 2..Len(st) : k \in 1..Len(st) /\ k \in (1 + 1)..Len(st) /\ ItemAt(st, dp, ns, p, k)
         /\ ItemAt(st, dp, ns, p, 1) /\ TopAt(st, dp, ns, p) /\ 1 \in 1..Len(st)
         /\ dp \in Seq(Int) /\ Len(dp) = Len(st) /\ dp[1] = Nesting(p - 1) /\ Len(st) \in Nat /\ Len(st) >= 1
         /\ \A k \in 2..Len(st) : st[k].symbol \in Loops =>
              /\ Effect(st[1], dp[2] - dp[1]) /\ Over(st[1], dp[1], dp[k], LevelAt(st, k))
              /\ dp[1] \in Int /\ dp[2] \in Int /\ dp[k] \in Int
<1>1. 1 + 1 = 2 /\ 1 \in 1..Len(st) /\ Len(st) \in Nat /\ Len(st) >= 1
  OBVIOUS
<1>2. \A k \in 2..Len(st) : k \in 1..Len(st) /\ k \in (1 + 1)..Len(st)
  BY <1>1
<1>3. /\ \A k \in 2..Len(st) : ItemAt(st, dp, ns, p, k)
      /\ ItemAt(st, dp, ns, p, 1) /\ TopAt(st, dp, ns, p)
      /\ dp \in Seq(Int) /\ Len(dp) = Len(st) /\ dp[1] = Nesting(p - 1)
  BY <1>1, <1>2 DEF Grouping, DepthsOf
<1>4. ASSUME NEW k \in 2..Len(st), st[k].symbol \in Loops
      PROVE  /\ Effect(st[1], dp[2] - dp[1]) /\ Over(st[1], dp[1], dp[k], LevelAt(st, k))
             /\ dp[1] \in Int /\ dp[2] \in Int /\ dp[k] \in Int
  BY <1>1, <1>4, TopBorne
<1> QED
  BY <1>1, <1>2, <1>3, <1>4

\* The level of a loop depends on what is right above it alone.
LEMMA LevelKept ==
  ASSUME NEW st \in Seq(Items), NEW q \in Seq(Items), NEW st2, Puts(st2, q, st, 1), NEW k \in 2..Len(st)
  PROVE  /\ \/ k # 2 \/ st[k].symbol = "binary"
            \/ Len(q) # 0 /\ (q[Len(q)].symbol = "binary" <=> st[1].symbol = "binary")
            => LevelAt(st2, k - 1 + Len(q)) = LevelAt(st, k)
         /\ k = 2 /\ st[1].symbol # "binary" /\ st[2].symbol # "binary" => LevelAt(st, 2) = 11
<1>1. Len(st) \in Nat /\ Len(q) \in Nat /\ 1 + 1 = 2
  BY DEF Puts
<1>2. \A h \in 2..Len(st) : h - 1 + Len(q) \in 1..Len(st2) /\ st2[h - 1 + Len(q)] = st[h]
  BY <1>1 DEF Puts
<1> DEFINE a == k - 1 + Len(q)
<1>3. a \in Int /\ a >= 1 + Len(q) /\ st2[a] = st[k] /\ k > 1
  BY <1>1, <1>2
<1>4. CASE st[k].symbol = "binary"
  <2>1. LevelAt(st2, a) = LevelAt(st, k)
    BY <1>3, <1>4 DEF LevelAt
  <2> QED
    BY <1>4, <2>1
<1>5. ASSUME k # 2, st[k].symbol # "binary"
      PROVE  LevelAt(st2, a) = LevelAt(st, k)
  <2>1. k - 1 \in 2..Len(st) /\ (k - 1) - 1 + Len(q) = a - 1 /\ a > 1
    BY <1>1, <1>5
  <2>2. st2[a - 1] = st[k - 1]
    BY <1>2, <2>1
  <2> HIDE DEF a
  <2> QED
    BY <1>3, <1>5, <2>1, <2>2 DEF LevelAt
<1>6. ASSUME k = 2, Len(q) # 0, q[Len(q)].symbol = "binary" <=> st[1].symbol = "binary", st[k].symbol # "binary"
      PROVE  LevelAt(st2, a) = LevelAt(st, k)
  <2>1. a - 1 = Len(q) /\ a > 1 /\ Len(q) \in 1..Len(q) /\ k - 1 = 1
    BY <1>1, <1>6
  <2>2. st2[Len(q)] = q[Len(q)]
    BY <2>1 DEF Puts
  <2>3. st2[a - 1].symbol = "binary" <=> st[k - 1].symbol = "binary"
    BY <1>6, <2>1, <2>2
  <2> HIDE DEF a
  <2> QED
    BY <1>3, <1>6, <2>1, <2>3 DEF LevelAt
<1>7. k = 2 /\ st[1].symbol # "binary" /\ st[2].symbol # "binary" => LevelAt(st, 2) = 11
  <2>1. 2 > 1 /\ 2 - 1 = 1
    OBVIOUS
  <2> QED
    BY <2>1 DEF LevelAt
<1> QED
  BY <1>4, <1>5, <1>6, <1>7

\* The loops below the first item bear the items q, which start at the depths e.
Bears(st, dp, q, st2, e) ==
  \A k \in 2..Len(st) : st[k].symbol \in Loops =>
    /\ LevelAt(st, k) = 11 \/ LevelAt(st2, k - 1 + Len(q)) = LevelAt(st, k)
    /\ \A x \in 1..Len(q) :
         Effect(q[x], e[x + 1] - e[x]) /\ Over(q[x], e[x], dp[k], LevelAt(st2, k - 1 + Len(q)))

\* The depths at which the items start once q has taken the place of the first one.
Replaced(st, dp, q, st2, dp2, e, ns, p) ==
  /\ DepthsOf(st2, dp2, p) /\ dp2 \in Seq(Int) /\ Len(dp2) = Len(st2)
  /\ \A x \in 1..Len(q) : dp2[x] = e[x]
  /\ LoopsIn(st) => dp2[Len(q) + 1] = e[Len(q) + 1]
  /\ \A x \in 1..Len(st2) : x \in 1..Len(q) \/ ItemAt(st2, dp2, ns, p, x)

\* What is left when items that may be loops take the place of the first one.
LEMMA LeftBelow ==
  ASSUME tokens \in Seq(Kinds),
         NEW st \in Seq(Items), st # <<>>, NEW dp, NEW ns, NEW p \in Nat \ {0}, Grouping(st, dp, ns, p),
         st[1].symbol # "want",
         NEW q \in Seq(Items), NEW st2, Puts(st2, q, st, 1),
         NEW e \in Seq(Int), Len(e) = Len(q) + 1, e[1] = Nesting(p - 1),
         LoopsIn(st) => e[Len(q) + 1] = dp[2],
         Apart(st, q, 1), Awaited(st, q, 1), Bears(st, dp, q, st2, e)
  PROVE  \E dp2 : Replaced(st, dp, q, st2, dp2, e, ns, p)
<1>1. dp \in Seq(Int) /\ Len(dp) = Len(st) /\ 1 \in 1..Len(st) /\ p \in Nat /\ Len(st) \in Nat
  BY BelowTop
<1>a. PICK dp2 : Shift(st, dp, q, st2, p, e, dp2)
  BY <1>1, Shifted
<1>2. /\ DepthsOf(st2, dp2, p) /\ dp2 \in Seq(Int) /\ Len(dp2) = Len(st2)
      /\ \A x \in 1..Len(q) : dp2[x] = e[x]
      /\ LoopsIn(st) => /\ \A x \in 1..(Len(q) + 1) : dp2[x] = e[x]
                        /\ \A h \in 2..Len(st) : dp2[h - 1 + Len(q)] = dp[h]
  BY <1>a DEF Shift
<1>3. Behind(st, 1, p)
  BY <1>1, GroupingFacts
<1>4. Len(q) \in Nat /\ 1 + 1 = 2
  OBVIOUS
<1>5. LoopsBear(st, dp, q, st2, dp2, 1)
  <2> SUFFICES ASSUME NEW k \in 2..Len(st), st[k].symbol \in Loops
               PROVE  /\ LevelAt(st, k) = 11 \/ LevelAt(st2, k - 1 + Len(q)) = LevelAt(st, k)
                      /\ \A h \in 2..k : dp2[h - 1 + Len(q)] = dp[h]
                      /\ \A x \in 1..Len(q) : Effect(q[x], dp2[x + 1] - dp2[x])
                                              /\ Over(q[x], dp2[x], dp[k], LevelAt(st2, k - 1 + Len(q)))
    BY <1>4 DEF LoopsBear
  <2>1. LoopsIn(st)
    BY DEF LoopsIn
  <2>2. \A h \in 2..k : h \in 2..Len(st)
    BY <1>1
  <2>3. \A x \in 1..Len(q) : x \in 1..(Len(q) + 1) /\ x + 1 \in 1..(Len(q) + 1)
    BY <1>4
  <2>4. \A x \in 1..Len(q) : dp2[x] = e[x] /\ dp2[x + 1] = e[x + 1]
    BY <1>2, <2>1, <2>3
  <2>5. /\ LevelAt(st, k) = 11 \/ LevelAt(st2, k - 1 + Len(q)) = LevelAt(st, k)
        /\ \A x \in 1..Len(q) :
             Effect(q[x], e[x + 1] - e[x]) /\ Over(q[x], e[x], dp[k], LevelAt(st2, k - 1 + Len(q)))
    BY DEF Bears
  <2> QED
    BY <1>2, <2>1, <2>2, <2>4, <2>5
<1>6. \A k \in (1 + 1)..Len(st) : ItemAt(st2, dp2, ns, p, k - 1 + Len(q))
  <2>1. ns \in SUBSET ns
    OBVIOUS
  <2> QED
    BY <1>1, <1>3, <1>5, <2>1, RestKeeps
<1>7. \A x \in 1..Len(st2) : x \in 1..Len(q) \/ ItemAt(st2, dp2, ns, p, x)
  <2> SUFFICES ASSUME NEW x \in 1..Len(st2), x \notin 1..Len(q) PROVE ItemAt(st2, dp2, ns, p, x)
    OBVIOUS
  <2>1. x - Len(q) + 1 \in (1 + 1)..Len(st)
    BY DEF Puts
  <2>2. (x - Len(q) + 1) - 1 + Len(q) = x
    BY <1>4
  <2> QED
    BY <1>6, <2>1, <2>2
<1>8. LoopsIn(st) => dp2[Len(q) + 1] = e[Len(q) + 1]
  <2>1. Len(q) + 1 \in 1..(Len(q) + 1)
    BY <1>4
  <2> QED
    BY <1>2, <2>1
<1> QED
  BY <1>2, <1>7, <1>8 DEF Replaced

\* The items that may open or close a bracket.
Turning == {"want", "array suffix"}
NoBracket(item) == \A w : w = 0 => Effect(item, w)

\* What is neither a token nor the end of a type's brackets keeps the depth.
LEMMA LevelTop ==
  ASSUME NEW st \in Seq(Items), st # <<>>, NEW dp, NEW ns, NEW p \in Nat \ {0}, Grouping(st, dp, ns, p),
         st[1].symbol \notin Turning
  PROVE  /\ LoopsIn(st) => dp[2] = Nesting(p - 1)
         /\ Nesting(p - 1) \in Int
<1>1. p \in Nat /\ p - 1 \in Nat
  OBVIOUS
<1>2. Nesting(p - 1) \in Int
  BY <1>1, NestingNext
<1>3. ASSUME LoopsIn(st) PROVE dp[2] = Nesting(p - 1)
  <2>1. PICK k \in 2..Len(st) : st[k].symbol \in Loops
    BY <1>3 DEF LoopsIn
  <2>2. Effect(st[1], dp[2] - dp[1]) /\ dp[1] \in Int /\ dp[2] \in Int /\ dp[1] = Nesting(p - 1)
    BY <1>1, <2>1, BelowTop
  <2>3. dp[2] - dp[1] = 0
    <3> DEFINE w == dp[2] - dp[1]
    <3>1. Effect(st[1], w)
      BY <2>2
    <3> HIDE DEF w
    <3>2. w = 0
      BY <3>1, Zenon DEF Effect, Turning
    <3> QED
      BY <3>2 DEF w
  <2> QED
    BY <2>2, <2>3
<1> QED
  BY <1>2, <1>3

\* The loops below bear the items q at the depth d.
BearsLevel(st, dp, q, st2, d) ==
  \A k \in 2..Len(st) : st[k].symbol \in Loops =>
    /\ LevelAt(st, k) = 11 \/ LevelAt(st2, k - 1 + Len(q)) = LevelAt(st, k)
    /\ \A x \in 1..Len(q) : Over(q[x], d, dp[k], LevelAt(st2, k - 1 + Len(q)))
ReplacedLevel(st2, dp2, q, d, ns, p) ==
  /\ DepthsOf(st2, dp2, p)
  /\ \A x \in 1..Len(q) : dp2[x] = d
  /\ \A x \in 1..Len(st2) : x \in 1..Len(q) \/ ItemAt(st2, dp2, ns, p, x)

\* Items that no bracket is in, and that may be loops, in the place of the first one.
LEMMA LevelBelow ==
  ASSUME tokens \in Seq(Kinds),
         NEW st \in Seq(Items), st # <<>>, NEW dp, NEW ns, NEW p \in Nat \ {0}, Grouping(st, dp, ns, p),
         st[1].symbol \notin Turning,
         NEW q \in Seq(Items), NEW st2, Puts(st2, q, st, 1),
         \A x \in 1..Len(q) : NoBracket(q[x]),
         Apart(st, q, 1), Awaited(st, q, 1), BearsLevel(st, dp, q, st2, Nesting(p - 1))
  PROVE  \E dp2 : ReplacedLevel(st2, dp2, q, Nesting(p - 1), ns, p)
<1> DEFINE d == Nesting(p - 1)
           e == [x \in 1..(Len(q) + 1) |-> d]
<1>1. d \in Int /\ (LoopsIn(st) => dp[2] = d)
  BY LevelTop
<1> HIDE DEF d
<1>2. Len(q) \in Nat
  OBVIOUS
<1>3. /\ e \in Seq(Int) /\ Len(e) = Len(q) + 1 /\ \A x \in 1..(Len(q) + 1) : e[x] = d
  BY <1>1, <1>2
<1> HIDE DEF e
<1>4. 1 \in 1..(Len(q) + 1) /\ Len(q) + 1 \in 1..(Len(q) + 1)
  BY <1>2
<1>5. e[1] = d /\ e[Len(q) + 1] = d
  BY <1>3, <1>4
<1>6. \A x \in 1..Len(q) : x \in 1..(Len(q) + 1) /\ x + 1 \in 1..(Len(q) + 1)
  BY <1>2
<1>7. \A x \in 1..Len(q) : e[x] = d /\ Effect(q[x], e[x + 1] - e[x])
  <2> SUFFICES ASSUME NEW x \in 1..Len(q) PROVE e[x] = d /\ Effect(q[x], e[x + 1] - e[x])
    OBVIOUS
  <2>1. e[x] = d /\ e[x + 1] = d
    BY <1>3, <1>6
  <2>2. e[x + 1] - e[x] = 0
    BY <1>1, <2>1
  <2>3. \A w : w = 0 => Effect(q[x], w)
    BY DEF NoBracket
  <2> QED
    BY <2>1, <2>2, <2>3
<1>8. Bears(st, dp, q, st2, e)
  <2>1. BearsLevel(st, dp, q, st2, d)
    BY DEF d
  <2> QED
    BY <1>7, <2>1 DEF Bears, BearsLevel
<1>9. e[1] = Nesting(p - 1) /\ (LoopsIn(st) => e[Len(q) + 1] = dp[2])
  BY <1>1, <1>5 DEF d
<1>10. PICK dp2 : Replaced(st, dp, q, st2, dp2, e, ns, p)
  <2>1. st[1].symbol # "want"
    BY DEF Turning
  <2> QED
    BY <1>3, <1>8, <1>9, <2>1, LeftBelow
<1>11. ReplacedLevel(st2, dp2, q, d, ns, p)
  BY <1>7, <1>10 DEF Replaced, ReplacedLevel
<1> QED
  BY <1>11 DEF d

\* What remains to be shown of items that take the place of the first one.
LEMMA GroupsLevel ==
  ASSUME NEW st \in Seq(Items), NEW dp, NEW ns, NEW p \in Nat \ {0}, Grouping(st, dp, ns, p),
         NEW q, NEW st2, NEW dp2, NEW d, ReplacedLevel(st2, dp2, q, d, ns, p),
         \A x \in 1..Len(q) : ItemAt(st2, dp2, ns, p, x),
         st2 # <<>> => TopAt(st2, dp2, ns, p)
  PROVE  Grouping(st2, dp2, ns, p)
BY DEF Grouping, ReplacedLevel

\* A loop among the items q, with no bracket between it and the top.
LEMMA LoopAmong ==
  ASSUME NEW st2, NEW dp2, NEW q \in Seq(Items), NEW d \in Int, NEW ns, NEW p \in Nat \ {0},
         \A x \in 1..Len(q) : dp2[x] = d /\ st2[x] = q[x] /\ NoBracket(q[x]),
         NEW k \in 1..Len(q), q[k].from <= p,
         Nesting(q[k].from - 1) = d, Nesting(Base(q[k]) - 1) = d,
         \A m \in ns : m.op >= Base(q[k]) /\ Nesting(m.op) <= d => Precedence(tokens[m.op]) >= LevelAt(st2, k),
         \A j \in 1..(k - 1) : Over(q[j], d, d, LevelAt(st2, k))
  PROVE  LoopAt(st2, dp2, ns, p, k)
<1>1. dp2[k] = d /\ st2[k] = q[k]
  OBVIOUS
<1>2. ASSUME NEW j \in 1..(k - 1)
      PROVE  Effect(st2[j], dp2[j + 1] - dp2[j]) /\ Over(st2[j], dp2[j], dp2[k], LevelAt(st2, k))
  <2>1. j \in 1..Len(q) /\ j + 1 \in 1..Len(q)
    OBVIOUS
  <2>2. dp2[j] = d /\ dp2[j + 1] = d /\ st2[j] = q[j] /\ NoBracket(q[j])
    BY <2>1
  <2>3. dp2[j + 1] - dp2[j] = 0
    BY <2>2
  <2>4. Effect(st2[j], dp2[j + 1] - dp2[j])
    BY <2>2, <2>3, Zenon DEF NoBracket
  <2> QED
    BY <1>1, <2>2, <2>4
<1> QED
  BY <1>1, <1>2 DEF LoopAt

\* The symbols of the items of an expression.
LEMMA ExpressionSymbols ==
  /\ "unary" \in OperandSymbols /\ "unary" \in InnerSymbols /\ "unary" \notin Loops \cup Rewinders
  /\ "want" \in OperandSymbols /\ "want" \in InnerSymbols /\ "want" \notin Loops \cup Rewinders \cup Leveled
  /\ "expression" \notin Loops \cup Rewinders \cup OperandSymbols /\ "expression" \in Leveled \cap InnerSymbols
  /\ "operators" \in Loops \cap Leveled /\ "operators" \notin Rewinders \cup OperandSymbols
  /\ "binary" \in Loops /\ "binary" \notin Rewinders \cup OperandSymbols \cup Leveled
  /\ "expression" \notin Turning /\ "operators" \notin Turning /\ "binary" \notin Turning /\ "unary" \notin Turning
BY Zenon DEF OperandSymbols, InnerSymbols, Loops, Rewinders, Leveled, Turning

\* Only a token, or the end of the type of an array, opens or closes a bracket.
LEMMA NoBracketFacts ==
  \A item : item.symbol \notin Turning => NoBracket(item)
<1> SUFFICES ASSUME NEW item, item.symbol \notin Turning, NEW w, w = 0 PROVE Effect(item, w)
  BY DEF NoBracket
<1> QED
  BY Zenon DEF Effect, Turning

\* parse_expression starts with an operand, and its loop has read no operator.
LEMMA ExpressionKeeps ==
  ASSUME tokens \in Seq(Kinds),
         NEW st \in Seq(Items), st # <<>>, NEW dp, NEW ns, NEW p \in Nat \ {0}, Grouping(st, dp, ns, p),
         st[1].symbol = "expression",
         NEW u \in Items, u.symbol = "unary",
         NEW o \in Items, o.symbol = "operators", o.arg = st[1].arg, o.from = p,
         NEW st2, Puts(st2, <<u, o>>, st, 1)
  PROVE  \E dp2 : Grouping(st2, dp2, ns, p)
<1> DEFINE q == <<u, o>>
           d == Nesting(p - 1)
<1>1. q \in Seq(Items) /\ Len(q) = 2 /\ q[1] = u /\ q[2] = o /\ Puts(st2, q, st, 1)
  OBVIOUS
<1> HIDE DEF q
<1>2. \A x \in 1..Len(q) : x = 1 \/ x = 2
  BY <1>1
<1>3. st[1].symbol \notin Turning /\ st[1].symbol # "want" /\ st[1].symbol # "binary"
  BY ExpressionSymbols
<1>4. \A x \in 1..Len(q) : NoBracket(q[x])
  BY <1>1, <1>2, NoBracketFacts, ExpressionSymbols
<1>5. d \in Int
  BY <1>3, LevelTop
<1> HIDE DEF d
<1>6. /\ \A k \in 2..Len(st) : k \in 1..Len(st) /\ ItemAt(st, dp, ns, p, k)
      /\ dp[1] = d /\ p \in Nat /\ 1 \in 1..Len(st) /\ Len(st) \in Nat
      /\ \A k \in 2..Len(st) : st[k].symbol \in Loops =>
           Over(st[1], dp[1], dp[k], LevelAt(st, k)) /\ dp[k] \in Int
  BY BelowTop DEF d
<1>7. /\ Behind(st, 1, p)
      /\ \A m \in ns : m.op \in Nat /\ m.to \in Nat /\ m.op <= m.to /\ m.to < p
  BY <1>3, <1>6, GroupingFacts
<1>8. Apart(st, q, 1)
  <2> SUFFICES ASSUME NEW k \in (1 + 1)..Len(st), NEW x \in 1..Len(q), q[x].symbol \in Loops \cup Rewinders
               PROVE  Before(st[k], q[x].from)
    BY DEF Apart
  <2>1. q[x].from = p
    BY <1>1, <1>2, ExpressionSymbols
  <2> QED
    BY <1>7, <2>1 DEF Behind
<1>9. Awaited(st, q, 1)
  <2> SUFFICES ASSUME 2 \in 1..Len(st), st[2].symbol = "binary"
               PROVE  o.symbol \in Leveled /\ o.arg = Precedence(tokens[st[2].arg]) + 1
    BY <1>1 DEF Awaited
  <2>1. BinaryAt(st, ns, p, 2) /\ 2 > 1 /\ 2 - 1 = 1
    BY <1>6 DEF ItemAt
  <2>2. st[1].arg = Precedence(tokens[st[2].arg]) + 1
    BY <2>1 DEF BinaryAt
  <2> QED
    BY <2>2, ExpressionSymbols
<1>10. ASSUME NEW k \in 2..Len(st), st[k].symbol \in Loops
       PROVE  /\ LevelAt(st2, k - 1 + Len(q)) = LevelAt(st, k)
              /\ \A x \in 1..Len(q) : Over(q[x], d, dp[k], LevelAt(st2, k - 1 + Len(q)))
  <2>1. Len(q) # 0 /\ q[Len(q)].symbol # "binary"
    BY <1>1
  <2>2. LevelAt(st2, k - 1 + Len(q)) = LevelAt(st, k)
    BY <1>1, <1>3, <2>1, LevelKept
  <2> DEFINE l == LevelAt(st2, k - 1 + Len(q))
  <2>3. Over(st[1], d, dp[k], l)
    BY <1>6, <1>10, <2>2
  <2> HIDE DEF l
  <2>4. Over(u, d, dp[k], l)
    BY <2>3, ExpressionSymbols DEF Over
  <2>5. Over(o, d, dp[k], l)
    BY <1>3, <2>3, ExpressionSymbols DEF Over
  <2>6. \A x \in 1..Len(q) : Over(q[x], d, dp[k], l)
    BY <1>1, <1>2, <2>4, <2>5
  <2> QED
    BY <2>2, <2>6 DEF l
<1>11. PICK dp2 : ReplacedLevel(st2, dp2, q, d, ns, p)
  <2>1. BearsLevel(st, dp, q, st2, d)
    BY <1>10 DEF BearsLevel
  <2> QED
    BY <1>1, <1>3, <1>4, <1>8, <1>9, <2>1, LevelBelow DEF d
<1>12. st2[1] = u /\ st2[2] = o /\ \A x \in 1..Len(q) : dp2[x] = d /\ st2[x] = q[x]
  <2>1. 1 \in 1..Len(q) /\ 2 \in 1..Len(q)
    BY <1>1
  <2> QED
    BY <1>1, <1>11, <2>1 DEF ReplacedLevel, Puts
<1>13. ItemAt(st2, dp2, ns, p, 1)
  <2>1. \A j \in 1..(1 - 1) : FALSE
    OBVIOUS
  <2>2. u.symbol \notin Loops /\ u.symbol # "binary" /\ u.symbol \notin Rewinders
    BY ExpressionSymbols
  <2> QED
    BY <1>12, <2>1, <2>2 DEF ItemAt
<1>14. ItemAt(st2, dp2, ns, p, 2)
  <2>1. \A j \in 1..(2 - 1) : j = 1
    OBVIOUS
  <2>2. LoopAt(st2, dp2, ns, p, 2)
    <3>1. Base(o) = p
      BY DEF Base
    <3>2. 2 \in 1..Len(q) /\ q[2].from = p /\ Base(q[2]) = p /\ p <= p /\ Nesting(p - 1) = d
      BY <1>1, <3>1 DEF d
    <3>3. \A m \in ns : ~(m.op >= p)
      BY <1>7
    <3>4. \A j \in 1..(2 - 1) : Over(q[j], d, d, LevelAt(st2, 2))
      <4>1. d >= d
        BY <1>5
      <4>2. Over(u, d, d, LevelAt(st2, 2))
        BY <4>1, ExpressionSymbols DEF Over
      <4> QED
        BY <1>1, <2>1, <4>2
    <3>5. \A m \in ns : m.op >= Base(q[2]) /\ Nesting(m.op) <= d => Precedence(tokens[m.op]) >= LevelAt(st2, 2)
      BY <3>2, <3>3
    <3>6. \A x \in 1..Len(q) : dp2[x] = d /\ st2[x] = q[x] /\ NoBracket(q[x])
      BY <1>4, <1>12
    <3> QED
      BY <1>1, <1>5, <3>2, <3>4, <3>5, <3>6, LoopAmong
  <2>3. o.symbol # "binary" /\ o.symbol \notin Rewinders /\ u.symbol \notin Loops \cup Rewinders
    BY ExpressionSymbols
  <2> QED
    BY <1>12, <2>1, <2>2, <2>3 DEF ItemAt
<1>15. TopAt(st2, dp2, ns, p)
  BY <1>12 DEF TopAt
<1>16. \A x \in 1..Len(q) : ItemAt(st2, dp2, ns, p, x)
  BY <1>2, <1>13, <1>14
<1> QED
  BY <1>6, <1>11, <1>15, <1>16, GroupsLevel

\* Loops that bear nothing in the place of the first item, which is no operator.
LEMMA LevelsBare ==
  ASSUME NEW st \in Seq(Items), NEW dp, NEW st2, Puts(st2, <<>>, st, 1), NEW d,
         st[1].symbol # "binary"
  PROVE  BearsLevel(st, dp, <<>>, st2, d) /\ Apart(st, <<>>, 1) /\ Awaited(st, <<>>, 1)
<1> DEFINE q == <<>>
<1>1. Len(q) = 0 /\ q \in Seq(Items) /\ Puts(st2, q, st, 1)
  OBVIOUS
<1> HIDE DEF q
<1>2. \A x \in 1..Len(q) : FALSE
  BY <1>1
<1>3. Apart(st, q, 1) /\ Awaited(st, q, 1)
  BY <1>1, <1>2 DEF Apart, Awaited
<1>4. ASSUME NEW k \in 2..Len(st), st[k].symbol \in Loops
      PROVE  LevelAt(st, k) = 11 \/ LevelAt(st2, k - 1 + Len(q)) = LevelAt(st, k)
  <2>1. k # 2 \/ st[k].symbol = "binary" => LevelAt(st2, k - 1 + Len(q)) = LevelAt(st, k)
    BY <1>1, LevelKept
  <2>2. k = 2 /\ st[2].symbol # "binary" => LevelAt(st, 2) = 11
    BY <1>1, LevelKept
  <2> QED
    BY <2>1, <2>2
<1>5. BearsLevel(st, dp, q, st2, d)
  BY <1>2, <1>4 DEF BearsLevel
<1> QED
  BY <1>3, <1>5 DEF q

\* A loop ends where the operator ahead binds less tightly than it asks for.
LEMMA LoopEnds ==
  ASSUME tokens \in Seq(Kinds),
         NEW st \in Seq(Items), st # <<>>, NEW dp, NEW ns, NEW p \in Nat \ {0}, Grouping(st, dp, ns, p),
         st[1].symbol = "operators", Precedence(tokens[p]) < st[1].arg,
         NEW st2, Puts(st2, <<>>, st, 1)
  PROVE  \E dp2 : Grouping(st2, dp2, ns, p)
<1> DEFINE q == <<>>
           d == Nesting(p - 1)
<1>1. q \in Seq(Items) /\ Len(q) = 0 /\ Puts(st2, q, st, 1)
  OBVIOUS
<1>2. st[1].symbol \notin Turning /\ st[1].symbol # "want" /\ st[1].symbol # "binary"
  BY ExpressionSymbols
<1>3. BearsLevel(st, dp, q, st2, d) /\ Apart(st, q, 1) /\ Awaited(st, q, 1)
  BY <1>2, LevelsBare
<1> HIDE DEF q
<1>4. \A x \in 1..Len(q) : FALSE
  BY <1>1
<1>5. \E dp2 : ReplacedLevel(st2, dp2, q, d, ns, p)
  BY <1>1, <1>2, <1>3, <1>4, LevelBelow
<1>6. PICK dp2 : ReplacedLevel(st2, dp2, q, d, ns, p)
  BY <1>5
<1>7. d \in Int /\ (LoopsIn(st) => dp[2] = d)
  BY <1>2, LevelTop
<1> HIDE DEF d
<1>8. /\ \A k \in 2..Len(st) : k \in 1..Len(st) /\ ItemAt(st, dp, ns, p, k)
      /\ p \in Nat /\ Len(st) \in Nat
  BY BelowTop
<1>9. ASSUME st2 # <<>> PROVE TopAt(st2, dp2, ns, p)
  <2>1. dp2[1] = d
    BY <1>6, <1>9 DEF ReplacedLevel, DepthsOf, d
  <2>2. 2 \in 2..Len(st) /\ st2[1] = st[2]
    <3>1. Len(st2) = Len(st) - 1 /\ Len(st2) # 0 /\ Len(st2) \in Nat
      BY <1>1, <1>8, <1>9 DEF Puts
    <3>2. 2 \in 2..Len(st)
      BY <1>8, <3>1
    <3>3. 2 - 1 + Len(q) = 1 /\ 1 + 1 = 2
      BY <1>1
    <3>4. st2[2 - 1 + Len(q)] = st[2]
      BY <1>1, <3>2, <3>3 DEF Puts
    <3> QED
      BY <3>2, <3>3, <3>4
  <2>3. ItemAt(st, dp, ns, p, 2) /\ 2 > 1 /\ 2 - 1 = 1
    BY <1>8, <2>2
  <2>4. ASSUME st[2].symbol = "binary" PROVE Precedence(tokens[p]) <= Precedence(tokens[st[2].arg])
    <3>1. st[1].arg = Precedence(tokens[st[2].arg]) + 1
      BY <2>3, <2>4 DEF ItemAt, BinaryAt
    <3>2. Precedence(tokens[p]) \in 0..10 /\ Precedence(tokens[st[2].arg]) \in 0..10
      BY PrecedenceRange
    <3> QED
      BY <3>1, <3>2
  <2>5. ASSUME st[2].symbol = "operators", NEW m \in ns, m.op >= st[2].from, Nesting(m.op) <= d
        PROVE  FALSE
    <3>1. st[2].symbol \in Loops /\ st[2].symbol # "binary"
      BY <2>5, ExpressionSymbols
    <3>2. dp[2] = d
      BY <1>7, <2>2, <3>1 DEF LoopsIn
    <3>3. Base(st[2]) = st[2].from
      BY <3>1 DEF Base
    <3>4. LevelAt(st, 2) = 11
      BY <1>1, <1>2, <2>2, <3>1, LevelKept
    <3>5. Precedence(tokens[m.op]) >= 11
      BY <2>3, <2>5, <3>1, <3>2, <3>3, <3>4 DEF ItemAt, LoopAt
    <3>6. Precedence(tokens[m.op]) \in 0..10
      BY PrecedenceRange
    <3> QED
      BY <3>5, <3>6
  <2> QED
    BY <2>1, <2>2, <2>4, <2>5 DEF TopAt
<1> QED
  BY <1>4, <1>6, <1>8, <1>9, GroupsLevel

\* Levels are numbers.
LEMMA LevelType ==
  ASSUME NEW st \in Seq(Items), NEW k \in 1..Len(st)
  PROVE  LevelAt(st, k) \in Nat
<1>1. st[k].arg \in Nat
  <2>1. st[k] \in Items
    OBVIOUS
  <2> QED
    BY <2>1, ItemTypes
<1>2. Precedence(tokens[st[k].arg]) \in 0..10
  BY PrecedenceRange
<1> QED
  BY <1>1, <1>2 DEF LevelAt

\* The items of a loop that has an operator ahead: the operator, its right operand,
\* the expression to build, and the loop again.
Continues(q, s, p, pr) ==
  /\ q \in Seq(Items) /\ Len(q) = 4 /\ q[4] = s /\ pr = Precedence(tokens[p])
  /\ q[1].symbol = "want" /\ \A t \in q[1].set : t = tokens[p]
  /\ q[2].symbol = "expression" /\ q[2].arg = pr + 1
  /\ q[3].symbol = "binary" /\ q[3].arg = p /\ q[3].from = s.from

\* What a loop bears, it bears when it has an operator ahead.
LEMMA ContinuesBorne ==
  ASSUME tokens \in Seq(Kinds),
         NEW st \in Seq(Items), st # <<>>, NEW dp, NEW ns, NEW p \in Nat \ {0}, Grouping(st, dp, ns, p),
         st[1].symbol = "operators", NEW pr, st[1].arg <= pr,
         NEW q, Continues(q, st[1], p, pr),
         NEW st2, Puts(st2, q, st, 1)
  PROVE  /\ Apart(st, q, 1) /\ Awaited(st, q, 1)
         /\ \A x \in 1..Len(q) : NoBracket(q[x])
         /\ BearsLevel(st, dp, q, st2, Nesting(p - 1))
         /\ Weight(tokens[p]) = 0 /\ pr \in Nat /\ st[1].arg \in Nat
<1> DEFINE d == Nesting(p - 1)
           s == st[1]
<1>1. /\ q \in Seq(Items) /\ Len(q) = 4 /\ q[4] = s /\ pr = Precedence(tokens[p])
      /\ q[1].symbol = "want" /\ (\A t \in q[1].set : t = tokens[p])
      /\ q[2].symbol = "expression" /\ q[2].arg = pr + 1
      /\ q[3].symbol = "binary" /\ q[3].arg = p /\ q[3].from = s.from
  BY DEF Continues
<1>2. \A x \in 1..Len(q) : x = 1 \/ x = 2 \/ x = 3 \/ x = 4
  BY <1>1
<1>3. s.symbol \notin Turning /\ s.symbol # "want" /\ s.symbol # "binary" /\ s.symbol \in Loops
  BY ExpressionSymbols
<1>4. d \in Int
  BY <1>3, LevelTop
<1>5. /\ \A k \in 2..Len(st) : k \in 1..Len(st) /\ ItemAt(st, dp, ns, p, k)
      /\ dp[1] = d /\ p \in Nat /\ 1 \in 1..Len(st) /\ Len(st) \in Nat
      /\ \A k \in 2..Len(st) : st[k].symbol \in Loops =>
           Over(st[1], dp[1], dp[k], LevelAt(st, k)) /\ dp[k] \in Int
  BY BelowTop DEF d
<1>6. s.arg \in Nat \ {0} /\ pr \in 0..10
  <2>1. s \in Items
    BY <1>5
  <2> QED
    BY <1>1, <2>1, ItemTypes, PrecedenceRange, ExpressionSymbols
<1>7. Weight(tokens[p]) = 0
  <2>1. pr >= 1
    BY <1>6
  <2> QED
    BY <1>1, <2>1, PrecedenceRange
<1>8. \A x \in 1..Len(q) : NoBracket(q[x])
  <2>1. NoBracket(q[1])
    <3>1. \A w : w = 0 => \A t \in q[1].set : Weight(t) = w
      BY <1>1, <1>7
    <3> QED
      BY <1>1, <3>1, Zenon DEF NoBracket, Effect
  <2> QED
    BY <1>1, <1>2, <2>1, NoBracketFacts, ExpressionSymbols
<1>9. Apart(st, q, 1)
  <2> SUFFICES ASSUME NEW k \in (1 + 1)..Len(st), NEW x \in 1..Len(q), q[x].symbol \in Loops \cup Rewinders
               PROVE  Before(st[k], q[x].from)
    BY DEF Apart
  <2>1. q[x].from = s.from
    BY <1>1, <1>2, ExpressionSymbols
  <2>2. ItemAt(st, dp, ns, p, k) /\ 1 \in 1..(k - 1)
    BY <1>5
  <2>3. Before(st[k], st[1].from)
    BY <1>3, <2>2 DEF ItemAt
  <2> QED
    BY <2>1, <2>3
<1>10. Awaited(st, q, 1)
  <2> SUFFICES ASSUME 2 \in 1..Len(st), st[2].symbol = "binary"
               PROVE  s.symbol \in Leveled /\ s.arg = Precedence(tokens[st[2].arg]) + 1
    BY <1>1 DEF Awaited
  <2>1. BinaryAt(st, ns, p, 2) /\ 2 > 1 /\ 2 - 1 = 1
    BY <1>5 DEF ItemAt
  <2> QED
    BY <2>1, ExpressionSymbols DEF BinaryAt
<1>11. ASSUME NEW k \in 2..Len(st), st[k].symbol \in Loops
       PROVE  /\ LevelAt(st2, k - 1 + Len(q)) = LevelAt(st, k)
              /\ \A x \in 1..Len(q) : Over(q[x], d, dp[k], LevelAt(st2, k - 1 + Len(q)))
  <2>1. Len(q) # 0 /\ q[Len(q)].symbol # "binary"
    BY <1>1, <1>3
  <2>2. LevelAt(st2, k - 1 + Len(q)) = LevelAt(st, k) /\ LevelAt(st, k) \in Nat
    BY <1>1, <1>3, <1>5, <2>1, LevelKept, LevelType
  <2> DEFINE l == LevelAt(st2, k - 1 + Len(q))
  <2>3. Over(s, d, dp[k], l) /\ l \in Nat
    BY <1>5, <1>11, <2>2
  <2> HIDE DEF l
  <2>4. d >= dp[k] /\ (d > dp[k] \/ s.arg >= l)
    BY <1>3, <2>3, ExpressionSymbols DEF Over
  <2>5. d > dp[k] \/ (pr >= l /\ pr + 1 >= l)
    BY <1>6, <2>3, <2>4
  <2>6. Over(q[1], d, dp[k], l)
    BY <1>1, <2>4, ExpressionSymbols DEF Over
  <2>7. Over(q[2], d, dp[k], l)
    BY <1>1, <2>4, <2>5, ExpressionSymbols DEF Over
  <2>8. Over(q[3], d, dp[k], l)
    BY <1>1, <2>4, <2>5, ExpressionSymbols DEF Over
  <2>9. \A x \in 1..Len(q) : Over(q[x], d, dp[k], l)
    BY <1>1, <1>2, <2>3, <2>6, <2>7, <2>8
  <2> QED
    BY <2>2, <2>9 DEF l
<1>12. BearsLevel(st, dp, q, st2, d)
  BY <1>11 DEF BearsLevel
<1> QED
  BY <1>6, <1>7, <1>8, <1>9, <1>10, <1>12

\* A loop takes the operator ahead, with an operand that binds more tightly.
LEMMA LoopContinues ==
  ASSUME tokens \in Seq(Kinds),
         NEW st \in Seq(Items), st # <<>>, NEW dp, NEW ns, NEW p \in Nat \ {0}, Grouping(st, dp, ns, p),
         st[1].symbol = "operators", NEW pr, st[1].arg <= pr,
         NEW q, Continues(q, st[1], p, pr),
         NEW st2, Puts(st2, q, st, 1)
  PROVE  \E dp2 : Grouping(st2, dp2, ns, p)
<1> DEFINE d == Nesting(p - 1)
           s == st[1]
<1>1. /\ q \in Seq(Items) /\ Len(q) = 4 /\ q[4] = s /\ pr = Precedence(tokens[p])
      /\ q[1].symbol = "want"
      /\ q[2].symbol = "expression" /\ q[2].arg = pr + 1
      /\ q[3].symbol = "binary" /\ q[3].arg = p /\ q[3].from = s.from
  BY DEF Continues
<1>2. \A x \in 1..Len(q) : x = 1 \/ x = 2 \/ x = 3 \/ x = 4
  BY <1>1
<1>3. s.symbol \notin Turning /\ s.symbol # "want" /\ s.symbol # "binary" /\ s.symbol \in Loops /\ s.symbol \in Leveled
  BY ExpressionSymbols
<1>4. d \in Int
  BY <1>3, LevelTop
<1>5. ItemAt(st, dp, ns, p, 1) /\ TopAt(st, dp, ns, p) /\ dp[1] = d /\ p \in Nat /\ 1 \in 1..Len(st)
  BY BelowTop DEF d
<1>6. \A m \in ns : m.from \in Nat /\ m.op \in Nat /\ m.to \in Nat /\ m.op <= m.to /\ m.to < p
  BY <1>5, GroupingFacts
<1>7. /\ Apart(st, q, 1) /\ Awaited(st, q, 1)
      /\ \A x \in 1..Len(q) : NoBracket(q[x])
      /\ BearsLevel(st, dp, q, st2, Nesting(p - 1))
      /\ Weight(tokens[p]) = 0 /\ pr \in Nat /\ s.arg \in Nat
  BY ContinuesBorne
<1>8. PICK dp2 : ReplacedLevel(st2, dp2, q, d, ns, p)
  BY <1>1, <1>3, <1>7, LevelBelow
<1>9. /\ \A x \in 1..Len(q) : dp2[x] = d /\ st2[x] = q[x] /\ x \in 1..Len(st2)
  BY <1>8 DEF ReplacedLevel, Puts
<1>10. 1 \in 1..Len(q) /\ 2 \in 1..Len(q) /\ 3 \in 1..Len(q) /\ 4 \in 1..Len(q)
  BY <1>1
<1>11. st2[1] = q[1] /\ st2[2] = q[2] /\ st2[3] = q[3] /\ st2[4] = s /\ 4 \in 1..Len(st2)
  BY <1>1, <1>9, <1>10
<1>12. s.from <= p /\ Nesting(s.from - 1) = d /\ s.from \in Nat \ {0}
  <2>1. s.from <= p /\ Nesting(s.from - 1) = d
    BY <1>3, <1>5 DEF ItemAt, LoopAt
  <2>2. s \in Items
    BY <1>5
  <2> QED
    BY <2>1, <2>2, ItemTypes
<1>13. Nesting(p) = d
  <2>1. p - 1 \in Nat /\ (p - 1) + 1 = p
    BY <1>5
  <2>2. Nesting(p) = Nesting(p - 1) + Weight(tokens[p])
    BY <2>1, NestingNext
  <2> QED
    BY <1>4, <1>7, <2>2
<1>14. Base(q[3]) = p + 1 /\ Base(q[4]) = s.from /\ (p + 1) - 1 = p
  BY <1>1, <1>3, <1>5 DEF Base
<1>15. \A m \in ns : m.op >= s.from /\ Nesting(m.op) <= d =>
         Precedence(tokens[m.op]) >= s.arg /\ Precedence(tokens[m.op]) >= pr
  <2>1. Base(s) = s.from
    BY <1>1, <1>14
  <2>2. LevelAt(st, 1) = s.arg
    <3>1. ~(1 > 1)
      OBVIOUS
    <3> QED
      BY <1>3, <3>1 DEF LevelAt
  <2>3. \A m \in ns : m.op >= s.from /\ Nesting(m.op) <= d => Precedence(tokens[m.op]) >= s.arg
    BY <1>3, <1>5, <2>1, <2>2 DEF ItemAt, LoopAt
  <2>4. \A m \in ns : m.op >= s.from /\ Nesting(m.op) <= d => Precedence(tokens[m.op]) >= pr
    BY <1>1, <1>5 DEF TopAt
  <2> QED
    BY <2>3, <2>4
<1>16. LevelAt(st2, 3) = pr + 1 /\ LevelAt(st2, 4) = s.arg
  <2>1. 4 > 1 /\ 4 - 1 = 3
    OBVIOUS
  <2>2. LevelAt(st2, 3) = pr + 1
    BY <1>1, <1>11 DEF LevelAt
  <2>3. LevelAt(st2, 4) = s.arg
    BY <1>1, <1>3, <1>11, <2>1 DEF LevelAt
  <2> QED
    BY <2>2, <2>3
<1> HIDE DEF d
<1>17. \A l : Over(q[1], d, d, l)
  <2>1. d >= d
    BY <1>4
  <2> QED
    BY <1>1, <2>1, ExpressionSymbols DEF Over
<1>18. \A l \in Nat : l <= pr + 1 => Over(q[2], d, d, l)
  <2>1. d >= d
    BY <1>4
  <2>2. \A l \in Nat : l <= pr + 1 => q[2].arg >= l
    BY <1>1, <1>7
  <2> QED
    BY <1>1, <2>1, <2>2, ExpressionSymbols DEF Over
<1>19. Over(q[3], d, d, s.arg)
  <2>1. d >= d /\ pr >= s.arg
    BY <1>4, <1>7
  <2> QED
    BY <1>1, <2>1, ExpressionSymbols DEF Over
<1>20. Over(q[2], d, d, pr + 1) /\ Over(q[2], d, d, s.arg)
  <2>1. pr + 1 \in Nat /\ pr + 1 <= pr + 1 /\ s.arg <= pr + 1
    BY <1>7
  <2> QED
    BY <1>7, <1>18, <2>1
<1>21. ItemAt(st2, dp2, ns, p, 1)
  <2>1. \A j \in 1..(1 - 1) : FALSE
    OBVIOUS
  <2>2. q[1].symbol \notin Loops /\ q[1].symbol # "binary" /\ q[1].symbol \notin Rewinders
    BY <1>1, ExpressionSymbols
  <2> QED
    BY <1>11, <2>1, <2>2 DEF ItemAt
<1>22. ItemAt(st2, dp2, ns, p, 2)
  <2>1. q[2].symbol \notin Loops /\ q[2].symbol # "binary" /\ q[2].symbol # "operators" /\ q[2].symbol \notin Rewinders
    BY <1>1, ExpressionSymbols
  <2>2. \A f : Before(q[2], f)
    BY <2>1 DEF Before
  <2> QED
    BY <1>11, <2>1, <2>2 DEF ItemAt
<1>23. ItemAt(st2, dp2, ns, p, 3)
  <2>1. \A j \in 1..(3 - 1) : j = 1 \/ j = 2
    OBVIOUS
  <2>2. LoopAt(st2, dp2, ns, p, 3)
    <3>1. q[3].from <= p /\ Nesting(q[3].from - 1) = d /\ Nesting(Base(q[3]) - 1) = d
      BY <1>1, <1>12, <1>13, <1>14
    <3>2. \A m \in ns : ~(m.op >= p + 1)
      BY <1>5, <1>6
    <3>3. \A m \in ns : m.op >= Base(q[3]) /\ Nesting(m.op) <= d => Precedence(tokens[m.op]) >= LevelAt(st2, 3)
      BY <1>14, <3>2
    <3>4. \A j \in 1..(3 - 1) : Over(q[j], d, d, LevelAt(st2, 3))
      BY <1>16, <1>17, <1>20, <2>1
    <3> QED
      BY <1>1, <1>4, <1>7, <1>9, <1>10, <3>1, <3>3, <3>4, LoopAmong
  <2>3. BinaryAt(st2, ns, p, 3)
    <3>1. 3 + 1 = 4 /\ 3 - 1 = 2
      OBVIOUS
    <3>2. p \in s.from..p
      BY <1>5, <1>12
    <3>3. \A m \in ns : p \notin m.from..m.to
      BY <1>5, <1>6
    <3>4. \A m \in ns : m.op \in s.from..(p - 1) => m.op >= s.from
      BY <1>6, <1>12
    <3>5. \A m \in ns : m.op \in s.from..(p - 1) /\ Nesting(m.op) <= d => Precedence(tokens[m.op]) >= pr
      BY <1>15, <3>4
    <3>6. q[2].symbol \in Leveled
      BY <1>1, ExpressionSymbols
    <3> DEFINE b == q[3]
               x == q[2]
    <3>7. /\ b.arg = p /\ b.from = s.from /\ s.symbol = "operators" /\ Precedence(tokens[p]) = pr
          /\ x.symbol \in Leveled /\ x.arg = pr + 1
          /\ st2[3] = b /\ st2[2] = x /\ st2[4] = s
      BY <1>1, <1>11, <3>6
    <3> HIDE DEF b, x
    <3> QED
      BY <1>1, <1>11, <1>12, <3>1, <3>2, <3>3, <3>5, <3>7 DEF BinaryAt
  <2>4. q[3].symbol \notin Rewinders
    BY <1>1, ExpressionSymbols
  <2>5. \A j \in 1..(3 - 1) : st2[j].symbol \notin Loops \cup Rewinders
    BY <1>1, <1>11, <2>1, ExpressionSymbols
  <2> QED
    BY <1>11, <2>2, <2>3, <2>4, <2>5 DEF ItemAt
<1>24. ItemAt(st2, dp2, ns, p, 4)
  <2>1. \A j \in 1..(4 - 1) : j = 1 \/ j = 2 \/ j = 3
    OBVIOUS
  <2>2. LoopAt(st2, dp2, ns, p, 4)
    <3>1. q[4].from <= p /\ Nesting(q[4].from - 1) = d /\ Nesting(Base(q[4]) - 1) = d
      BY <1>1, <1>12, <1>14
    <3>2. \A m \in ns : m.op >= Base(q[4]) /\ Nesting(m.op) <= d => Precedence(tokens[m.op]) >= LevelAt(st2, 4)
      BY <1>14, <1>15, <1>16
    <3>3. \A j \in 1..(4 - 1) : Over(q[j], d, d, LevelAt(st2, 4))
      BY <1>16, <1>17, <1>19, <1>20, <2>1
    <3> QED
      BY <1>1, <1>4, <1>7, <1>9, <1>10, <3>1, <3>2, <3>3, LoopAmong
  <2>3. s.symbol \notin Rewinders
    BY ExpressionSymbols
  <2>4. ASSUME NEW j \in 1..(4 - 1), st2[j].symbol \in Loops \cup Rewinders PROVE Before(st2[4], st2[j].from)
    <3>1. j = 3
      BY <1>1, <1>11, <2>1, <2>4, ExpressionSymbols
    <3>2. st2[j].from = s.from /\ s.from <= s.from
      BY <1>1, <1>11, <1>12, <3>1
    <3> QED
      BY <1>3, <1>11, <3>2 DEF Before
  <2> QED
    BY <1>3, <1>11, <2>2, <2>3, <2>4 DEF ItemAt
<1>25. TopAt(st2, dp2, ns, p)
  BY <1>1, <1>11 DEF TopAt
<1>26. \A x \in 1..Len(q) : ItemAt(st2, dp2, ns, p, x)
  BY <1>2, <1>21, <1>22, <1>23, <1>24
<1> QED
  BY <1>8, <1>25, <1>26, GroupsLevel

\* parse_expression, its loop, and what else has no token or result at hand.
LEMMA ExpandLeveledGroups ==
  ASSUME ParserInv, outcome = "parsing", NEW dp, Grouping(stack, dp, nodes, pos), Expand, Top.symbol \in Leveled
  PROVE  \E dp2 : Grouping(stack', dp2, nodes', pos')
<1>1. /\ stack # <<>> /\ pos' = pos /\ stack' = Production(Top) \o Tail(stack) /\ nodes' = nodes
  BY Zenon DEF Expand, lexerVars
<1>2. AtToken /\ Top \in Items /\ stack \in Seq(Items) /\ tokens \in Seq(Kinds)
  BY <1>1, ParserFacts, Zenon DEF AtToken
<1>3. pos \in Nat \ {0} /\ Peek(0) = tokens[pos]
  BY <1>2 DEF AtToken, Peek
<1>4. Top = stack[1]
  BY Zenon DEF Top
<1>5. Operators(Top) \in Seq(Items) /\ ExpressionFrom(Top.arg) \in Seq(Items)
  BY <1>2, OperatorsGiveItems
<1>6. CASE Top.symbol = "expression"
  <2> DEFINE u == P("unary")
             o == PArg("operators", Top.arg)
             q == ExpressionFrom(Top.arg)
             st2 == q \o Tail(stack)
  <2>1. Production(Top) = q
    BY Zenon, <1>6 DEF Production
  <2>2. q = <<u, o>>
    BY Zenon DEF ExpressionFrom
  <2>3. Puts(st2, <<u, o>>, stack, 1)
    <3>1. q \in Seq(Items)
      BY <1>5
    <3> HIDE DEF q, u, o
    <3>2. Puts(q \o Tail(stack), q, stack, 1)
      BY <1>1, <1>2, <3>1, PutsOnTail
    <3> QED
      BY <2>2, <3>2
  <2>4. /\ u.symbol = "unary" /\ o.symbol = "operators" /\ o.arg = stack[1].arg /\ o.from = pos
    BY <1>4 DEF P, PArg, Item
  <2>5. u \in Items /\ o \in Items
    <3>1. \A i \in 1..Len(q) : q[i] \in Items
      BY <1>5
    <3>2. Len(<<u, o>>) = 2 /\ <<u, o>>[1] = u /\ <<u, o>>[2] = o
      OBVIOUS
    <3> HIDE DEF q, u, o
    <3>3. Len(q) = 2 /\ q[1] = u /\ q[2] = o
      BY <2>2, <3>2
    <3> QED
      BY <3>1, <3>3
  <2> HIDE DEF u, o, q, st2
  <2>6. \E dp2 : Grouping(st2, dp2, nodes, pos)
    BY <1>1, <1>2, <1>3, <1>4, <1>6, <2>3, <2>4, <2>5, ExpressionKeeps
  <2> QED
    BY <1>1, <2>1, <2>6 DEF st2
<1>7. CASE Top.symbol = "operators"
  <2> DEFINE pr == Precedence(Peek(0))
             q == Operators(Top)
             st2 == q \o Tail(stack)
  <2>1. Production(Top) = q
    BY Zenon, <1>7 DEF Production
  <2>2. pr \in Nat /\ Top.arg \in Nat /\ pr = Precedence(tokens[pos])
    BY <1>2, <1>3, ItemTypes, PrecedenceFacts
  <2>3. Puts(st2, q, stack, 1)
    <3>1. q \in Seq(Items)
      BY <1>5
    <3> HIDE DEF q
    <3> QED
      BY <1>1, <1>2, <3>1, PutsOnTail
  <2>4. CASE pr < Top.arg
    <3>1. q = <<>>
      BY Zenon, <2>4 DEF Operators, Nothing
    <3> HIDE DEF q, pr, st2
    <3>2. Puts(st2, <<>>, stack, 1)
      BY <2>3, <3>1
    <3>3. Precedence(tokens[pos]) < stack[1].arg
      BY <1>4, <2>2, <2>4
    <3>4. \E dp2 : Grouping(st2, dp2, nodes, pos)
      BY <1>1, <1>2, <1>3, <1>4, <1>7, <3>2, <3>3, LoopEnds
    <3> QED
      BY <1>1, <2>1, <3>4 DEF st2
  <2>5. CASE ~(pr < Top.arg)
    <3> DEFINE w == Seen({Peek(0)}, 0)
               x == PArg("expression", pr + 1)
               b == [PArg("binary", pos) EXCEPT !.from = Top.from]
    <3>1. q = <<w, x, b, Top>>
      BY Zenon, <2>5 DEF Operators
    <3>2. /\ w.symbol = "want" /\ (\A t \in w.set : t = tokens[pos])
          /\ x.symbol = "expression" /\ x.arg = pr + 1
          /\ b.symbol = "binary" /\ b.arg = pos /\ b.from = Top.from
      BY <1>3 DEF Seen, PArg, Item
    <3>3. q \in Seq(Items)
      BY <1>5
    <3> HIDE DEF w, x, b, q, pr, st2
    <3>4. Len(<<w, x, b, Top>>) = 4 /\ <<w, x, b, Top>>[1] = w /\ <<w, x, b, Top>>[2] = x
          /\ <<w, x, b, Top>>[3] = b /\ <<w, x, b, Top>>[4] = Top
      OBVIOUS
    <3>5. Len(q) = 4 /\ q[1] = w /\ q[2] = x /\ q[3] = b /\ q[4] = stack[1]
      BY <1>4, <3>1, <3>4
    <3>6. Continues(q, stack[1], pos, pr)
      BY <1>4, <2>2, <3>2, <3>3, <3>5 DEF Continues
    <3>7. stack[1].arg <= pr
      BY <1>4, <2>2, <2>5
    <3>8. \E dp2 : Grouping(st2, dp2, nodes, pos)
      BY <1>1, <1>2, <1>3, <1>4, <1>7, <2>3, <3>6, <3>7, LoopContinues
    <3> QED
      BY <1>1, <2>1, <3>8 DEF st2
  <2> QED
    BY <2>4, <2>5
<1> QED
  BY <1>6, <1>7, Zenon DEF Leveled

\* A parse function is expanded.
LEMMA ExpandStepGroups ==
  ASSUME ParserInv, outcome = "parsing", NEW dp, Grouping(stack, dp, nodes, pos), Expand
  PROVE  \E dp2 : Grouping(stack', dp2, nodes', pos')
<1>1. stack # <<>> /\ Top.symbol \notin Special
  BY Zenon DEF Expand
<1>2. Top \in Items
  BY <1>1, ParserFacts
<1>3. Top.symbol \in Plain \cup Leveled
  BY <1>1, <1>2, ItemTypes
<1> QED
  BY <1>3, ExpandPlainGroups, ExpandLeveledGroups, Zenon

\* What an operator, whose right operand ends before p, has read.
HasRead(b, ns, p, d, pr) ==
  /\ b.from \in Nat \ {0} /\ b.arg \in Nat /\ b.from <= b.arg /\ b.arg < p
  /\ Nesting(b.arg) = d /\ Nesting(b.from - 1) = d
  /\ \A m \in ns : m.op \in b.from..(b.arg - 1) /\ Nesting(m.op) <= d => Precedence(tokens[m.op]) >= pr
  /\ \A m \in ns : m.op >= b.arg + 1 /\ Nesting(m.op) <= d => Precedence(tokens[m.op]) >= pr + 1
  /\ \A m \in ns : b.arg \notin m.from..m.to

\* An expression is built once its operands have been read.
LEMMA OperandsRead ==
  ASSUME NEW st \in Seq(Items), st # <<>>, NEW dp, NEW ns, NEW p \in Nat \ {0}, Grouping(st, dp, ns, p),
         st[1].symbol = "binary", NEW pr, pr = Precedence(tokens[st[1].arg])
  PROVE  /\ HasRead(st[1], ns, p, Nesting(p - 1), pr)
         /\ 2 \in 2..Len(st) /\ st[2].symbol = "operators" /\ st[2].from = st[1].from /\ st[2].arg <= pr
         /\ Precedence(tokens[p]) <= pr /\ dp[2] = Nesting(p - 1) /\ pr \in 0..10 /\ Nesting(p - 1) \in Int
<1> DEFINE b == st[1]
           d == Nesting(p - 1)
<1>1. b.symbol \notin Turning /\ b.symbol # "want" /\ b.symbol \in Loops
  BY ExpressionSymbols
<1>2. ItemAt(st, dp, ns, p, 1) /\ TopAt(st, dp, ns, p) /\ dp[1] = d /\ p \in Nat /\ 1 \in 1..Len(st) /\ Len(st) \in Nat
  BY BelowTop DEF d
<1>3. LoopAt(st, dp, ns, p, 1) /\ BinaryAt(st, ns, p, 1)
  BY <1>1, <1>2 DEF ItemAt
<1>4. b.from \in Nat \ {0} /\ b.arg \in Nat
  <2>1. b \in Items
    BY <1>2
  <2> QED
    BY <2>1, ItemTypes
<1>5. d \in Int /\ (LoopsIn(st) => dp[2] = d)
  BY <1>1, LevelTop
<1>6. Base(b) = b.arg + 1 /\ (b.arg + 1) - 1 = b.arg /\ LevelAt(st, 1) = pr + 1
  BY <1>4 DEF Base, LevelAt
<1> HIDE DEF d
<1>7. b.arg \in b.from..p /\ b.arg # p
  BY <1>1, <1>3 DEF BinaryAt
<1>8. Nesting(b.arg) = d /\ Nesting(b.from - 1) = d
  BY <1>2, <1>3, <1>6 DEF LoopAt
<1>9. 1 + 1 = 2 /\ 2 \in 1..Len(st) /\ st[2].symbol = "operators" /\ st[2].from = b.from /\ st[2].arg <= pr
  BY <1>3 DEF BinaryAt
<1>10. \A m \in ns : m.op \in b.from..(b.arg - 1) /\ Nesting(m.op) <= d => Precedence(tokens[m.op]) >= pr
  BY <1>3, <1>8 DEF BinaryAt
<1>11. \A m \in ns : m.op >= b.arg + 1 /\ Nesting(m.op) <= d => Precedence(tokens[m.op]) >= pr + 1
  BY <1>2, <1>3, <1>6 DEF LoopAt
<1>12. \A m \in ns : b.arg \notin m.from..m.to
  BY <1>3 DEF BinaryAt
<1>13. HasRead(b, ns, p, d, pr)
  <2>1. b.from <= b.arg /\ b.arg < p
    BY <1>2, <1>4, <1>7
  <2> QED
    BY <1>4, <1>8, <1>10, <1>11, <1>12, <2>1 DEF HasRead
<1>14. 2 \in 2..Len(st)
  BY <1>2, <1>9
<1>15. dp[2] = d
  BY <1>5, <1>9, <1>14, ExpressionSymbols DEF LoopsIn
<1>16. Precedence(tokens[p]) <= pr /\ pr \in 0..10
  BY <1>2, PrecedenceRange DEF TopAt
<1> QED
  BY <1>5, <1>9, <1>13, <1>14, <1>15, <1>16 DEF d

\* The binary expression that is built.
Built(n, b, p) == n = [from |-> b.from, op |-> b.arg, to |-> p - 1]

GroupedIn(ns) ==
  \A n, m \in ns :
    /\ Outside(m.op, n.from, n.op - 1) => Precedence(tokens[m.op]) >= Precedence(tokens[n.op])
    /\ Outside(m.op, n.op + 1, n.to) => Precedence(tokens[m.op]) > Precedence(tokens[n.op])

\* It groups with those that have been built.
LEMMA BuiltGroups ==
  ASSUME NEW p \in Nat \ {0}, NEW ns, \A m \in ns : NodeAt(m, p), GroupedIn(ns),
         NEW b, NEW d, NEW pr, pr = Precedence(tokens[b.arg]), HasRead(b, ns, p, d, pr),
         NEW n, Built(n, b, p)
  PROVE  GroupedIn(ns \cup {n}) /\ NodeAt(n, p)
<1>1. n.from = b.from /\ n.op = b.arg /\ n.to = p - 1
  BY DEF Built
<1>2. /\ b.from \in Nat \ {0} /\ b.arg \in Nat /\ b.from <= b.arg /\ b.arg < p
      /\ Nesting(b.arg) = d /\ Nesting(b.from - 1) = d
      /\ \A m \in ns : m.op \in b.from..(b.arg - 1) /\ Nesting(m.op) <= d => Precedence(tokens[m.op]) >= pr
      /\ \A m \in ns : m.op >= b.arg + 1 /\ Nesting(m.op) <= d => Precedence(tokens[m.op]) >= pr + 1
      /\ \A m \in ns : b.arg \notin m.from..m.to
  BY DEF HasRead
<1>3. \A m \in ns : m.from \in Nat /\ m.op \in Nat /\ m.to \in Nat /\ m.from <= m.op /\ m.op <= m.to
  BY DEF NodeAt, Nodes
<1>4. \A t : Precedence(t) \in 0..10
  BY PrecedenceRange
<1>5. \A i, f, g : Outside(i, f, g) => i \in f..g
  BY DEF Outside
<1>6. ASSUME NEW m \in ns
      PROVE  /\ Outside(m.op, n.from, n.op - 1) => Precedence(tokens[m.op]) >= Precedence(tokens[n.op])
             /\ Outside(m.op, n.op + 1, n.to) => Precedence(tokens[m.op]) > Precedence(tokens[n.op])
  <2>1. ASSUME Outside(m.op, b.from, b.arg - 1) PROVE Precedence(tokens[m.op]) >= pr
    <3>1. m.op \in b.from..(b.arg - 1)
      BY <1>5, <2>1
    <3>2. b.arg - 1 \in Nat
      BY <1>2, <1>3, <3>1
    <3>3. Nesting(m.op) <= d
      BY <1>2, <1>3, <2>1, <3>2, OutsideFacts
    <3> QED
      BY <1>2, <3>1, <3>3
  <2>2. ASSUME Outside(m.op, b.arg + 1, p - 1) PROVE Precedence(tokens[m.op]) > pr
    <3>1. m.op \in (b.arg + 1)..(p - 1)
      BY <1>5, <2>2
    <3>2. b.arg + 1 \in Nat \ {0} /\ p - 1 \in Nat /\ (b.arg + 1) - 1 = b.arg /\ m.op >= b.arg + 1
      BY <1>2, <1>3, <3>1
    <3>3. Nesting(m.op) <= Nesting((b.arg + 1) - 1)
      BY <1>3, <2>2, <3>2, OutsideFacts
    <3>4. Precedence(tokens[m.op]) >= pr + 1
      BY <1>2, <3>2, <3>3
    <3> QED
      BY <1>4, <3>4
  <2> QED
    BY <1>1, <2>1, <2>2
<1>7. ASSUME NEW m \in ns
      PROVE  ~Outside(n.op, m.from, m.op - 1) /\ ~Outside(n.op, m.op + 1, m.to)
  <2>1. b.arg \notin m.from..(m.op - 1) /\ b.arg \notin (m.op + 1)..m.to
    BY <1>2, <1>3
  <2> QED
    BY <1>1, <1>5, <2>1
<1>8. ~Outside(n.op, n.from, n.op - 1) /\ ~Outside(n.op, n.op + 1, n.to)
  <2>1. b.arg \notin b.from..(b.arg - 1) /\ b.arg \notin (b.arg + 1)..(p - 1)
    BY <1>2
  <2> QED
    BY <1>1, <1>5, <2>1
<1>9. GroupedIn(ns \cup {n})
  BY <1>6, <1>7, <1>8 DEF GroupedIn
<1>10. NodeAt(n, p)
  <2>1. b.arg \in Nat \ {0} /\ p - 1 \in Nat \ {0} /\ b.arg <= p - 1 /\ p - 1 < p
    BY <1>2
  <2>2. n \in Nodes
    BY <1>2, <2>1 DEF Nodes, Built
  <2> QED
    BY <1>1, <1>2, <2>1, <2>2 DEF NodeAt
<1> QED
  BY <1>9, <1>10

\* What is left when an expression is built, before the expression is added.
LEMMA LeftOfBinary ==
  ASSUME tokens \in Seq(Kinds),
         NEW st \in Seq(Items), st # <<>>, NEW dp, NEW ns, NEW p \in Nat \ {0}, Grouping(st, dp, ns, p),
         st[1].symbol = "binary",
         NEW st2, Puts(st2, <<>>, st, 1)
  PROVE  /\ \A k \in 2..Len(st) : LevelAt(st2, k - 1) = LevelAt(st, k)
         /\ \E dp2 : ReplacedLevel(st2, dp2, <<>>, Nesting(p - 1), ns, p)
<1> DEFINE q == <<>>
           d == Nesting(p - 1)
<1>1. q \in Seq(Items) /\ Len(q) = 0 /\ Puts(st2, q, st, 1)
  OBVIOUS
<1> HIDE DEF q
<1>2. \A x \in 1..Len(q) : FALSE
  BY <1>1
<1>3. st[1].symbol \notin Turning
  BY ExpressionSymbols
<1>4. 2 \in 2..Len(st) /\ st[2].symbol = "operators"
  BY OperandsRead
<1>5. ASSUME NEW k \in 2..Len(st) PROVE LevelAt(st2, k - 1 + Len(q)) = LevelAt(st, k)
  <2>1. CASE k # 2
    BY <1>1, <2>1, LevelKept
  <2>2. CASE k = 2
    <3>1. k - 1 + Len(q) = 1 /\ ~(1 > 1) /\ 2 - 1 = 1 /\ 1 + 1 = 2
      BY <1>1, <2>2
    <3>2. st2[2 - 1 + Len(q)] = st[2]
      BY <1>1, <1>4, <3>1 DEF Puts
    <3>3. st2[1] = st[2]
      BY <2>2, <3>1, <3>2
    <3>4. LevelAt(st2, 1) = st[2].arg
      BY <1>4, <3>1, <3>3 DEF LevelAt
    <3>5. LevelAt(st, 2) = st[2].arg
      BY <1>4, <3>1 DEF LevelAt
    <3> QED
      BY <2>2, <3>1, <3>4, <3>5
  <2> QED
    BY <2>1, <2>2
<1>6. BearsLevel(st, dp, q, st2, d)
  BY <1>2, <1>5 DEF BearsLevel
<1>7. Apart(st, q, 1) /\ Awaited(st, q, 1)
  BY <1>1, <1>2 DEF Apart, Awaited
<1> HIDE DEF d
<1>8. \E dp2 : ReplacedLevel(st2, dp2, q, d, ns, p)
  BY <1>1, <1>2, <1>3, <1>6, <1>7, LevelBelow DEF d
<1>9. \A k \in 2..Len(st) : LevelAt(st2, k - 1) = LevelAt(st, k)
  <2>1. \A k \in 2..Len(st) : k - 1 + Len(q) = k - 1
    BY <1>1
  <2> QED
    BY <1>5, <2>1
<1> QED
  BY <1>8, <1>9 DEF q, d

\* An expression is built.
LEMMA BinaryKeeps ==
  ASSUME tokens \in Seq(Kinds),
         NEW st \in Seq(Items), st # <<>>, NEW dp, NEW ns, NEW p \in Nat \ {0}, Grouping(st, dp, ns, p),
         GroupedIn(ns), st[1].symbol = "binary",
         NEW n, Built(n, st[1], p),
         NEW st2, Puts(st2, <<>>, st, 1)
  PROVE  GroupedIn(ns \cup {n}) /\ \E dp2 : Grouping(st2, dp2, ns \cup {n}, p)
<1> DEFINE d == Nesting(p - 1)
           b == st[1]
           pr == Precedence(tokens[st[1].arg])
           more == ns \cup {n}
<1>1. /\ HasRead(b, ns, p, d, pr)
      /\ 2 \in 2..Len(st) /\ st[2].symbol = "operators" /\ st[2].from = b.from /\ st[2].arg <= pr
      /\ Precedence(tokens[p]) <= pr /\ dp[2] = d /\ pr \in 0..10 /\ d \in Int
  BY OperandsRead
<1>2. \A k \in 2..Len(st) : LevelAt(st2, k - 1) = LevelAt(st, k)
  BY LeftOfBinary
<1>3. PICK dp2 : ReplacedLevel(st2, dp2, <<>>, d, ns, p)
  BY LeftOfBinary
<1>a. pr = Precedence(tokens[b.arg])
  OBVIOUS
<1> HIDE DEF d, pr
<1>4. GroupedIn(more) /\ NodeAt(n, p) /\ \A m \in ns : NodeAt(m, p)
  <2>1. \A m \in ns : NodeAt(m, p)
    BY DEF Grouping
  <2> QED
    BY <1>1, <1>a, <2>1, BuiltGroups
<1>5. /\ b.from \in Nat \ {0} /\ b.arg \in Nat /\ b.from <= b.arg /\ b.arg < p
      /\ Nesting(b.arg) = d /\ Nesting(b.from - 1) = d
      /\ \A m \in ns : m.op \in b.from..(b.arg - 1) /\ Nesting(m.op) <= d => Precedence(tokens[m.op]) >= pr
      /\ \A m \in ns : m.op >= b.arg + 1 /\ Nesting(m.op) <= d => Precedence(tokens[m.op]) >= pr + 1
      /\ \A m \in ns : b.arg \notin m.from..m.to
  BY <1>1 DEF HasRead
<1>6. n.from = b.from /\ n.op = b.arg /\ n.to = p - 1
  BY DEF Built
<1>7. DepthsOf(st2, dp2, p) /\ \A x \in 1..Len(st2) : ItemAt(st2, dp2, ns, p, x)
  <2>1. \A x \in 1..Len(<<>>) : FALSE
    OBVIOUS
  <2> QED
    BY <1>3, <2>1 DEF ReplacedLevel
<1>8. /\ \A k \in 2..Len(st) : k \in 1..Len(st) /\ ItemAt(st, dp, ns, p, k)
      /\ dp[1] = d /\ p \in Nat /\ Len(st) \in Nat
      /\ \A k \in 2..Len(st) : st[k].symbol \in Loops =>
           Over(st[1], dp[1], dp[k], LevelAt(st, k)) /\ dp[k] \in Int
  BY BelowTop DEF d
<1>9. ASSUME NEW x \in 1..Len(st2)
      PROVE  x + 1 \in 2..Len(st) /\ (x + 1) - 1 = x /\ st2[x] = st[x + 1] /\ 1 \in 1..((x + 1) - 1)
  <2>1. Len(st2) = Len(st) - 1 /\ Len(st2) \in Nat
    BY <1>8 DEF Puts
  <2>2. x + 1 \in 2..Len(st) /\ (x + 1) - 1 = x /\ (x + 1) - 1 + 0 = x /\ 1 \in 1..((x + 1) - 1)
    BY <1>8, <2>1
  <2>3. Len(<<>>) = 0 /\ 1 + 1 = 2
    OBVIOUS
  <2>4. \A k \in 2..Len(st) : st2[k - 1 + 0] = st[k]
    BY <2>3 DEF Puts
  <2>5. st2[(x + 1) - 1 + 0] = st[x + 1]
    BY <2>2, <2>4
  <2> QED
    BY <2>2, <2>5
<1>10. ASSUME NEW x \in 1..Len(st2) PROVE ItemAt(st2, dp2, more, p, x)
  <2> DEFINE k == x + 1
             item == st2[x]
  <2>1. k \in 2..Len(st) /\ k - 1 = x /\ item = st[k] /\ 1 \in 1..(k - 1)
    BY <1>9
  <2>2. ItemAt(st2, dp2, ns, p, x) /\ ItemAt(st, dp, ns, p, k)
    BY <1>7, <1>8, <2>1
  <2> HIDE DEF k
  <2>3. Before(item, b.from)
    <3>1. st[1].symbol \in Loops
      BY ExpressionSymbols
    <3> QED
      BY <2>1, <2>2, <3>1 DEF ItemAt
  <2>4. ASSUME item.symbol \in Loops PROVE LoopAt(st2, dp2, more, p, x)
    <3>1. LoopAt(st2, dp2, ns, p, x) /\ LoopAt(st, dp, ns, p, k)
      BY <2>1, <2>2, <2>4 DEF ItemAt
    <3>2. dp2[x] = dp[k] /\ dp[k] \in Int
      BY <1>8, <2>1, <2>4, <3>1 DEF LoopAt
    <3>3. Over(b, d, dp[k], LevelAt(st2, x))
      <4>1. LevelAt(st2, x) = LevelAt(st, k)
        BY <1>2, <2>1
      <4> QED
        BY <1>8, <2>1, <2>4, <4>1
    <3>4. d <= dp2[x] => pr >= LevelAt(st2, x)
      <4>1. d > dp[k] \/ pr >= LevelAt(st2, x)
        BY <1>a, <3>3, ExpressionSymbols DEF Over
      <4> QED
        BY <1>1, <3>2, <4>1
    <3>5. \A m \in more : m.op >= Base(item) /\ Nesting(m.op) <= dp2[x] =>
            Precedence(tokens[m.op]) >= LevelAt(st2, x)
      <4>1. \A m \in ns : m.op >= Base(item) /\ Nesting(m.op) <= dp2[x] =>
              Precedence(tokens[m.op]) >= LevelAt(st2, x)
        BY <3>1 DEF LoopAt
      <4>2. Nesting(n.op) <= dp2[x] => Precedence(tokens[n.op]) >= LevelAt(st2, x)
        BY <1>a, <1>5, <1>6, <3>4
      <4> QED
        BY <4>1, <4>2
    <3> QED
      BY <3>1, <3>5 DEF LoopAt
  <2>5. ASSUME item.symbol = "binary" PROVE BinaryAt(st2, more, p, x)
    <3>1. BinaryAt(st2, ns, p, x)
      BY <2>2, <2>5 DEF ItemAt
    <3>2. item.arg < b.from /\ item.arg \in Nat /\ item.from \in Nat
      <4>1. item \in Items
        BY <1>8, <2>1
      <4> QED
        BY <2>3, <2>5, <4>1, ItemTypes DEF Before
    <3>3. n.op \notin item.from..(item.arg - 1) /\ item.arg \notin n.from..n.to
      BY <1>5, <1>6, <1>8, <3>2
    <3> HIDE DEF item
    <3>4. \A m \in more : m.op \in item.from..(item.arg - 1) /\ Nesting(m.op) <= Nesting(item.from - 1) =>
            Precedence(tokens[m.op]) >= Precedence(tokens[item.arg])
      BY <3>1, <3>3 DEF BinaryAt, item
    <3>5. \A m \in more : item.arg \notin m.from..m.to
      BY <3>1, <3>3 DEF BinaryAt, item
    <3> QED
      BY <3>1, <3>4, <3>5 DEF BinaryAt, item
  <2>6. ASSUME item.symbol \in Rewinders PROVE RewinderAt(st2, more, p, x)
    <3>1. RewinderAt(st2, ns, p, x)
      BY <2>2, <2>6 DEF ItemAt
    <3>2. item.from <= b.from /\ item.from \in Nat
      <4>1. item \in Items
        BY <1>8, <2>1
      <4> QED
        BY <2>3, <2>6, <4>1, ItemTypes DEF Before
    <3>3. ~(n.from < item.from)
      BY <1>5, <1>6, <3>2
    <3> QED
      BY <3>1, <3>3 DEF RewinderAt
  <2> QED
    BY <2>2, <2>4, <2>5, <2>6 DEF ItemAt
<1>11. ASSUME st2 # <<>> PROVE TopAt(st2, dp2, more, p)
  <2>1. dp2[1] = d
    BY <1>7, <1>11 DEF DepthsOf, d
  <2>2. st2[1] = st[2]
    <3>1. 1 \in 1..Len(st2) /\ 1 + 1 = 2
      BY <1>11 DEF Puts
    <3> QED
      BY <1>9, <3>1
  <2>3. ASSUME NEW m \in more, m.op >= b.from, Nesting(m.op) <= d
        PROVE  Precedence(tokens[m.op]) >= pr
    <3>1. CASE m = n
      BY <1>1, <1>a, <1>6, <3>1
    <3>2. CASE m \in ns
      <4>1. m.from \in Nat /\ m.op \in Nat /\ m.to \in Nat /\ m.from <= m.op /\ m.op <= m.to
        BY <1>4, <3>2 DEF NodeAt, Nodes
      <4>2. b.arg \notin m.from..m.to
        BY <1>5, <3>2
      <4>3. m.op # b.arg
        BY <4>1, <4>2
      <4>4. m.op \in b.from..(b.arg - 1) \/ m.op >= b.arg + 1
        BY <1>5, <2>3, <4>1, <4>3
      <4>5. m.op \in b.from..(b.arg - 1) => Precedence(tokens[m.op]) >= pr
        BY <1>5, <2>3, <3>2
      <4>6. m.op >= b.arg + 1 => Precedence(tokens[m.op]) >= pr + 1
        BY <1>5, <2>3, <3>2
      <4>7. Precedence(tokens[m.op]) \in 0..10
        BY PrecedenceRange
      <4> QED
        BY <1>1, <4>4, <4>5, <4>6, <4>7
    <3> QED
      BY <2>3, <3>1, <3>2
  <2>4. ASSUME NEW m \in more, m.op >= b.from, Nesting(m.op) <= d
        PROVE  Precedence(tokens[m.op]) >= Precedence(tokens[p])
    <3>1. Precedence(tokens[m.op]) >= pr
      BY <2>3, <2>4
    <3>2. Precedence(tokens[m.op]) \in 0..10 /\ Precedence(tokens[p]) \in 0..10
      BY PrecedenceRange
    <3> QED
      BY <1>1, <3>1, <3>2
  <2>5. st2[1].symbol # "binary" /\ st2[1].from = b.from
    BY <1>1, <2>2
  <2> QED
    BY <2>1, <2>4, <2>5 DEF TopAt
<1>12. \A m \in more : NodeAt(m, p)
  BY <1>4
<1>13. Grouping(st2, dp2, more, p)
  BY <1>7, <1>10, <1>11, <1>12 DEF Grouping
<1> QED
  BY <1>4, <1>13

\* A binary expression is built.
LEMMA BuildBinaryGroups ==
  ASSUME ParserInv, outcome = "parsing", NEW dp, Grouping(stack, dp, nodes, pos), GroupedIn(nodes), BuildBinary
  PROVE  GroupedIn(nodes') /\ \E dp2 : Grouping(stack', dp2, nodes', pos')
<1> DEFINE n == [from |-> Top.from, op |-> Top.arg, to |-> pos - 1]
<1>1. /\ stack # <<>> /\ stack[1].symbol = "binary"
      /\ pos' = pos /\ stack' = Tail(stack) /\ nodes' = nodes \cup {n}
  BY Zenon DEF BuildBinary, Parsing, Top, lexerVars
<1>2. AtToken /\ stack \in Seq(Items) /\ tokens \in Seq(Kinds)
  BY ParserFacts, Zenon DEF AtToken
<1>3. pos \in Nat \ {0} /\ <<>> \in Seq(Items)
  BY <1>2 DEF AtToken
<1>4. Puts(Tail(stack), <<>>, stack, 1)
  BY <1>1, <1>2, <1>3, PutsOnTail
<1>5. Built(n, stack[1], pos)
  BY Zenon DEF Built, Top
<1> HIDE DEF n
<1>6. GroupedIn(nodes \cup {n}) /\ \E dp2 : Grouping(Tail(stack), dp2, nodes \cup {n}, pos)
  BY <1>1, <1>2, <1>3, <1>4, <1>5, BinaryKeeps
<1> QED
  BY <1>1, <1>6

\* What is built is never split: only going back takes expressions away.
LEMMA FewerGroup ==
  ASSUME NEW ns, NEW fewer \in SUBSET ns, GroupedIn(ns)
  PROVE  GroupedIn(fewer)
<1>1. \A m \in fewer : m \in ns
  OBVIOUS
<1> QED
  BY <1>1 DEF GroupedIn

\* A failure ends the parse, or takes back what was parsed since a target.
LEMMA FailureGroups ==
  ASSUME ParserInv, outcome = "parsing", NEW dp, Grouping(stack, dp, nodes, pos), Failure
  PROVE  \/ nodes' = nodes /\ outcome' \in {"incomplete", "rejected"}
         \/ /\ nodes' \in SUBSET nodes
            /\ \E dp2 : Grouping(stack', dp2, nodes', pos')
<1>1. CASE \E e \in {"incomplete", "rejected"} : Throw(e) /\ UNCHANGED parserVars
  BY <1>1, Zenon DEF Throw, parserVars
<1>2. CASE \E i \in 1..Len(stack) : stack[i].symbol = "assignment" /\ Rewind(i, "call statement")
  <2>1. PICK i \in 1..Len(stack) : stack[i].symbol = "assignment" /\ Rewind(i, "call statement")
    BY <1>2
  <2>2. \E dp2 : Grouping(stack', dp2, nodes', pos')
    BY <2>1, AssignmentRewinds
  <2>3. nodes' \in SUBSET nodes
    <3>1. nodes' = {m \in nodes : m.from < stack[i].from}
      BY <2>1, Zenon DEF Rewind
    <3> QED
      BY <3>1
  <2> QED
    BY <2>2, <2>3
<1>3. \/ \E e \in {"incomplete", "rejected"} : Throw(e) /\ UNCHANGED parserVars
      \/ \E i \in 1..Len(stack) : stack[i].symbol = "assignment" /\ Rewind(i, "call statement")
  BY Zenon DEF Failure
<1> QED
  BY <1>1, <1>2, <1>3

\* Every step of the parser.
LEMMA ParseGroups ==
  ASSUME ParserInv, outcome = "parsing", GroupedIn(nodes), \E dp : Grouping(stack, dp, nodes, pos), Parse
  PROVE  /\ tokens' = tokens /\ outcome' # "scanning"
         /\ GroupedIn(nodes')
         /\ outcome' = "parsing" => \E dp2 : Grouping(stack', dp2, nodes', pos')
<1>1. PICK dp : Grouping(stack, dp, nodes, pos)
  OBVIOUS
<1>2. ASSUME tokens' = tokens, outcome' # "scanning", nodes' \in SUBSET nodes,
             outcome' = "parsing" => \E dp2 : Grouping(stack', dp2, nodes', pos')
      PROVE  /\ tokens' = tokens /\ outcome' # "scanning"
             /\ GroupedIn(nodes')
             /\ outcome' = "parsing" => \E dp2 : Grouping(stack', dp2, nodes', pos')
  <2> DEFINE fewer == nodes'
  <2>1. fewer \in SUBSET nodes
    BY <1>2
  <2> HIDE DEF fewer
  <2>2. GroupedIn(fewer)
    BY <2>1, FewerGroup
  <2> QED
    BY <1>2, <2>2 DEF fewer
<1>3. CASE Match
  <2>1. tokens' = tokens /\ outcome' = outcome /\ nodes' = nodes
    BY <1>3, Zenon DEF Match, lexerVars
  <2> QED
    BY <1>1, <1>2, <1>3, <2>1, MatchGroups
<1>4. CASE Expand
  <2>1. tokens' = tokens /\ outcome' = outcome /\ nodes' = nodes
    BY <1>4, Zenon DEF Expand, lexerVars
  <2> QED
    BY <1>1, <1>2, <1>4, <2>1, ExpandStepGroups
<1>5. CASE Return
  <2>1. tokens' = tokens /\ outcome' = outcome /\ nodes' = nodes
    BY <1>5, Zenon DEF Return, lexerVars
  <2> QED
    BY <1>1, <1>2, <1>5, <2>1, ReturnGroups
<1>6. CASE BuildBinary
  <2>1. tokens' = tokens /\ outcome' = outcome
    BY <1>6, Zenon DEF BuildBinary, lexerVars
  <2> QED
    BY <1>1, <1>6, <2>1, BuildBinaryGroups
<1>7. ASSUME NEW i, NEW symbol, Rewind(i, symbol)
      PROVE  tokens' = tokens /\ outcome' = outcome /\ nodes' \in SUBSET nodes
  <2>1. tokens' = tokens /\ outcome' = outcome /\ nodes' = {m \in nodes : m.from < stack[i].from}
    BY <1>7, Zenon DEF Rewind, lexerVars
  <2> QED
    BY <2>1
<1>8. CASE Assignment
  <2>1. tokens' = tokens /\ outcome' = outcome /\ nodes' \in SUBSET nodes
    <3>1. \/ UNCHANGED <<lexerVars, pos, result, nodes>>
          \/ Rewind(1, "call statement")
      BY <1>8, Zenon DEF Assignment
    <3> QED
      BY <1>7, <3>1 DEF lexerVars
  <2> QED
    BY <1>1, <1>2, <1>8, <2>1, AssignmentGroups
<1>9. CASE ExternalCall
  <2>1. tokens' = tokens /\ outcome' = outcome /\ nodes' \in SUBSET nodes
    <3>1. \/ UNCHANGED <<lexerVars, pos, result, nodes>>
          \/ Rewind(1, "named")
      BY <1>9, Zenon DEF ExternalCall
    <3> QED
      BY <1>7, <3>1 DEF lexerVars
  <2> QED
    BY <1>1, <1>2, <1>9, <2>1, ExternalCallGroups
<1>10. CASE Failure
  <2>1. tokens' = tokens /\ outcome' # "scanning"
    <3>1. \/ \E e \in {"incomplete", "rejected"} : Throw(e) /\ UNCHANGED parserVars
          \/ \E i \in 1..Len(stack) : Rewind(i, "call statement")
      BY Zenon, <1>10 DEF Failure
    <3> QED
      BY <1>7, <3>1 DEF Throw
  <2>2. \/ nodes' = nodes /\ outcome' \in {"incomplete", "rejected"}
        \/ /\ nodes' \in SUBSET nodes
           /\ \E dp2 : Grouping(stack', dp2, nodes', pos')
    BY <1>1, <1>10, FailureGroups
  <2> QED
    BY <1>2, <2>1, <2>2
<1>11. CASE Accept
  <2>1. tokens' = tokens /\ outcome' = "accepted" /\ nodes' = nodes
    BY <1>11, Zenon DEF Accept, Throw, parserVars
  <2> QED
    BY <1>2, <2>1
<1> QED
  BY <1>3, <1>4, <1>5, <1>6, <1>8, <1>9, <1>10, <1>11 DEF Parse

\* What is left to parse fits the brackets and the operators that have been read.
Fitted == \E dp : Grouping(stack, dp, nodes, pos)
GroupInv ==
  /\ OperatorsGroup
  /\ outcome = "scanning" => nodes = {}
  /\ outcome = "parsing" => Fitted

\* A parser that has not started has read no operator.
LEMMA StartFits ==
  ASSUME stack = <<Start>>, pos = 1, nodes = {}
  PROVE  Fitted /\ OperatorsGroup
<1> DEFINE dp == <<Nesting(0)>>
<1>1. Nesting(0) \in Int
  BY NestingNext
<1>2. dp \in Seq(Int) /\ Len(dp) = 1 /\ dp[1] = Nesting(0)
  BY <1>1
<1> HIDE DEF dp
<1>3. Len(stack) = 1 /\ stack[1] = Start /\ stack # <<>>
  OBVIOUS
<1>4. Start.symbol = "module"
  BY DEF Start
<1>5. "module" \notin Loops \cup Rewinders /\ "module" # "binary" /\ "module" # "operators"
  BY Zenon DEF Loops, Rewinders
<1>6. DepthsOf(stack, dp, pos)
  BY <1>2, <1>3 DEF DepthsOf
<1>7. \A k \in 1..Len(stack) : ItemAt(stack, dp, nodes, pos, k)
  <2>1. \A k \in 1..Len(stack) : k = 1
    BY <1>3
  <2>2. \A j \in 1..(1 - 1) : FALSE
    OBVIOUS
  <2> QED
    BY <1>3, <1>4, <1>5, <2>1, <2>2 DEF ItemAt
<1>8. TopAt(stack, dp, nodes, pos)
  BY <1>3, <1>4, <1>5 DEF TopAt
<1>9. Grouping(stack, dp, nodes, pos)
  BY <1>6, <1>7, <1>8 DEF Grouping
<1> QED
  BY <1>9 DEF Fitted, OperatorsGroup

\* It is said of the tokens alone, which the parser does not change.
LEMMA TokensStay ==
  ASSUME tokens' = tokens
  PROVE  /\ GroupedIn(nodes') => OperatorsGroup'
         /\ (\E dp : Grouping(stack', dp, nodes', pos')) => Fitted'
<1>1. GroupedIn(nodes') => OperatorsGroup'
  BY DEF GroupedIn, OperatorsGroup, Outside, Depth
<1>2. ASSUME NEW dp, Grouping(stack', dp, nodes', pos') PROVE Grouping(stack, dp, nodes, pos)'
  <2>1. \A k : LoopAt(stack', dp, nodes', pos', k) => LoopAt(stack, dp, nodes, pos, k)'
    <3> SUFFICES ASSUME NEW k, LoopAt(stack', dp, nodes', pos', k) PROVE LoopAt(stack, dp, nodes, pos, k)'
      OBVIOUS
    <3>1. LevelAt(stack', k) = LevelAt(stack, k)'
      BY DEF LevelAt
    <3>2. (stack[k].from <= pos)'
      BY DEF LoopAt
    <3>3. (Nesting(stack[k].from - 1) = dp[k])'
      BY DEF LoopAt, Nesting, Depth
    <3>4. (Nesting(Base(stack[k]) - 1) = dp[k])'
      BY DEF LoopAt, Base, Nesting, Depth
    <3>5. (\A m \in nodes : m.op >= Base(stack[k]) /\ Nesting(m.op) <= dp[k] =>
             Precedence(tokens[m.op]) >= LevelAt(stack, k))'
      BY <3>1 DEF LoopAt, Base, Nesting, Depth
    <3>6. (\A j \in 1..(k - 1) : Effect(stack[j], dp[j + 1] - dp[j]))'
      BY Zenon DEF LoopAt, Effect, Weight
    <3>7. (\A j \in 1..(k - 1) : Over(stack[j], dp[j], dp[k], LevelAt(stack, k)))'
      <4> SUFFICES ASSUME NEW j \in 1..(k - 1) PROVE Over(stack[j], dp[j], dp[k], LevelAt(stack, k))'
        OBVIOUS
      <4> DEFINE l == LevelAt(stack', k)
      <4>1. Over(stack'[j], dp[j], dp[k], l)
        BY Zenon DEF LoopAt
      <4>2. l = LevelAt(stack, k)'
        BY <3>1
      <4> HIDE DEF l
      <4> QED
        BY <4>1, <4>2 DEF Over, Nesting, Depth
    <3> QED
      BY Zenon, <3>2, <3>3, <3>4, <3>5, <3>6, <3>7 DEF LoopAt
  <2>2. \A k : BinaryAt(stack', nodes', pos', k) => BinaryAt(stack, nodes, pos, k)'
    BY DEF BinaryAt, Nesting, Depth
  <2>3. \A k : RewinderAt(stack', nodes', pos', k) => RewinderAt(stack, nodes, pos, k)'
    BY DEF RewinderAt
  <2>4. TopAt(stack', dp, nodes', pos') => TopAt(stack, dp, nodes, pos)'
    BY DEF TopAt, Nesting, Depth
  <2>5. DepthsOf(stack', dp, pos') => DepthsOf(stack, dp, pos)'
    BY DEF DepthsOf, Nesting, Depth
  <2>6. \A k : ItemAt(stack', dp, nodes', pos', k) => ItemAt(stack, dp, nodes, pos, k)'
    BY <2>1, <2>2, <2>3, Zenon DEF ItemAt, Before
  <2>7. \A m \in nodes' : NodeAt(m, pos') => NodeAt(m, pos)'
    BY DEF NodeAt
  <2>8. (\A m \in nodes' : NodeAt(m, pos')) /\ (\A k \in 1..Len(stack') : ItemAt(stack', dp, nodes', pos', k))
        /\ DepthsOf(stack', dp, pos') /\ (stack' # <<>> => TopAt(stack', dp, nodes', pos'))
    BY Zenon, <1>2 DEF Grouping
  <2> QED
    BY Zenon, <2>4, <2>5, <2>6, <2>7, <2>8 DEF Grouping
<1>3. (\E dp : Grouping(stack', dp, nodes', pos')) => Fitted'
  BY Zenon, <1>2 DEF Fitted
<1> QED
  BY <1>1, <1>3

\* The tokens are made before anything is built.
LEMMA NothingGroups ==
  nodes = {} => OperatorsGroup
BY DEF OperatorsGroup

\* So does one that starts over.
LEMMA StartFitsAgain ==
  stack = <<Start>> /\ pos = 1 /\ nodes = {} => Fitted
BY StartFits

\* For every source, however deep its brackets are, and whatever the parser takes
\* back: what is built so far groups as the precedence of the operators says.
THEOREM OperatorsAlwaysGroup == Spec => []OperatorsGroup
<1>1. Init => GroupInv
  <2> SUFFICES ASSUME Init PROVE GroupInv
    OBVIOUS
  <2>1. outcome = "scanning" /\ nodes = {}
    BY DEF Init, NotStarted, ReadyToParse
  <2> QED
    BY <2>1, NothingGroups DEF GroupInv
<1>2. (nodes = {})' => OperatorsGroup'
  BY NothingGroups, PTL
<1>3. (stack = <<Start>> /\ pos = 1 /\ nodes = {})' => Fitted'
  BY StartFitsAgain, PTL
<1>4. ParserInv /\ GroupInv /\ [Next]_vars => GroupInv'
  <2> SUFFICES ASSUME ParserInv, GroupInv, [Next]_vars PROVE GroupInv'
    OBVIOUS
  <2>1. ASSUME UNCHANGED lexerVars, UNCHANGED parserVars
        PROVE  GroupInv'
    <3>1. tokens' = tokens /\ outcome' = outcome /\ pos' = pos /\ stack' = stack /\ nodes' = nodes
      BY <2>1, Zenon DEF lexerVars, parserVars
    <3>2. OperatorsGroup'
      <4>1. GroupedIn(nodes)
        BY Zenon DEF GroupInv, OperatorsGroup, GroupedIn
      <4>2. GroupedIn(nodes')
        BY <3>1, <4>1
      <4> QED
        BY <3>1, <4>2, TokensStay
    <3>3. outcome' = "parsing" => Fitted'
      <4> SUFFICES ASSUME outcome' = "parsing" PROVE Fitted'
        OBVIOUS
      <4>1. \E dp : Grouping(stack, dp, nodes, pos)
        BY <3>1, Zenon DEF GroupInv, Fitted
      <4>2. \E dp : Grouping(stack', dp, nodes', pos')
        BY <3>1, <4>1
      <4> QED
        BY <3>1, <4>2, TokensStay
    <3> QED
      BY <3>1, <3>2, <3>3, Zenon DEF GroupInv
  <2>2. ASSUME NEW source, Restart(source), BeginParse
        PROVE  GroupInv'
    <3>1. outcome' = "scanning" /\ nodes' = {}
      BY <2>2, Zenon DEF Restart, BeginParse
    <3> QED
      BY <1>2, <3>1, Zenon DEF GroupInv
  <2>3. CASE ReadArgument \/ Help \/ MissingValue \/ NotOneMode \/ CannotReadFile
    BY <2>1, <2>3 DEF ReadArgument, Help, MissingValue, NotOneMode, CannotReadFile, Exit
  <2>4. CASE CheckAndExecute \/ ThrowDiagnostic \/ ThrowIncomplete \/ Quit \/ Finish \/ EndOfInput
    BY <2>1, <2>4 DEF CheckAndExecute, ThrowDiagnostic, ThrowIncomplete, Quit, Finish, EndOfInput, Exit
  <2>5. CASE StartMode
    BY <2>1, <2>2, <2>5 DEF StartMode
  <2>6. CASE ReadLine
    BY <2>2, <2>6 DEF ReadLine
  <2>7. CASE ParseSource
    <3>1. CASE Scan /\ UNCHANGED parserVars
      <4>1. outcome = "scanning"
        BY <3>1, ScanGivesTokens DEF ParserInv
      <4>2. pos' = 1 /\ stack' = <<Start>> /\ nodes' = {}
        BY <3>1, <4>1 DEF ParserInv, GroupInv, parserVars
      <4> QED
        BY <1>2, <1>3, <4>2, Zenon DEF GroupInv
    <3>2. CASE Parse
      <4>1. outcome = "parsing"
        BY <3>2 DEF Parse, Match, Expand, Return, BuildBinary, Assignment, ExternalCall,
            Failure, Accept, Parsing
      <4>2. GroupedIn(nodes) /\ \E dp : Grouping(stack, dp, nodes, pos)
        BY <4>1, Zenon DEF GroupInv, OperatorsGroup, GroupedIn, Fitted
      <4>3. /\ tokens' = tokens /\ outcome' # "scanning"
            /\ GroupedIn(nodes')
            /\ outcome' = "parsing" => \E dp2 : Grouping(stack', dp2, nodes', pos')
        BY <3>2, <4>1, <4>2, ParseGroups
      <4>4. OperatorsGroup' /\ (outcome' = "parsing" => Fitted')
        BY <4>3, TokensStay
      <4> QED
        BY <4>3, <4>4, Zenon DEF GroupInv
    <3> QED
      BY <2>7, <3>1, <3>2 DEF ParseSource
  <2>8. CASE UNCHANGED vars
    BY <2>1, <2>8 DEF vars
  <2> QED
    BY <2>3, <2>4, <2>5, <2>6, <2>7, <2>8 DEF Next
<1>5. GroupInv => OperatorsGroup
  BY DEF GroupInv
<1> QED
  BY <1>1, <1>4, <1>5, AlwaysParserInv, PTL DEF Spec
=============================================================================
