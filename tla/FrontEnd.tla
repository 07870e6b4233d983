------------------------------ MODULE FrontEnd ------------------------------
(***************************************************************************)
(* main (main.cpp): the command line picks a mode, and the source of that  *)
(* mode is parsed, checked and executed as a whole, or, by repl, line by   *)
(* line as far as the lines typed make a complete input.  What checking    *)
(* and executing an accepted source does is the subject of Session and     *)
(* Statements; here they take any outcome.                                 *)
(***************************************************************************)
EXTENDS Parser

CONSTANT Scripts   \* sources: what the user types, or the text of a file

ASSUME ScriptsAreTexts == \A s \in Scripts : s.text \in Seq(Characters)

VARIABLES script,   \* the source
          next,     \* repl: the first character of it that is not typed yet
          base,     \* repl: the characters of it before the buffer, which is text
          options,  \* the modes asked for on the command line
          mode,     \* the mode in execution, or "none"
          chunk,    \* what became of the source in text
          exit      \* what the process returned, or Running

vars == <<lexerVars, parserVars, script, next, base, options, mode, chunk, exit>>

Modes == {"interactive", "script", "check", "eval", "one-shot"}
Running == -1
Outcomes == {"diagnostic", "executed", "fault", "error"}

\* A source is written as statements one after the other; extents are the first
\* and the last character of each.
Init ==
  /\ script \in Scripts
  /\ NotStarted(<<>>) /\ ReadyToParse
  /\ next = 1 /\ base = 0
  /\ options = {} /\ mode = "none" /\ chunk = "none" /\ exit = Running

-----------------------------------------------------------------------------
(* The command line.                                                         *)

Exit(code) ==
  /\ exit' = code
  /\ UNCHANGED <<lexerVars, parserVars, script, next, base, options, mode, chunk>>

ReadingArguments == exit = Running /\ mode = "none"

\* --quiet and an option whose value is empty ask for nothing; all that follows
\* the first argument that is no option is source.
ReadArgument ==
  /\ ReadingArguments
  /\ \E asked \in {{}, {"interactive"}, {"script"}, {"check"}, {"eval"}, {"one-shot"}} :
       options' = IF "one-shot" \in options THEN options ELSE options \cup asked
  /\ UNCHANGED <<lexerVars, parserVars, script, next, base, mode, chunk, exit>>

Help == ReadingArguments /\ "one-shot" \notin options /\ Exit(0)
MissingValue == ReadingArguments /\ "one-shot" \notin options /\ Exit(2)
NotOneMode == exit = Running /\ mode = "none" /\ (\A m \in Modes : options # {m}) /\ Exit(2)

\* repl starts with an empty buffer, the other modes with the whole source.
StartMode ==
  /\ exit = Running /\ mode = "none"
  /\ \E m \in Modes : options = {m} /\ mode' = m
  /\ IF mode' = "interactive"
     THEN UNCHANGED <<lexerVars, parserVars, chunk>>
     ELSE Restart(script.text) /\ BeginParse /\ chunk' = "read"
  /\ UNCHANGED <<script, next, base, options, exit>>

CannotReadFile == exit = Running /\ mode = "none" /\ options \in {{"script"}, {"check"}} /\ Exit(1)

-----------------------------------------------------------------------------
(* check_and_execute, check_only.                                            *)

ParseSource ==
  /\ exit = Running /\ chunk = "read"
  /\ \/ Scan /\ UNCHANGED parserVars
     \/ Parse
  /\ UNCHANGED <<script, next, base, options, mode, chunk, exit>>

Unparsed(e) == outcome = e /\ chunk = "read" /\ exit = Running

CheckAndExecute ==
  /\ Unparsed("accepted")
  /\ chunk' \in IF mode = "check" THEN {"diagnostic", "checked"} ELSE Outcomes
  /\ UNCHANGED <<lexerVars, parserVars, script, next, base, options, mode, exit>>

ThrowDiagnostic ==
  /\ Unparsed("rejected")
  /\ chunk' = "diagnostic"
  /\ UNCHANGED <<lexerVars, parserVars, script, next, base, options, mode, exit>>

\* main reports incomplete input as an error, repl waits for more.
ThrowIncomplete ==
  /\ Unparsed("incomplete")
  /\ chunk' = IF mode = "interactive" THEN "incomplete" ELSE "diagnostic"
  /\ UNCHANGED <<lexerVars, parserVars, script, next, base, options, mode, exit>>

\* quit() in the source ends the process.
Quit == Unparsed("accepted") /\ mode # "check" /\ \E code \in {0, 1} : Exit(code)

Finish ==
  /\ exit = Running /\ mode \notin {"none", "interactive"} /\ chunk \in Outcomes \cup {"checked"}
  /\ Exit(IF chunk \in {"executed", "checked"} THEN 0 ELSE 1)

-----------------------------------------------------------------------------
(* repl.                                                                     *)

Prompting == exit = Running /\ mode = "interactive" /\ chunk # "read"

\* std::getline: where the line that starts at i ends.
LineEnd(i) ==
  CHOOSE j \in i..(Len(script.text) + 1) :
    /\ j > Len(script.text) \/ script.text[j] = "newline"
    /\ \A k \in i..(j - 1) : script.text[k] # "newline"

\* A line is added to the incomplete input, or starts a new one.  All of the
\* buffer is parsed again.
ReadLine ==
  /\ Prompting /\ next <= Len(script.text)
  /\ LET typed == SubSeq(script.text, next, LineEnd(next) - 1)
     IN IF chunk = "incomplete"
        THEN Restart(text \o <<"newline">> \o typed) /\ UNCHANGED base
        ELSE Restart(typed) /\ base' = next - 1
  /\ next' = LineEnd(next) + 1
  /\ BeginParse
  /\ chunk' = "read"
  /\ UNCHANGED <<script, options, mode, exit>>

EndOfInput == Prompting /\ next > Len(script.text) /\ Exit(0)

Next ==
  \/ ReadArgument \/ Help \/ MissingValue \/ NotOneMode \/ StartMode \/ CannotReadFile
  \/ ParseSource \/ CheckAndExecute \/ ThrowDiagnostic \/ ThrowIncomplete \/ Quit \/ Finish
  \/ ReadLine \/ EndOfInput

\* The program has one thread, and nothing but reading arguments and lines makes it wait.
Spec == Init /\ [][Next]_vars /\ WF_vars(Next)

-----------------------------------------------------------------------------
\* A source of accepted statements is accepted as a whole and is parsed into these
\* statements, from a file and typed into the REPL.  README.md 36 promises it of all
\* statements: "Statements do not require terminators".  It holds for the sources
\* that are `separate': MCFrontEnd says what must not follow what, and where a line
\* may end.
Cut(q) == \E e \in script.extents : e[1] < q /\ q <= e[2]
StatementsEndAsWritten ==
  script.separate =>
    /\ outcome # "rejected"
    /\ outcome = "parsing" /\ stack # <<>> /\ Top.symbol = "module" => ~Cut(base + spans[pos].start)
    /\ chunk = "diagnostic" => outcome = "accepted"
    /\ exit # Running /\ mode = "interactive" => chunk # "incomplete"

\* No source keeps the lexer or the parser busy forever.
EveryInputIsAnswered == (chunk = "read") ~> (chunk # "read" \/ exit # Running)
=============================================================================
