----------------------------- MODULE MCFfiCalls -----------------------------
(***************************************************************************)
(* FfiCalls and DllRegistry with two files.  The first has two canonical   *)
(* names (say "user32.dll" and "user32"), one of which has a second        *)
(* spelling that differs in case; no file matches the last path.           *)
(***************************************************************************)
EXTENDS FfiCalls

CONSTANTS upper, lower, short, other, missing,  \* paths
          first, second,                        \* files
          fn                                    \* a function's name

MCCanonical == [p \in Paths |-> IF p = upper THEN lower ELSE p]

MCFileOf == [k \in Keys |-> CASE k \in {lower, short} -> first
                              [] k = other -> second
                              [] k = missing -> NoFile]

\* A call out of a callback, out of a call, on the main thread.
MCMaxNesting == [t \in Threads |-> IF t = Main THEN 2 ELSE 1]

\* Both files export the name fn and ordinal 1.
MCExports == [f \in Files |-> {fn, 1}]
=============================================================================
