--------------------------- MODULE NamedFunctions ---------------------------
(***************************************************************************)
(* What the runtime promises about script functions, without slots,        *)
(* versions or locks: a name has at most one definition at a time, the     *)
(* definition may be replaced, and the machine address that native code    *)
(* was given for a name is chosen once, is the address of no other name    *)
(* and never changes.  FunctionTable implements this.                      *)
(***************************************************************************)
CONSTANTS Names,        \* names a script may give to a function
          Definitions,  \* what a definition is, up to what a caller can see
          Addresses,    \* entry points that native code can call
          Undefined,    \* a name without a definition
          NoAddress     \* a name without an entry point

VARIABLES definition,   \* name -> its latest definition
          address       \* name -> its entry point

vars == <<definition, address>>

TypeOK ==
  /\ definition \in [Names -> Definitions \cup {Undefined}]
  /\ address \in [Names -> Addresses \cup {NoAddress}]

Init ==
  /\ definition = [n \in Names |-> Undefined]
  /\ address = [n \in Names |-> NoAddress]

Unused == Addresses \ {address[n] : n \in Names}

\* The first definition of a name also gives it its address; a later one
\* leaves the address alone.
Define(n, d) ==
  /\ definition' = [definition EXCEPT ![n] = d]
  /\ \/ /\ address[n] # NoAddress
        /\ UNCHANGED address
     \/ /\ address[n] = NoAddress
        /\ \E a \in Unused : address' = [address EXCEPT ![n] = a]

Next == \E n \in Names, d \in Definitions : Define(n, d)

Spec == Init /\ [][Next]_vars
=============================================================================
