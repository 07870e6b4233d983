---------------------------- MODULE MCInvocations ----------------------------
(***************************************************************************)
(* Invocations on the main thread and one native thread.                   *)
(***************************************************************************)
EXTENDS Invocations

CONSTANTS MainDepth, OtherDepth  \* frames on the main thread, and on the other

MCMaxDepth == [t \in Threads |-> IF t = Main THEN MainDepth ELSE OtherDepth]

\* Without the liveness part, for the runs that check safety only.
MCSafetySpec == Init /\ [][Next]_vars
=============================================================================
