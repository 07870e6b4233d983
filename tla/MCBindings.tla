----------------------------- MODULE MCBindings -----------------------------
(***************************************************************************)
(* Bindings with a type of one byte and two types of two.                  *)
(***************************************************************************)
EXTENDS Bindings

CONSTANTS byte, short, half  \* types

MCWidth == [T \in Types |-> IF T = byte THEN 1 ELSE 2]
=============================================================================
