--------------------------- MODULE MCTypeRegistry ---------------------------
(***************************************************************************)
(* TypeRegistry with u8 and u32, and sizes of four bits.                   *)
(***************************************************************************)
EXTENDS TypeRegistry

MCPrimitive(size) == [kind |-> "primitive", element |-> NoType, count |-> 0, sized |-> TRUE,
                      layout |-> Plain(size, size)]
MCPrimitives == <<MCPrimitive(1), MCPrimitive(4)>>
=============================================================================
