------------------------- MODULE MCNativeExceptions -------------------------
(* Chains of as many records as are copied, and of more; two frames.         *)
EXTENDS NativeExceptions

MCArenas == 0..2
MCAddresses == {1 + 11 * i : i \in 0..7}
LowestPlace(S) == {a \in S : \A b \in S : a <= b}
MCChains == {<<21, 22, 23>>, <<31, 32, 33, 34>>}
MCSizes == {<<8, 2>>}
=============================================================================
