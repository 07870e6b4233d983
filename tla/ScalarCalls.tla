---------------------------- MODULE ScalarCalls -----------------------------
(***************************************************************************)
(* Scalar arguments and results between scripts and native code:           *)
(* eval_call and ffi_call_scalar with call_dynamic_function (abi_call.asm) *)
(* outwards, script_callback_router (callback_router.asm) with             *)
(* dispatch_script_callback inwards, by the rules of the Win64 ABI, which  *)
(* native code follows.                                                    *)
(*                                                                         *)
(* A word of 64 bits is two halves; a narrow type uses the lower one.      *)
(* Bits of floats are not interpreted.  Memory is the stack, one word for  *)
(* each address, growing down; words 2k and 2k + 1 are 16 aligned bytes.   *)
(* One call is followed at a time; Invocations is about nesting.           *)
(***************************************************************************)
EXTENDS Integers, Sequences

CONSTANTS Half,            \* values of half a word, 2^32 in the code
          ParameterTypes,  \* types of parameters
          ReturnTypes,     \* return types
          MaxArguments,    \* bound: arguments
          Words,           \* values in arguments and results
          Top              \* the address where the caller's frame begins

Narrow == {"i32", "u32", "f32"}
Floats == {"f32", "f64"}
Types == Narrow \cup Floats \cup {"i64"}
Word == 0 .. Half * Half - 1

ASSUME HalfIsEven == Half \in Nat /\ Half > 1 /\ Half % 2 = 0
ASSUME TypesAreScalar == ParameterTypes \subseteq Types /\ ReturnTypes \subseteq Types
ASSUME WordsAreWords == Words \subseteq Word
ASSUME MaxArgumentsIsNat == MaxArguments \in Nat
ASSUME StackIsAlignedForCalls == Top \in Nat /\ Top % 2 = 0 /\ Top > 40 + MaxArguments

VARIABLES at,      \* where the call has come to
          call,    \* what its caller, and then its callee, mean by it
          gpr,     \* rcx, rdx, r8, r9
          xmm,     \* xmm0 to xmm3
          rax,
          rsp,
          memory,  \* the stack
          values,  \* what the interpreter holds: arguments, parameters, the result
          frame    \* RawCallbackFrame

machine == <<gpr, xmm, rax, rsp, memory>>
vars == <<at, call, machine, values, frame>>

Addresses == 0 .. Top + MaxArguments
Junk == -1          \* no word of the call
Saved == -2         \* a register of the caller that call_dynamic_function saves
NoCall == [parameters |-> <<>>, arguments |-> <<>>, returns |-> "i64", result |-> 0]
NoFrame == [gpr |-> <<>>, xmm |-> <<>>, stackArgs |-> 0]

-----------------------------------------------------------------------------
(* Values.                                                                   *)
Cut(bits, T) == IF T \in Narrow THEN bits % Half ELSE bits
Floating(T) == T \in Floats

\* Mutant of Normalize: i32 is widened with zeros.
NormalizeUnsigned(bits, T) == Cut(bits, T)

\* normalize_bits: the number in the lower half, widened to a word.
Normalize(bits, T) ==
  LET low == Cut(bits, T)
  IN IF T = "i32" /\ 2 * low >= Half THEN low + Half * Half - Half ELSE low

\* cast of an integer, or of a float to its own type.
Cast(bits, S, T) == IF S = T THEN bits ELSE Normalize(bits, T)

\* The types of script values that are passed as type T.
Source(T) == IF Floating(T) THEN T ELSE "i64"

\* The bits of one word in each argument, different ones in each.
Arguments(w, T) == [i \in DOMAIN T |-> Cut((w + i) % (Half * Half), Source(T[i]))]

\* Some contents of an upper half.
Upper == {0, Half - 1}

Signatures == UNION {[1 .. n -> ParameterTypes] : n \in 0 .. MaxArguments}

Init ==
  /\ at \in {"script", "foreign"}
  /\ call = NoCall /\ values = <<>> /\ frame = NoFrame
  /\ gpr = [i \in 1 .. 4 |-> 0] /\ xmm = [i \in 1 .. 4 |-> 0] /\ rax = 0
  /\ rsp = Top
  /\ memory = [a \in Addresses |-> Junk]

-----------------------------------------------------------------------------
(* From script to native code.                                               *)

\* eval_call: the arguments are cast to the types of the call.
EvalCall ==
  /\ at = "script" /\ at' = "bridge"
  /\ \E T \in Signatures, R \in ReturnTypes, w \in Words :
       /\ call' = [NoCall EXCEPT !.parameters = T, !.returns = R, !.arguments = Arguments(w, T)]
       /\ values' = [i \in DOMAIN T |-> Cast(Arguments(w, T)[i], Source(T[i]), T[i])]
  /\ UNCHANGED <<machine, frame>>

\* Mutant of FloatMask: floats are counted, as in the System V ABI.
FloatMaskCounted(T) == {i \in 1 .. 4 : i <= Len(SelectSeq(T, Floating))}

\* ffi_call_scalar: which of the first four arguments are floats.
FloatMask(T) == {i \in DOMAIN T : i <= 4 /\ Floating(T[i])}

\* Mutant of CallFrame: the stack is not aligned again.
CallFrameUnaligned(bottom, n) == bottom - 4 - (IF n > 4 THEN n - 4 ELSE 0)

\* Mutant of CallFrame: no home space.
CallFrameHomeless(bottom, n) ==
  LET address == bottom - (IF n > 4 THEN n - 4 ELSE 0)
  IN address - (address % 2)

\* alloc_call_frame: home space for four registers, and the other arguments.
CallFrame(bottom, n) ==
  LET address == bottom - 4 - (IF n > 4 THEN n - 4 ELSE 0)
  IN address - (address % 2)

\* call_dynamic_function, called with rsp on its return address, up to the
\* call: six registers are saved, arguments beyond the fourth are copied, the
\* others loaded.
CallDynamicFunction ==
  LET n == Len(values)
      bottom == rsp - 1 - 6
      base == CallFrame(bottom, n)
  IN /\ at = "bridge" /\ at' = "native"
     /\ memory' = [a \in Addresses |->
                     CASE a \in bottom .. rsp - 2 -> Saved
                       [] a \in base + 4 .. base + n - 1 -> values[a - base + 1]
                       [] OTHER -> memory[a]]
     /\ gpr' = [i \in 1 .. 4 |-> IF i <= n THEN values[i] ELSE gpr[i]]
     /\ xmm' = [i \in 1 .. 4 |-> IF i \in FloatMask(call.parameters) THEN values[i] ELSE xmm[i]]
     /\ rsp' = base - 1
     /\ UNCHANGED <<call, rax, values, frame>>

\* What a Win64 function finds as its i-th argument, with rsp on its return
\* address.
Argument(i) ==
  CASE i <= 4 /\ Floating(call.parameters[i]) -> xmm[i]
    [] i <= 4 /\ ~Floating(call.parameters[i]) -> gpr[i]
    [] i > 4 -> memory[rsp + i]

\* Native code returns w in rax or xmm0, with anything in the upper half if the
\* type is narrow.  It has used its home space and its arguments' places.
NativeReturns(w, upper) ==
  LET T == call.returns
      word == IF T \in Narrow THEN Cut(w, T) + Half * upper ELSE w
  IN /\ at = "native" /\ at' = "returned"
     /\ call' = [call EXCEPT !.result = Cut(w, T)]
     /\ rax' = IF Floating(T) THEN upper ELSE word
     /\ xmm' = [xmm EXCEPT ![1] = IF Floating(T) THEN word ELSE upper]
     /\ memory' = [a \in Addresses |->
                     IF a \in rsp + 1 .. rsp + 4 \/ a \in rsp + 5 .. rsp + Len(call.parameters)
                     THEN Junk ELSE memory[a]]
     /\ rsp' = rsp + 1
     /\ UNCHANGED <<gpr, values, frame>>

\* The return flag of the mask: movq rax, xmm0.
ReturnedBits(T) == IF Floating(T) THEN xmm[1] ELSE rax

\* call_dynamic_function after the call: the result, and rsp from rbp.
ReturnToScript ==
  /\ at = "returned" /\ at' = "result"
  /\ rax' = ReturnedBits(call.returns)
  /\ values' = <<ReturnedBits(call.returns)>>
  /\ rsp' = Top
  /\ UNCHANGED <<call, gpr, xmm, memory, frame>>

\* The result is assigned to a variable, and read from it: store_binding masks
\* it, load_place normalizes it.
StoreResult ==
  /\ at = "result" /\ at' = "done"
  /\ values' = <<Normalize(Cut(values[1], call.returns), call.returns)>>
  /\ UNCHANGED <<call, machine, frame>>

-----------------------------------------------------------------------------
(* From native code to a script function.                                    *)

\* Native code, with rsp on the return address, has passed w by the ABI: with
\* anything in the upper halves, and in the registers it does not use.
Passes(T, w, upper) ==
  LET args == Arguments(w, T)
      word == [i \in DOMAIN T |-> Cut(args[i], T[i]) + IF T[i] \in Narrow THEN Half * upper ELSE 0]
      n == Len(T)
      entry == Top - 5 - n - (n % 2)
  IN /\ gpr' = [i \in 1 .. 4 |-> IF i <= n /\ ~Floating(T[i]) THEN word[i] ELSE upper]
     /\ xmm' = [i \in 1 .. 4 |-> IF i <= n /\ Floating(T[i]) THEN word[i] ELSE upper]
     /\ rsp' = entry
     /\ memory' = [a \in Addresses |-> IF a \in entry + 5 .. entry + n THEN word[a - entry]
                                                                     ELSE memory[a]]

\* It calls a trampoline, which jumps to the router.
CallTrampoline ==
  /\ at = "foreign" /\ at' = "router"
  /\ \E T \in Signatures, R \in ReturnTypes, w \in Words, upper \in Upper :
       /\ call' = [NoCall EXCEPT !.parameters = T, !.returns = R, !.arguments = Arguments(w, T)]
       /\ Passes(T, w, upper)
  /\ UNCHANGED <<rax, values, frame>>

\* lea rax, [rsp+0D0h].
StackArguments(base) == base + 26

\* script_callback_router up to the call: the registers are saved in a frame.
SaveFrame ==
  LET base == rsp - 21
  IN /\ at = "router" /\ at' = "dispatch"
     /\ rsp' = base
     /\ frame' = [gpr |-> gpr, xmm |-> xmm, stackArgs |-> StackArguments(base)]
     /\ UNCHANGED <<call, gpr, xmm, rax, memory, values>>

\* Mutant of ParameterBits: floats are found only among the first four words.
ParameterBitsInteger(i, T) ==
  IF i <= 4 THEN frame.gpr[i] ELSE memory[frame.stackArgs + i - 5]

\* dispatch_script_callback: where the i-th argument of the function is.
ParameterBits(i, T) ==
  CASE i <= 4 /\ Floating(T) -> frame.xmm[i]
    [] i <= 4 /\ ~Floating(T) -> frame.gpr[i]
    [] i > 4 -> memory[frame.stackArgs + i - 5]

\* bind_parameter: the cast to the argument's own type leaves its bits alone;
\* store_binding and load_place bring them into the type.
BindParameters ==
  /\ at = "dispatch" /\ at' = "function"
  /\ values' = [i \in DOMAIN call.parameters |->
                  LET T == call.parameters[i]
                  IN Normalize(Cut(Cast(ParameterBits(i, T), T, T), T), T)]
  /\ UNCHANGED <<call, machine, frame>>

\* The function returns w, cast to its return type; a float goes to xmm0 as well.
ReturnToNative(w) ==
  LET T == call.returns
      bits == Cast(Cut(w, Source(T)), Source(T), T)
  IN /\ at = "function" /\ at' = "answered"
     /\ call' = [call EXCEPT !.result = Cut(w, Source(T))]
     /\ rax' = bits
     /\ xmm' = [xmm EXCEPT ![1] = IF Floating(T) THEN bits ELSE @]
     /\ rsp' = rsp + 21
     /\ values' = <<bits>>
     /\ UNCHANGED <<gpr, memory, frame>>

Done == at \in {"answered", "done"} /\ UNCHANGED vars

Next ==
  \/ EvalCall
  \/ CallDynamicFunction
  \/ \E w \in Words, upper \in Upper : NativeReturns(w, upper)
  \/ ReturnToScript
  \/ StoreResult
  \/ CallTrampoline
  \/ SaveFrame
  \/ BindParameters
  \/ \E w \in Words : ReturnToNative(w)
  \/ Done

Spec == Init /\ [][Next]_vars

-----------------------------------------------------------------------------
\* The number that w stands for, with the given number of values.
Signed(w, range) == IF 2 * w >= range THEN w - range ELSE w
Number(w, T) ==
  CASE T = "i32" -> Signed(w % Half, Half)
    [] T = "i64" -> Signed(w, Half * Half)
    [] OTHER -> Cut(w, T)

\* Scripts compute with integers as signed words, and with a float's own bits.
ScriptNumber(w, T) == IF Floating(T) THEN Cut(w, T) ELSE Signed(w, Half * Half)

\* A native function finds each argument, of any type in any position, where
\* the ABI says, as far as its type reaches.
ArgumentsArrive ==
  at = "native" =>
    \A i \in DOMAIN call.parameters :
      LET T == call.parameters[i]
      IN Argument(i) \in Word /\ Cut(Argument(i), T) = Cut(call.arguments[i], T)

\* At every call the stack is aligned to 16 bytes, as native code that uses
\* aligned moves relies on: rsp is on the return address, or about to be.
StackIsAligned ==
  /\ at = "native" => rsp % 2 = 1
  /\ at = "dispatch" => rsp % 2 = 0

\* Native code may write to its home space and its arguments, so none of that
\* is where call_dynamic_function keeps its caller's registers.
SavedRegistersAreKept ==
  at \in {"native", "returned", "result"} => \A a \in Top - 7 .. Top - 2 : memory[a] = Saved

\* A script function's parameters are the numbers that native code passed,
\* whatever the upper halves hold.
ParametersArrive ==
  at = "function" =>
    \A i \in DOMAIN call.parameters :
      LET T == call.parameters[i]
      IN ScriptNumber(values[i], T) = Number(call.arguments[i], T)

ResultIsNumber ==
  ScriptNumber(values[1], call.returns) = Number(call.result, call.returns)

\* A result that is assigned is the number that native code returned, and native
\* code finds a function's result, where the ABI says.
ResultsArrive ==
  /\ at = "done" => ResultIsNumber
  /\ at = "answered" => Cut(ReturnedBits(call.returns), call.returns)
                          = Cut(call.result, call.returns)

\* "i8, i16, i32, i64 - signed integers" (README.md 39): the value of a call of
\* a native function, as the rest of the expression uses it, is the number that
\* the function returned.
ResultsAreNumbers == at = "result" => ResultIsNumber
=============================================================================
