------------------------- MODULE RepresentationProofs -------------------------
(***************************************************************************)
(* How values are represented.  Arguments, parameters and results of calls *)
(* arrive, calls are aligned and saved registers kept, for words of any    *)
(* size, any signatures and any number of arguments.  Types are laid out   *)
(* as C does it, for any primitive types, any extents and pack values in   *)
(* scripts, any number of threads, and any word that holds the alignments. *)
(***************************************************************************)
EXTENDS TypeRegistry, ScalarCalls, SequenceTheorems, TLAPS

-----------------------------------------------------------------------------
(* Halves and words.                                                         *)

\* A multiple of Half that is less than Half in either direction is 0.
LEMMA SmallMultiple ==
  ASSUME NEW h \in Nat, h > 0, NEW d \in Int, h * d < h, -h < h * d
  PROVE  d = 0
<1>1. CASE d >= 1
  <2>1. h * d >= h * 1
    BY <1>1
  <2> QED
    BY <2>1
<1>2. CASE d <= -1
  <2>1. h * d <= h * (-1)
    BY <1>2
  <2> QED
    BY <2>1
<1> QED
  BY <1>1, <1>2

\* The lower half of a word.
LEMMA LowerHalf ==
  ASSUME NEW h \in Nat, h > 0, NEW c \in 0 .. h - 1, NEW u \in Nat
  PROVE  (c + h * u) % h = c
<1> DEFINE x == c + h * u
           q == x \div h
           r == x % h
<1>1. x \in Nat /\ h * u \in Nat
  OBVIOUS
<1> HIDE DEF x
<1>2. q \in Int /\ r \in 0 .. h - 1 /\ x = h * q + r
  BY <1>1
<1> HIDE DEF q, r
<1>3. h * (q - u) = h * q - h * u
  BY <1>2
<1>4. h * (q - u) = c - r
  BY <1>2, <1>3 DEF x
<1>5. q - u = 0
  BY <1>2, <1>4, SmallMultiple
<1>6. q = u
  BY <1>2, <1>5
<1> QED
  BY <1>2, <1>6 DEF x, r

LEMMA WordFacts ==
  /\ Half \in Nat /\ Half > 1 /\ Half * Half \in Nat /\ Half * Half >= 2 * Half
  /\ Half * (Half - 1) = Half * Half - Half
  /\ \A c \in 0 .. Half - 1 : c \in Word
<1>1. Half \in Nat /\ Half > 1
  BY HalfIsEven
<1>2. Half * Half \in Nat /\ Half * Half >= 2 * Half
  BY <1>1
<1>3. Half * (Half - 1) = Half * Half - Half
  BY <1>1
<1> QED
  BY <1>1, <1>2, <1>3 DEF Word

LEMMA TypeFacts ==
  /\ Types = {"i32", "u32", "f32", "f64", "i64"} /\ Narrow \subseteq Types
  /\ \A T \in Types :
       /\ Source(T) \in Types
       /\ Floating(T) => Source(T) = T
       /\ ~Floating(T) => Source(T) = "i64" /\ Source(T) \notin Narrow
BY DEF Types, Narrow, Floats, Source, Floating

\* Cutting a word to a type.
LEMMA CutFacts ==
  ASSUME NEW b \in Word, NEW T \in Types
  PROVE  /\ Cut(b, T) \in Word /\ Cut(Cut(b, T), T) = Cut(b, T)
         /\ T \in Narrow => Cut(b, T) = b % Half /\ Cut(b, T) \in 0 .. Half - 1
         /\ T \notin Narrow => Cut(b, T) = b
<1>1. CASE T \in Narrow
  <2>1. b \in Nat
    BY DEF Word
  <2>2. b % Half \in 0 .. Half - 1
    BY <2>1, WordFacts
  <2>3. PICK c \in 0 .. Half - 1 : c = b % Half
    BY <2>2
  <2>4. c % Half = c
    <3>1. c + Half * 0 = c
      BY <2>3, WordFacts
    <3>2. (c + Half * 0) % Half = c
      BY WordFacts, LowerHalf
    <3> QED
      BY <3>1, <3>2
  <2> QED
    BY <1>1, <2>3, <2>4, WordFacts DEF Cut
<1>2. CASE T \notin Narrow
  BY <1>2 DEF Cut
<1> QED
  BY <1>1, <1>2

\* A narrow value with something above it is a word, with the same lower half.
LEMMA UpperFacts ==
  ASSUME NEW c \in 0 .. Half - 1, NEW u \in Upper
  PROVE  c + Half * u \in Word /\ (c + Half * u) % Half = c
<1>1. u \in Nat /\ (u = 0 \/ u = Half - 1)
  BY WordFacts DEF Upper
<1>2. (c + Half * u) % Half = c
  BY <1>1, WordFacts, LowerHalf
<1>3. Half * u = 0 \/ Half * u = Half * Half - Half
  BY <1>1, WordFacts
<1> QED
  BY <1>2, <1>3, WordFacts, SMTT(60) DEF Word

LEMMA NormalizeFacts ==
  ASSUME NEW b \in Word, NEW T \in Types
  PROVE  /\ Normalize(b, T) \in Word /\ Cut(Normalize(b, T), T) = Cut(b, T)
         /\ ScriptNumber(Normalize(b, T), T) = Number(b, T)
         /\ Number(Cut(b, T), T) = Number(b, T)
<1> DEFINE low == Cut(b, T)
<1>1. low \in Word /\ Cut(low, T) = low
  BY CutFacts
<1>2. CASE T = "i32"
  <2>1. low = b % Half /\ low \in 0 .. Half - 1 /\ Cut(low, T) = low % Half
    BY <1>2, CutFacts DEF Narrow, Cut
  <2>2. Number(b, T) = Signed(low, Half) /\ Number(low, T) = Signed(low, Half)
    BY <1>1, <1>2, <2>1 DEF Number
  <2>3. \A w : ScriptNumber(w, T) = Signed(w, Half * Half)
    BY <1>2 DEF ScriptNumber, Floating, Floats
  <2>4. CASE 2 * low >= Half
    <3>1. Normalize(b, T) = low + Half * Half - Half
      BY <1>2, <2>4 DEF Normalize
    <3> HIDE DEF low
    <3>2. PICK c \in 0 .. Half - 1 : c = low
      BY <2>1
    <3>3. Half - 1 \in Upper
      BY DEF Upper
    <3>4. c + Half * (Half - 1) \in Word /\ (c + Half * (Half - 1)) % Half = c
      BY <3>3, UpperFacts
    <3>5. PICK v \in Word : v = Normalize(b, T) /\ v = c + Half * Half - Half /\ v % Half = c
      BY <3>1, <3>2, <3>4, WordFacts
    <3>6. Cut(v, T) = c
      BY <1>2, <3>5 DEF Cut, Narrow
    <3>7. Signed(v, Half * Half) = c - Half /\ Signed(c, Half) = c - Half
      BY <2>4, <3>2, <3>5, WordFacts DEF Signed
    <3> QED
      BY <2>2, <2>3, <3>2, <3>5, <3>6, <3>7 DEF low
  <2>5. CASE ~(2 * low >= Half)
    <3>1. Normalize(b, T) = low
      BY <1>2, <2>5 DEF Normalize
    <3> HIDE DEF low
    <3>2. Signed(low, Half * Half) = low /\ Signed(low, Half) = low
      BY <2>1, <2>5, WordFacts DEF Signed
    <3> QED
      BY <1>1, <2>2, <2>3, <3>1, <3>2 DEF low
  <2> QED
    BY <2>4, <2>5
<1>3. CASE T = "u32"
  <2>1. Normalize(b, T) = low
    BY <1>3 DEF Normalize
  <2>2. low \in 0 .. Half - 1
    BY <1>3, CutFacts DEF Narrow
  <2>3. Number(b, T) = low /\ Number(low, T) = low
    BY <1>1, <1>3 DEF Number
  <2>4. ScriptNumber(low, T) = Signed(low, Half * Half)
    BY <1>3 DEF ScriptNumber, Floating, Floats
  <2> HIDE DEF low
  <2>5. Signed(low, Half * Half) = low
    BY <2>2, WordFacts DEF Signed
  <2> QED
    BY <1>1, <2>1, <2>3, <2>4, <2>5 DEF low
<1>4. CASE T = "i64"
  <2>1. low = b /\ Normalize(b, T) = low
    BY <1>4 DEF Normalize, Cut, Narrow
  <2>2. ScriptNumber(b, T) = Signed(b, Half * Half) /\ Number(b, T) = Signed(b, Half * Half)
    BY <1>4 DEF ScriptNumber, Number, Floating, Floats
  <2> QED
    BY <1>1, <2>1, <2>2
<1>5. CASE T \in Floats
  <2>1. Normalize(b, T) = low
    BY <1>5 DEF Normalize, Floats
  <2>2. ScriptNumber(low, T) = Cut(low, T)
    BY <1>5 DEF ScriptNumber, Floating
  <2>3. Number(b, T) = low /\ Number(low, T) = Cut(low, T)
    BY <1>5 DEF Number, Floats
  <2> QED
    BY <1>1, <2>1, <2>2, <2>3
<1> QED
  BY <1>2, <1>3, <1>4, <1>5 DEF Types, Narrow, Floats

\* A script value cast to a type keeps as much of it as the type reaches.
LEMMA CastFacts ==
  ASSUME NEW b \in Word, NEW T \in Types
  PROVE  Cast(b, Source(T), T) \in Word /\ Cut(Cast(b, Source(T), T), T) = Cut(b, T)
BY NormalizeFacts DEF Cast

LEMMA SignatureFacts ==
  ASSUME NEW T \in Signatures
  PROVE  /\ T \in Seq(ParameterTypes) /\ Len(T) \in 0 .. MaxArguments /\ DOMAIN T = 1 .. Len(T)
         /\ \A i \in DOMAIN T : T[i] \in Types
<1>1. PICK n \in 0 .. MaxArguments : T \in [1 .. n -> ParameterTypes]
  BY DEF Signatures
<1>2. n \in Nat
  BY MaxArgumentsIsNat
<1>3. T \in Seq(ParameterTypes) /\ Len(T) = n
  BY <1>1, <1>2
<1> QED
  BY <1>1, <1>3, TypesAreScalar

LEMMA ArgumentFacts ==
  ASSUME NEW T \in Signatures, NEW w \in Words
  PROVE  /\ Arguments(w, T) \in Seq(Word)
         /\ \A i \in DOMAIN T : Arguments(w, T)[i] \in Word
<1>1. ASSUME NEW i \in DOMAIN T PROVE Cut((w + i) % (Half * Half), Source(T[i])) \in Word
  <2>1. i \in Nat /\ T[i] \in Types
    BY SignatureFacts
  <2>2. w + i \in Nat
    BY <2>1, WordsAreWords DEF Word
  <2>3. PICK m \in Nat : m = Half * Half /\ m > 0
    BY WordFacts
  <2>4. (w + i) % m \in 0 .. m - 1
    BY <2>2, <2>3
  <2>5. (w + i) % (Half * Half) \in Word
    BY <2>3, <2>4 DEF Word
  <2>6. PICK x \in Word, S \in Types : x = (w + i) % (Half * Half) /\ S = Source(T[i])
    BY <2>1, <2>5, TypeFacts
  <2>7. Cut(x, S) \in Word
    BY CutFacts
  <2> QED
    BY <2>6, <2>7
<1>2. Len(T) \in Nat /\ DOMAIN T = 1 .. Len(T)
  BY SignatureFacts, MaxArgumentsIsNat
<1>3. Arguments(w, T) \in [1 .. Len(T) -> Word]
  BY <1>1, <1>2 DEF Arguments
<1> QED
  BY <1>2, <1>3

-----------------------------------------------------------------------------
(* The inductive invariant.                                                  *)

arity == Len(call.parameters)

\* A word holds the i-th argument as far as its type reaches.
Carries(word, i) ==
  word \in Word /\ Cut(word, call.parameters[i]) = Cut(call.arguments[i], call.parameters[i])

\* Where the ABI has the i-th word: registers g and x, or the words m after base.
Place(g, x, m, base, i) ==
  IF i <= 4 THEN IF Floating(call.parameters[i]) THEN x[i] ELSE g[i] ELSE m[base + i]
Passed(g, x, m, base) == \A i \in 1 .. arity : Carries(Place(g, x, m, base, i), i)

CallRecords ==
  [parameters : Signatures, arguments : Seq(Word), returns : Types, result : Word]
CallOK ==
  /\ at \in {"script", "bridge", "native", "returned", "result", "done",
             "foreign", "router", "dispatch", "function", "answered"}
  /\ call \in CallRecords
  /\ at \notin {"script", "foreign"} => \A i \in 1 .. arity : call.arguments[i] \in Word
  /\ xmm \in [1 .. 4 -> Word] /\ gpr \in [1 .. 4 -> Word]

\* The word holds the result as far as its type reaches.
IsResult(word) ==
  /\ word \in Word /\ call.result \in Word
  /\ Cut(word, call.returns) = Cut(call.result, call.returns)

Outwards ==
  /\ at \in {"script", "bridge"} => rsp = Top
  /\ at = "bridge" =>
       /\ values \in Seq(Word) /\ Len(values) = arity
       /\ \A i \in 1 .. arity : Carries(values[i], i)
  /\ at = "native" => Passed(gpr, xmm, memory, rsp) /\ rsp = CallFrame(Top - 7, arity) - 1
  /\ at \in {"native", "returned", "result"} => \A a \in Top - 7 .. Top - 2 : memory[a] = Saved
  /\ at = "returned" => IsResult(ReturnedBits(call.returns))
  /\ at = "result" => \E b \in Word : values = <<b>> /\ IsResult(b)
  /\ at = "done" => ResultIsNumber

Inwards ==
  /\ at = "router" => Passed(gpr, xmm, memory, rsp) /\ rsp = Top - 5 - arity - (arity % 2)
  /\ at = "dispatch" =>
       /\ Passed(frame.gpr, frame.xmm, memory, frame.stackArgs - 5)
       /\ frame.stackArgs \in Int /\ rsp % 2 = 0
  /\ at = "function" => ParametersArrive
  /\ at = "answered" => IsResult(ReturnedBits(call.returns))

ScalarInv == CallOK /\ Outwards /\ Inwards

LEMMA ParameterFacts ==
  ASSUME CallOK
  PROVE  /\ arity \in 0 .. MaxArguments /\ arity \in Nat /\ DOMAIN call.parameters = 1 .. arity
         /\ \A i \in 1 .. arity : call.parameters[i] \in Types
BY SignatureFacts, MaxArgumentsIsNat DEF CallOK, CallRecords, arity

\* Where the frame of call_dynamic_function lies: aligned, and with the home space
\* and all arguments below the saved registers.
LEMMA CallFrameFacts ==
  ASSUME NEW k \in 0 .. MaxArguments
  PROVE  LET base == CallFrame(Top - 7, k)
         IN /\ base \in Nat /\ base % 2 = 0
            /\ base + 4 <= Top - 7 /\ base + k <= Top - 7
<1>1. Top \in Nat /\ Top > 40 + MaxArguments /\ MaxArguments \in Nat /\ k \in Nat
  BY StackIsAlignedForCalls, MaxArgumentsIsNat
<1>2. PICK e \in Nat : e = (IF k > 4 THEN k - 4 ELSE 0) /\ e <= k /\ k <= e + 4
  <2>1. CASE k > 4
    <3>1. k - 4 \in Nat /\ k - 4 <= k /\ k <= k - 4 + 4
      BY <1>1, <2>1
    <3> QED
      BY <2>1, <3>1
  <2>2. CASE ~(k > 4)
    <3>1. 0 <= k /\ k <= 0 + 4
      BY <1>1, <2>2
    <3> QED
      BY <2>2, <3>1
  <2> QED
    BY <2>1, <2>2
<1>3. PICK address \in Nat : address = Top - 7 - 4 - e
  <2>1. k <= MaxArguments
    BY <1>1
  <2>2. Top - 7 - 4 - e \in Nat
    BY <1>1, <1>2, <2>1
  <2> QED
    BY <2>2
<1>4. CallFrame(Top - 7, k) = address - (address % 2)
  BY <1>2, <1>3 DEF CallFrame
<1>5. PICK r \in 0 .. 1 : r = address % 2 /\ address - r \in Nat /\ (address - r) % 2 = 0
  BY <1>3
<1>6. address - r + 4 <= Top - 7 /\ address - r + k <= Top - 7
  BY <1>1, <1>2, <1>3
<1> QED
  BY <1>4, <1>5, <1>6

-----------------------------------------------------------------------------
(* From script to native code.                                               *)

LEMMA EvalCallKeepsInv ==
  ASSUME ScalarInv, EvalCall
  PROVE  ScalarInv'
<1>1. PICK T \in Signatures, R \in ReturnTypes, w \in Words :
        /\ call' = [NoCall EXCEPT !.parameters = T, !.returns = R, !.arguments = Arguments(w, T)]
        /\ values' = [i \in DOMAIN T |-> Cast(Arguments(w, T)[i], Source(T[i]), T[i])]
  BY DEF EvalCall
<1>2. at = "script" /\ at' = "bridge" /\ UNCHANGED <<gpr, xmm, rax, rsp, memory, frame>>
  BY DEF EvalCall, machine
<1>3. PICK A \in Seq(Word) : A = Arguments(w, T)
  BY ArgumentFacts
<1>4. call'.parameters = T /\ call'.returns = R /\ call'.arguments = A /\ arity' = Len(T)
  BY <1>1, <1>3 DEF NoCall, arity
<1>5. /\ DOMAIN T = 1 .. Len(T) /\ Len(T) \in Nat
      /\ \A i \in 1 .. Len(T) : A[i] \in Word /\ T[i] \in Types
  BY <1>3, SignatureFacts, ArgumentFacts, MaxArgumentsIsNat
<1>6. \A i \in 1 .. Len(T) :
        /\ Cast(A[i], Source(T[i]), T[i]) \in Word
        /\ Cut(Cast(A[i], Source(T[i]), T[i]), T[i]) = Cut(A[i], T[i])
  BY <1>5, CastFacts
<1>7. values' = [i \in 1 .. Len(T) |-> Cast(A[i], Source(T[i]), T[i])]
  BY <1>1, <1>3, <1>5
<1>8. values' \in [1 .. Len(T) -> Word]
  BY <1>6, <1>7
<1>9. values' \in Seq(Word) /\ Len(values') = Len(T)
  BY <1>5, <1>8
<1>10. \A i \in 1 .. arity' : Carries(values[i], i)'
  BY <1>4, <1>6, <1>7 DEF Carries
<1>11. CallOK'
  <2>1. call' \in CallRecords
    <3>1. call' = [parameters |-> T, arguments |-> A, returns |-> R, result |-> 0]
      BY <1>1, <1>3 DEF NoCall
    <3>2. 0 \in Word /\ R \in Types
      BY WordFacts, TypesAreScalar
    <3> QED
      BY <3>1, <3>2 DEF CallRecords
  <2> QED
    BY <1>2, <1>4, <1>5, <2>1 DEF ScalarInv, CallOK
<1> QED
  BY <1>2, <1>4, <1>9, <1>10, <1>11 DEF ScalarInv, Outwards, Inwards

LEMMA CallDynamicFunctionKeepsInv ==
  ASSUME ScalarInv, CallDynamicFunction
  PROVE  ScalarInv'
<1>1. PICK base : base = CallFrame(Top - 7, arity)
  OBVIOUS
<1>2. CallOK /\ rsp = Top /\ Len(values) = arity /\ Top \in Nat
  BY StackIsAlignedForCalls DEF ScalarInv, Outwards, CallDynamicFunction
<1>3. rsp - 1 - 6 = Top - 7
  BY <1>2
<1>4. /\ at = "bridge" /\ at' = "native" /\ UNCHANGED <<call, rax, values, frame>>
      /\ memory' = [a \in Addresses |->
                     CASE a \in Top - 7 .. Top - 2 -> Saved
                       [] a \in base + 4 .. base + arity - 1 -> values[a - base + 1]
                       [] OTHER -> memory[a]]
      /\ gpr' = [i \in 1 .. 4 |-> IF i <= arity THEN values[i] ELSE gpr[i]]
      /\ xmm' = [i \in 1 .. 4 |-> IF i \in FloatMask(call.parameters) THEN values[i] ELSE xmm[i]]
      /\ rsp' = base - 1
  BY <1>1, <1>2, <1>3 DEF CallDynamicFunction
<1>5. /\ arity \in Nat /\ arity <= MaxArguments /\ DOMAIN call.parameters = 1 .. arity
      /\ base \in Nat /\ base + arity <= Top - 7
  BY <1>1, <1>2, ParameterFacts, CallFrameFacts
<1>6. arity' = arity /\ \A v, i : Carries(v, i)' <=> Carries(v, i)
  BY <1>4 DEF arity, Carries
<1>7. \A i \in 1 .. arity : Carries(values[i], i) /\ values[i] \in Word
  BY <1>4 DEF ScalarInv, Outwards, Carries
<1>8. gpr' \in [1 .. 4 -> Word] /\ xmm' \in [1 .. 4 -> Word]
  <2>1. \A i \in 1 .. 4 : gpr[i] \in Word /\ xmm[i] \in Word
    BY <1>2 DEF CallOK
  <2>2. \A i \in 1 .. 4 : i <= arity => i \in 1 .. arity
    BY <1>5
  <2>3. \A i \in FloatMask(call.parameters) : i \in 1 .. arity
    BY <1>5 DEF FloatMask
  <2> QED
    BY <1>4, <1>7, <2>1, <2>2, <2>3
<1>9. \A a \in Top - 7 .. Top - 2 : memory'[a] = Saved
  <2> SUFFICES ASSUME NEW a \in Top - 7 .. Top - 2 PROVE memory'[a] = Saved
    OBVIOUS
  <2>1. a \in Addresses
    BY <1>2, StackIsAlignedForCalls, MaxArgumentsIsNat DEF Addresses
  <2>2. memory'[a] = CASE a \in Top - 7 .. Top - 2 -> Saved
                       [] a \in base + 4 .. base + arity - 1 -> values[a - base + 1]
                       [] OTHER -> memory[a]
    BY <1>4, <2>1
  <2>3. a \notin base + 4 .. base + arity - 1
    BY <1>2, <1>5
  <2> QED
    BY <2>2, <2>3
<1>10. ASSUME NEW i \in 1 .. arity PROVE Place(gpr', xmm', memory', rsp', i) = values[i]
  <2>1. CASE i <= 4
    BY <1>4, <1>5, <2>1 DEF Place, FloatMask
  <2>2. CASE i > 4
    <3>1. PICK a \in Int : a = base + i - 1 /\ rsp' + i = a /\ a - base + 1 = i
      BY <1>4, <1>5
    <3>2. a \in base + 4 .. base + arity - 1 /\ a \notin Top - 7 .. Top - 2
      BY <1>2, <1>5, <2>2, <3>1
    <3>3. a \in Addresses
      BY <1>2, <1>5, <3>1, MaxArgumentsIsNat DEF Addresses
    <3>4. memory'[a] = CASE a \in Top - 7 .. Top - 2 -> Saved
                         [] a \in base + 4 .. base + arity - 1 -> values[a - base + 1]
                         [] OTHER -> memory[a]
      BY <1>4, <3>3
    <3>5. memory'[a] = values[a - base + 1]
      BY <3>2, <3>4
    <3> QED
      BY <2>2, <3>1, <3>5 DEF Place
  <2> QED
    BY <2>1, <2>2
<1>11. Passed(gpr, xmm, memory, rsp)'
  <2>1. \A i \in 1 .. arity : Place(gpr, xmm, memory, rsp, i)' = values[i]
    BY <1>4, <1>10 DEF Place
  <2> QED
    BY <1>6, <1>7, <2>1 DEF Passed
<1>12. rsp' = CallFrame(Top - 7, arity') - 1
  BY <1>1, <1>4, <1>6
<1>13. CallOK'
  BY <1>4, <1>6, <1>8 DEF ScalarInv, CallOK
<1> QED
  BY <1>4, <1>9, <1>11, <1>12, <1>13 DEF ScalarInv, Outwards, Inwards

LEMMA NativeReturnsKeepsInv ==
  ASSUME ScalarInv, NEW w \in Words, NEW upper \in Upper, NativeReturns(w, upper)
  PROVE  ScalarInv'
<1> DEFINE T == call.returns
<1>1. PICK c, word : /\ c = Cut(w, T)
                     /\ word = IF T \in Narrow THEN Cut(w, T) + Half * upper ELSE w
  OBVIOUS
<1>2. /\ at = "native" /\ at' = "returned"
      /\ call' = [call EXCEPT !.result = c]
      /\ rax' = IF Floating(T) THEN upper ELSE word
      /\ xmm' = [xmm EXCEPT ![1] = IF Floating(T) THEN word ELSE upper]
      /\ memory' = [a \in Addresses |->
                     IF a \in rsp + 1 .. rsp + 4 \/ a \in rsp + 5 .. rsp + Len(call.parameters)
                     THEN Junk ELSE memory[a]]
      /\ UNCHANGED <<gpr, values, frame>>
  BY <1>1 DEF NativeReturns
<1>3. CallOK /\ T \in Types /\ w \in Word
  BY WordsAreWords DEF ScalarInv, CallOK, CallRecords
<1>4. c \in Word /\ Cut(c, T) = c
  BY <1>1, <1>3, CutFacts
<1>5. word \in Word /\ Cut(word, T) = c
  <2>1. CASE T \in Narrow
    <3>1. c \in 0 .. Half - 1 /\ word = c + Half * upper
      BY <1>1, <1>3, <2>1, CutFacts
    <3>2. word \in Word /\ word % Half = c
      BY <3>1, UpperFacts
    <3> QED
      BY <2>1, <3>2 DEF Cut
  <2>2. CASE T \notin Narrow
    BY <1>1, <1>3, <2>2, CutFacts
  <2> QED
    BY <2>1, <2>2
<1>6. upper \in Word
  BY WordFacts DEF Upper
<1>7. /\ call'.parameters = call.parameters /\ call'.arguments = call.arguments
      /\ call'.returns = T /\ call'.result = c /\ arity' = arity
  <2>1. call'.parameters = call.parameters /\ call'.arguments = call.arguments /\ call'.returns = T
    BY <1>2
  <2>2. call'.result = c
    BY <1>2, <1>3 DEF CallOK, CallRecords
  <2> QED
    BY <2>1, <2>2 DEF arity
<1>8. xmm' \in [1 .. 4 -> Word] /\ xmm'[1] = IF Floating(T) THEN word ELSE upper
  BY <1>2, <1>3, <1>5, <1>6 DEF CallOK
<1>9. CallOK'
  <2>1. call' \in CallRecords
    BY <1>2, <1>3, <1>4 DEF CallOK, CallRecords
  <2> QED
    BY <1>2, <1>3, <1>7, <1>8, <2>1 DEF CallOK
<1>10. ReturnedBits(call.returns)' = word
  BY <1>2, <1>7, <1>8 DEF ReturnedBits
<1>11. IsResult(ReturnedBits(call.returns))'
  BY <1>4, <1>5, <1>7, <1>10 DEF IsResult
<1>12. \A a \in Top - 7 .. Top - 2 : memory'[a] = Saved
  <2> SUFFICES ASSUME NEW a \in Top - 7 .. Top - 2 PROVE memory'[a] = Saved
    OBVIOUS
  <2>1. PICK base : base = CallFrame(Top - 7, arity) /\ rsp = base - 1
    BY <1>2 DEF ScalarInv, Outwards
  <2>2. arity \in Nat /\ Top \in Nat /\ base \in Nat /\ base + 4 <= Top - 7 /\ base + arity <= Top - 7
    BY <1>3, <2>1, ParameterFacts, CallFrameFacts, StackIsAlignedForCalls
  <2>3. a \in Addresses
    BY <2>2, MaxArgumentsIsNat DEF Addresses
  <2>4. a \notin rsp + 1 .. rsp + 4 /\ a \notin rsp + 5 .. rsp + arity
    BY <2>1, <2>2
  <2>5. memory'[a] = memory[a]
    BY <1>2, <2>3, <2>4 DEF arity
  <2> QED
    BY <1>2, <2>5 DEF ScalarInv, Outwards
<1> QED
  BY <1>2, <1>9, <1>11, <1>12 DEF ScalarInv, Outwards, Inwards

LEMMA ReturnToScriptKeepsInv ==
  ASSUME ScalarInv, ReturnToScript
  PROVE  ScalarInv'
<1>1. PICK b : b = ReturnedBits(call.returns)
  OBVIOUS
<1>2. /\ at = "returned" /\ at' = "result" /\ values' = <<b>>
      /\ UNCHANGED <<call, gpr, xmm, memory, frame>>
  BY <1>1 DEF ReturnToScript
<1>3. IsResult(b) /\ b \in Word
  BY <1>1, <1>2 DEF ScalarInv, Outwards, IsResult
<1>4. IsResult(b)'
  BY <1>2, <1>3 DEF IsResult
<1>5. CallOK'
  BY <1>2 DEF ScalarInv, CallOK, arity
<1> QED
  BY <1>2, <1>3, <1>4, <1>5 DEF ScalarInv, Outwards, Inwards

LEMMA StoreResultKeepsInv ==
  ASSUME ScalarInv, StoreResult
  PROVE  ScalarInv'
<1> DEFINE T == call.returns
<1>1. /\ at = "result" /\ at' = "done" /\ UNCHANGED <<call, machine, frame>>
      /\ values' = <<Normalize(Cut(values[1], T), T)>>
  BY DEF StoreResult
<1>2. PICK b \in Word : values = <<b>> /\ IsResult(b)
  BY <1>1 DEF ScalarInv, Outwards
<1>3. T \in Types /\ call.result \in Word /\ Cut(b, T) = Cut(call.result, T)
  BY <1>2 DEF ScalarInv, CallOK, CallRecords, IsResult
<1>4. PICK c \in Word : c = Cut(b, T)
  BY <1>3, CutFacts
<1>5. ScriptNumber(Normalize(c, T), T) = Number(c, T)
  BY <1>3, NormalizeFacts
<1>6. Number(c, T) = Number(call.result, T)
  BY <1>3, <1>4, NormalizeFacts
<1>7. values'[1] = Normalize(c, T)
  BY <1>1, <1>2, <1>4
<1>8. ResultIsNumber'
  BY <1>1, <1>5, <1>6, <1>7 DEF ResultIsNumber
<1>9. CallOK'
  BY <1>1 DEF ScalarInv, CallOK, arity, machine
<1> QED
  BY <1>1, <1>8, <1>9 DEF ScalarInv, Outwards, Inwards

-----------------------------------------------------------------------------
(* From native code to a script function.                                    *)

LEMMA CallTrampolineKeepsInv ==
  ASSUME ScalarInv, CallTrampoline
  PROVE  ScalarInv'
<1>1. PICK T \in Signatures, R \in ReturnTypes, w \in Words, upper \in Upper :
        /\ call' = [NoCall EXCEPT !.parameters = T, !.returns = R, !.arguments = Arguments(w, T)]
        /\ Passes(T, w, upper)
  BY DEF CallTrampoline
<1>2. at = "foreign" /\ at' = "router" /\ UNCHANGED <<rax, values, frame>>
  BY DEF CallTrampoline
<1>3. PICK A \in Seq(Word), m \in Nat : A = Arguments(w, T) /\ m = Len(T)
  BY ArgumentFacts, SignatureFacts, MaxArgumentsIsNat
<1>4. /\ call'.parameters = T /\ call'.returns = R /\ call'.arguments = A /\ arity' = m
  BY <1>1, <1>3 DEF NoCall, arity
<1>5. /\ DOMAIN T = 1 .. m /\ m \in Nat /\ m <= MaxArguments
      /\ \A i \in 1 .. m : A[i] \in Word /\ T[i] \in Types
  BY <1>3, SignatureFacts, ArgumentFacts, MaxArgumentsIsNat
<1>6. PICK word : word = [i \in DOMAIN T |-> Cut(A[i], T[i]) + IF T[i] \in Narrow THEN Half * upper ELSE 0]
  OBVIOUS
<1>7. PICK entry : entry = Top - 5 - m - (m % 2)
  OBVIOUS
<1>8. /\ gpr' = [i \in 1 .. 4 |-> IF i <= m /\ ~Floating(T[i]) THEN word[i] ELSE upper]
      /\ xmm' = [i \in 1 .. 4 |-> IF i <= m /\ Floating(T[i]) THEN word[i] ELSE upper]
      /\ rsp' = entry
      /\ memory' = [a \in Addresses |-> IF a \in entry + 5 .. entry + m THEN word[a - entry]
                                                                       ELSE memory[a]]
  BY <1>1, <1>3, <1>6, <1>7 DEF Passes
<1>9. ASSUME NEW i \in 1 .. m
      PROVE  word[i] \in Word /\ Cut(word[i], T[i]) = Cut(A[i], T[i])
  <2>1. /\ A[i] \in Word /\ T[i] \in Types
        /\ word[i] = Cut(A[i], T[i]) + IF T[i] \in Narrow THEN Half * upper ELSE 0
    BY <1>5, <1>6
  <2>2. CASE T[i] \in Narrow
    <3>1. PICK c \in 0 .. Half - 1 : c = Cut(A[i], T[i]) /\ word[i] = c + Half * upper
      BY <2>1, <2>2, CutFacts
    <3>2. word[i] \in Word /\ word[i] % Half = c
      BY <3>1, UpperFacts
    <3> QED
      BY <2>2, <3>1, <3>2 DEF Cut
  <2>3. CASE T[i] \notin Narrow
    <3>1. Cut(A[i], T[i]) = A[i] /\ A[i] \in Int
      BY <2>1, <2>3, CutFacts DEF Word
    <3>2. word[i] = A[i]
      BY <2>1, <2>3, <3>1
    <3> QED
      BY <2>1, <3>2
  <2> QED
    BY <2>2, <2>3
<1>10. upper \in Word
  BY WordFacts DEF Upper
<1>11. gpr' \in [1 .. 4 -> Word] /\ xmm' \in [1 .. 4 -> Word]
  <2>1. \A i \in 1 .. 4 : i <= m => word[i] \in Word
    BY <1>5, <1>9
  <2> QED
    BY <1>8, <1>10, <2>1
<1>12. CallOK'
  <2>1. call' \in CallRecords
    <3>1. call' = [parameters |-> T, arguments |-> A, returns |-> R, result |-> 0]
      BY <1>1, <1>3 DEF NoCall
    <3>2. 0 \in Word /\ R \in Types
      BY WordFacts, TypesAreScalar
    <3> QED
      BY <3>1, <3>2 DEF CallRecords
  <2> QED
    BY <1>2, <1>4, <1>5, <1>11, <2>1 DEF ScalarInv, CallOK
<1>13. entry \in Nat /\ Top \in Nat
  <2>1. Top \in Nat /\ Top > 40 + MaxArguments /\ MaxArguments \in Nat
    BY StackIsAlignedForCalls, MaxArgumentsIsNat
  <2>2. PICK r \in 0 .. 1 : r = m % 2
    BY <1>5
  <2>3. Top - 5 - m - r \in Nat
    BY <1>5, <2>1
  <2> QED
    BY <1>7, <2>1, <2>2, <2>3
<1>14. ASSUME NEW i \in 1 .. m
       PROVE  Carries(Place(gpr, xmm, memory, rsp, i), i)'
  <2>1. CASE i <= 4
    <3>1. Place(gpr, xmm, memory, rsp, i)' = word[i]
      BY <1>4, <1>5, <1>8, <2>1 DEF Place
    <3> QED
      BY <1>4, <1>9, <3>1 DEF Carries
  <2>2. CASE ~(i <= 4)
    <3>1. PICK a \in Int : a = entry + i /\ a - entry = i
      BY <1>5, <1>13
    <3>2. a \in entry + 5 .. entry + m
      BY <1>5, <1>13, <2>2, <3>1
    <3>3. entry + m <= Top
      BY <1>5, <1>7, <1>13
    <3>4. a \in Addresses
      BY <1>5, <1>13, <3>1, <3>2, <3>3, MaxArgumentsIsNat DEF Addresses
    <3>5. memory'[a] = word[i]
      BY <1>8, <3>1, <3>2, <3>4
    <3>6. Place(gpr, xmm, memory, rsp, i)' = word[i]
      BY <1>8, <2>2, <3>1, <3>5 DEF Place
    <3> QED
      BY <1>4, <1>9, <3>6 DEF Carries
  <2> QED
    BY <2>1, <2>2
<1>15. Passed(gpr, xmm, memory, rsp)'
  BY <1>4, <1>14 DEF Passed
<1> QED
  BY <1>2, <1>4, <1>7, <1>8, <1>12, <1>15 DEF ScalarInv, Outwards, Inwards

LEMMA SaveFrameKeepsInv ==
  ASSUME ScalarInv, SaveFrame
  PROVE  ScalarInv'
<1>1. /\ at = "router" /\ at' = "dispatch" /\ rsp' = rsp - 21
      /\ frame' = [gpr |-> gpr, xmm |-> xmm, stackArgs |-> rsp - 21 + 26]
      /\ UNCHANGED <<call, gpr, xmm, rax, memory, values>>
  BY DEF SaveFrame, StackArguments
<1>2. CallOK /\ Passed(gpr, xmm, memory, rsp) /\ rsp = Top - 5 - arity - (arity % 2)
  BY <1>1 DEF ScalarInv, Inwards
<1>3. arity \in Nat /\ Top \in Nat /\ Top % 2 = 0
  BY <1>2, ParameterFacts, StackIsAlignedForCalls
<1>4. PICK r \in 0 .. 1 : r = arity % 2 /\ (arity + r) % 2 = 0
  BY <1>3
<1>5. rsp \in Int /\ (rsp - 21) % 2 = 0 /\ rsp - 21 + 26 - 5 = rsp /\ rsp - 21 + 26 \in Int
  BY <1>2, <1>3, <1>4
<1>6. frame'.gpr = gpr /\ frame'.xmm = xmm /\ frame'.stackArgs - 5 = rsp /\ frame'.stackArgs \in Int
  BY <1>1, <1>5
<1>7. \A i \in 1 .. arity : Place(frame.gpr, frame.xmm, memory, frame.stackArgs - 5, i)'
                          = Place(gpr, xmm, memory, rsp, i)
  BY <1>1, <1>6 DEF Place
<1>8. Passed(frame.gpr, frame.xmm, memory, frame.stackArgs - 5)'
  BY <1>1, <1>2, <1>7 DEF Passed, Carries, arity
<1>9. CallOK'
  BY <1>1, <1>2 DEF CallOK, arity
<1> QED
  BY <1>1, <1>5, <1>6, <1>8, <1>9 DEF ScalarInv, Outwards, Inwards

LEMMA BindParametersKeepsInv ==
  ASSUME ScalarInv, BindParameters
  PROVE  ScalarInv'
<1>1. /\ at = "dispatch" /\ at' = "function" /\ UNCHANGED <<call, machine, frame>>
      /\ values' = [i \in DOMAIN call.parameters |->
                     LET T == call.parameters[i]
                     IN Normalize(Cut(Cast(ParameterBits(i, T), T, T), T), T)]
  BY DEF BindParameters
<1>2. /\ CallOK /\ Passed(frame.gpr, frame.xmm, memory, frame.stackArgs - 5)
      /\ frame.stackArgs \in Int
  BY <1>1 DEF ScalarInv, Inwards
<1>3. arity \in Nat /\ DOMAIN call.parameters = 1 .. arity
  BY <1>2, ParameterFacts
<1>4. ASSUME NEW i \in 1 .. arity
      PROVE  ScriptNumber(values'[i], call.parameters[i]) = Number(call.arguments[i], call.parameters[i])
  <2>1. PICK T \in Types, b \in Word, a \in Word :
          /\ T = call.parameters[i] /\ a = call.arguments[i]
          /\ b = Place(frame.gpr, frame.xmm, memory, frame.stackArgs - 5, i)
          /\ Cut(b, T) = Cut(a, T)
    BY <1>1, <1>2, ParameterFacts DEF Passed, Carries, CallOK
  <2>2. b = ParameterBits(i, T)
    <3>1. frame.stackArgs - 5 + i = frame.stackArgs + i - 5 /\ (i <= 4 \/ i > 4) /\ ~(i <= 4 /\ i > 4)
      BY <1>2, <1>3
    <3> QED
      BY <2>1, <3>1 DEF Place, ParameterBits
  <2>3. PICK c \in Word : c = Cut(b, T)
    BY CutFacts
  <2>4. values'[i] = Normalize(c, T)
    BY <1>1, <1>3, <2>1, <2>2, <2>3 DEF Cast
  <2>5. ScriptNumber(Normalize(c, T), T) = Number(c, T)
    BY NormalizeFacts
  <2>6. Number(c, T) = Number(a, T)
    BY <2>1, <2>3, NormalizeFacts
  <2> QED
    BY <2>1, <2>4, <2>5, <2>6
<1>5. ParametersArrive'
  BY <1>1, <1>3, <1>4 DEF ParametersArrive
<1>6. CallOK'
  BY <1>1, <1>2 DEF CallOK, arity, machine
<1> QED
  BY <1>1, <1>5, <1>6 DEF ScalarInv, Outwards, Inwards

LEMMA ReturnToNativeKeepsInv ==
  ASSUME ScalarInv, NEW w \in Words, ReturnToNative(w)
  PROVE  ScalarInv'
<1>1. PICK T, c, bits : T = call.returns /\ c = Cut(w, Source(T)) /\ bits = Cast(c, Source(T), T)
  OBVIOUS
<1>2. /\ at = "function" /\ at' = "answered" /\ call' = [call EXCEPT !.result = c]
      /\ rax' = bits /\ xmm' = [xmm EXCEPT ![1] = IF Floating(T) THEN bits ELSE @]
      /\ UNCHANGED <<gpr, memory, frame>>
  BY <1>1 DEF ReturnToNative
<1>3. CallOK /\ T \in Types /\ w \in Word /\ Source(T) \in Types
  BY <1>1, WordsAreWords, TypeFacts DEF ScalarInv, CallOK, CallRecords
<1>4. c \in Word
  BY <1>1, <1>3, CutFacts
<1>5. bits \in Word /\ Cut(bits, T) = Cut(c, T)
  BY <1>1, <1>3, <1>4, CastFacts
<1>6. /\ call'.parameters = call.parameters /\ call'.arguments = call.arguments
      /\ call'.returns = T /\ call'.result = c /\ arity' = arity
  BY <1>1, <1>2, <1>3 DEF CallOK, CallRecords, arity
<1>7. xmm' \in [1 .. 4 -> Word] /\ (Floating(T) => xmm'[1] = bits)
  BY <1>2, <1>3, <1>5 DEF CallOK
<1>8. ReturnedBits(call.returns)' = bits
  BY <1>2, <1>6, <1>7 DEF ReturnedBits
<1>9. IsResult(ReturnedBits(call.returns))'
  BY <1>4, <1>5, <1>6, <1>8 DEF IsResult
<1>10. CallOK'
  <2>1. call' \in CallRecords
    BY <1>2, <1>3, <1>4 DEF CallOK, CallRecords
  <2> QED
    BY <1>2, <1>3, <1>6, <1>7, <2>1 DEF CallOK
<1> QED
  BY <1>2, <1>9, <1>10 DEF ScalarInv, Outwards, Inwards

-----------------------------------------------------------------------------
(* The theorems.                                                             *)

\* The inductive invariant: the words of a call are where the ABI says, and hold
\* arguments and results as far as their types reach.
THEOREM CallsKeepTheirWords == Spec => []ScalarInv
<1>1. Init => ScalarInv
  <2> SUFFICES ASSUME Init PROVE ScalarInv
    OBVIOUS
  <2>1. /\ at \in {"script", "foreign"} /\ call = NoCall /\ rsp = Top
        /\ gpr = [i \in 1 .. 4 |-> 0] /\ xmm = [i \in 1 .. 4 |-> 0]
    BY DEF Init
  <2>2. 0 \in Word
    BY WordFacts
  <2>3. <<>> \in Signatures /\ <<>> \in Seq(Word) /\ "i64" \in Types
    <3>1. <<>> \in [1 .. 0 -> ParameterTypes] /\ <<>> \in Seq(Word)
      OBVIOUS
    <3>2. 0 \in 0 .. MaxArguments
      BY MaxArgumentsIsNat
    <3> QED
      BY <3>1, <3>2 DEF Signatures, Types
  <2>4. NoCall \in CallRecords
    BY <2>2, <2>3 DEF NoCall, CallRecords
  <2>5. CallOK
    BY <2>1, <2>2, <2>4 DEF CallOK
  <2> QED
    BY <2>1, <2>5 DEF ScalarInv, Outwards, Inwards
<1>2. ScalarInv /\ [Next]_vars => ScalarInv'
  <2> SUFFICES ASSUME ScalarInv, [Next]_vars PROVE ScalarInv'
    OBVIOUS
  <2>1. CASE EvalCall
    BY <2>1, EvalCallKeepsInv
  <2>2. CASE CallDynamicFunction
    BY <2>2, CallDynamicFunctionKeepsInv
  <2>3. ASSUME NEW w \in Words, NEW upper \in Upper, NativeReturns(w, upper) PROVE ScalarInv'
    BY <2>3, NativeReturnsKeepsInv
  <2>4. CASE ReturnToScript
    BY <2>4, ReturnToScriptKeepsInv
  <2>5. CASE StoreResult
    BY <2>5, StoreResultKeepsInv
  <2>6. CASE CallTrampoline
    BY <2>6, CallTrampolineKeepsInv
  <2>7. CASE SaveFrame
    BY <2>7, SaveFrameKeepsInv
  <2>8. CASE BindParameters
    BY <2>8, BindParametersKeepsInv
  <2>9. ASSUME NEW w \in Words, ReturnToNative(w) PROVE ScalarInv'
    BY <2>9, ReturnToNativeKeepsInv
  <2>10. CASE UNCHANGED vars
    <3>1. UNCHANGED <<at, call, gpr, xmm, rax, rsp, memory, values, frame>>
      BY <2>10 DEF vars, machine
    <3>2. CallOK'
      BY <3>1 DEF ScalarInv, CallOK, arity
    <3>3. Outwards'
      BY <3>1 DEF ScalarInv, Outwards, Passed, Carries, Place, arity, IsResult, ReturnedBits, ResultIsNumber
    <3>4. Inwards'
      BY <3>1 DEF ScalarInv, Inwards, Passed, Carries, Place, arity, IsResult, ReturnedBits, ParametersArrive
    <3> QED
      BY <3>2, <3>3, <3>4 DEF ScalarInv
  <2> QED
    BY <2>1, <2>2, <2>3, <2>4, <2>5, <2>6, <2>7, <2>8, <2>9, <2>10 DEF Next, Done
<1> QED
  BY <1>1, <1>2, PTL DEF Spec

\* However many arguments of whichever types are passed, native code finds each
\* where the Win64 ABI says (ffi_call_scalar, call_dynamic_function).
THEOREM ArgumentsAlwaysArrive == Spec => []ArgumentsArrive
<1>1. ScalarInv => ArgumentsArrive
  <2> SUFFICES ASSUME ScalarInv, at = "native", NEW i \in DOMAIN call.parameters
               PROVE  /\ Argument(i) \in Word
                      /\ Cut(Argument(i), call.parameters[i]) = Cut(call.arguments[i], call.parameters[i])
    BY DEF ArgumentsArrive
  <2>1. i \in 1 .. arity /\ i \in Int
    BY ParameterFacts DEF ScalarInv
  <2>2. Carries(Place(gpr, xmm, memory, rsp, i), i)
    BY <2>1 DEF ScalarInv, Outwards, Passed
  <2>3. Argument(i) = Place(gpr, xmm, memory, rsp, i)
    BY <2>1 DEF Argument, Place
  <2> QED
    BY <2>2, <2>3 DEF Carries
<1> QED
  BY <1>1, CallsKeepTheirWords, PTL

\* The stack is aligned at every call of native code and of dispatch_script_callback.
THEOREM StackIsAlwaysAligned == Spec => []StackIsAligned
<1>1. ScalarInv => StackIsAligned
  <2> SUFFICES ASSUME ScalarInv, at = "native" PROVE rsp % 2 = 1
    BY DEF StackIsAligned, ScalarInv, Inwards
  <2>1. PICK base \in Nat : rsp = base - 1 /\ base % 2 = 0
    BY ParameterFacts, CallFrameFacts DEF ScalarInv, Outwards
  <2> QED
    BY <2>1
<1> QED
  BY <1>1, CallsKeepTheirWords, PTL

\* Native code that uses its home space and its arguments' places as the ABI allows
\* leaves the registers that call_dynamic_function has saved.
THEOREM SavedRegistersAreAlwaysKept == Spec => []SavedRegistersAreKept
<1>1. ScalarInv => SavedRegistersAreKept
  BY DEF ScalarInv, Outwards, SavedRegistersAreKept
<1> QED
  BY <1>1, CallsKeepTheirWords, PTL

\* A script function that native code calls has as parameters the numbers it passed
\* (script_callback_router, dispatch_script_callback, bind_parameter).
THEOREM ParametersAlwaysArrive == Spec => []ParametersArrive
<1>1. ScalarInv => ParametersArrive
  BY DEF ScalarInv, Inwards, ParametersArrive
<1> QED
  BY <1>1, CallsKeepTheirWords, PTL

\* A result that is stored, and a script function's result, is the number that was
\* returned, whatever the upper half of its register holds.
THEOREM ResultsAlwaysArrive == Spec => []ResultsArrive
<1>1. ScalarInv => ResultsArrive
  BY DEF ScalarInv, Outwards, Inwards, IsResult, ResultsArrive
<1> QED
  BY <1>1, CallsKeepTheirWords, PTL

-----------------------------------------------------------------------------
(* Types.                                                                    *)
USE MainIsThread, WordHoldsAlignments, BoundsAreNat, ExtentsAreNat, PacksArePowers

-----------------------------------------------------------------------------
(* Arithmetic.                                                               *)

\* The comparison in make_array is exact: what passes it does not overflow.
LEMMA ProductFits ==
  ASSUME NEW s \in Nat \ {0}, NEW n \in Nat, NEW m \in Nat, n <= m \div s
  PROVE  s * n <= m
<1> DEFINE q == m \div s
<1>1. q \in Nat /\ s * q <= m
  BY Z3
<1>2. q \in Int /\ n <= q
  BY <1>1
<1> HIDE DEF q
<1>3. s * n <= s * q
  BY <1>2, Z3
<1> QED
  BY <1>1, <1>2, <1>3

\* An array of aligned elements is aligned.
LEMMA ProductIsAligned ==
  ASSUME NEW s \in Nat, NEW n \in Nat, NEW a \in {1, 2, 4, 8, 16}, s % a = 0
  PROVE  (s * n) % a = 0
<1> DEFINE k == s \div a
<1>1. k \in Int /\ s = a * k
  BY Z3
<1> HIDE DEF k
<1>2. PICK j \in Int : j = k * n
  BY <1>1
<1>3. s * n = a * j
  BY <1>1, <1>2, Z3
<1> QED
  BY <1>2, <1>3, Z3

\* align_up yields a word that is aligned and, if the sum was not cut, the
\* first such at or after the value.
LEMMA AlignUpFacts ==
  ASSUME NEW v \in 0 .. MaxWord, NEW a \in {1, 2, 4, 8, 16}
  PROVE  /\ AlignUp(v, a) \in 0 .. MaxWord
         /\ AlignUp(v, a) % a = 0
         /\ v <= AlignUp(v, a) => AlignUp(v, a) < v + a
BY Z3 DEF AlignUp

\* A sequence with one more element.
LEMMA AppendFacts ==
  ASSUME NEW S, NEW s \in Seq(S), NEW x \in S
  PROVE  /\ Len(s) \in Nat /\ Len(Append(s, x)) = Len(s) + 1
         /\ DOMAIN s = 1 .. Len(s) /\ DOMAIN Append(s, x) = 1 .. Len(s) + 1
         /\ Append(s, x)[Len(s) + 1] = x
         /\ \A i \in 1 .. Len(s) : Append(s, x)[i] = s[i]
OBVIOUS

-----------------------------------------------------------------------------
(* The inductive invariant.                                                  *)

\* A thread that makes an array type has found its element type, and the
\* array's size fits in a word.
MakingIsPossible ==
  \A t \in Threads :
    making[t] # Idle =>
      making[t][1] \in DOMAIN types /\ ~TooLarge(making[t][1], making[t][2])

\* Every array type is the one that its element type and extent lead to.
ArraysAreFound ==
  \A i \in DOMAIN types :
    types[i].kind = "array" =>
      /\ <<types[i].element, types[i].count>> \in Keys
      /\ arrays[<<types[i].element, types[i].count>>] = i

\* What make_aggregate has laid out so far is sound, and ends at size.
BuildingIsSound ==
  building # Idle =>
    LET l == building.layout
    IN /\ building.kind = "struct" /\ l.exact =>
            FieldsAreSound(l) /\ End(l, Len(l.fields)) = l.size
       /\ building.kind = "union" => SoundUnion(l)

RegistryInv ==
  /\ TypeInfosOK /\ MakingIsPossible /\ ArraysAreFound
  /\ BuildingIsSound /\ LayoutsAreSound /\ SizesAreAligned

\* A type is added: the others keep their numbers.
LEMMA AddingKeepsTypes ==
  ASSUME types \in Seq(TypeInfo), NEW info \in TypeInfo,
         types' = Append(types, info), Len(types) < MaxTypes
  PROVE  /\ types' \in Seq(TypeInfo) /\ Len(types') = Len(types) + 1
         /\ Len(types') <= MaxTypes
         /\ DOMAIN types' = DOMAIN types \cup {Len(types) + 1}
         /\ \A i \in DOMAIN types : types'[i] = types[i]
         /\ types'[Len(types) + 1] = info
OBVIOUS

LEMMA InitEstablishesRegistryInv == TypesInit => RegistryInv
<1> SUFFICES ASSUME TypesInit PROVE RegistryInv
  OBVIOUS
<1> USE PrimitivesAreTypes DEF TypesInit
<1>1. TypeInfosOK
  BY DEF TypeInfosOK, NoType
<1>2. MakingIsPossible /\ BuildingIsSound
  BY DEF MakingIsPossible, BuildingIsSound
<1>3. \A i \in DOMAIN types : types[i].kind = "primitive"
  OBVIOUS
<1>4. ArraysAreFound
  BY <1>3 DEF ArraysAreFound
<1>5. LayoutsAreSound
  BY <1>3 DEF LayoutsAreSound, Sound
<1>6. SizesAreAligned
  BY DEF SizesAreAligned
<1> QED
  BY <1>1, <1>2, <1>4, <1>5, <1>6 DEF RegistryInv

\* A thread does not find the array type.
LEMMA LookUpArrayKeepsInv ==
  ASSUME RegistryInv, NEW t \in Threads, NEW e \in DOMAIN types, NEW n \in Counts,
         LookUpArray(t, e, n)
  PROVE  RegistryInv'
<1> USE DEF RegistryInv
<1>1. <<e, n>> \in Keys
  <2>1. types \in Seq(TypeInfo) /\ Len(types) <= MaxTypes
    BY DEF TypeInfosOK
  <2>2. Len(types) \in Nat /\ DOMAIN types = 1 .. Len(types)
    BY <2>1
  <2>3. e \in 1 .. MaxTypes
    BY <2>1, <2>2
  <2> QED
    BY <2>3 DEF Keys, Ids
<1>2. TypeInfosOK'
  BY <1>1 DEF TypeInfosOK, LookUpArray
<1>3. MakingIsPossible'
  BY <1>1 DEF LookUpArray, MakingIsPossible, TypeInfosOK, TooLarge
<1>4. UNCHANGED <<types, arrays, building>>
  BY DEF LookUpArray
<1>5. ArraysAreFound' /\ BuildingIsSound' /\ LayoutsAreSound' /\ SizesAreAligned'
  BY <1>4 DEF ArraysAreFound, BuildingIsSound, LayoutsAreSound, SizesAreAligned
<1> QED
  BY <1>2, <1>3, <1>5

\* The array type of a key that passed the comparison is a type, and aligned.
LEMMA ArrayOfFacts ==
  ASSUME RegistryInv, NEW e \in DOMAIN types, NEW n \in Counts, ~TooLarge(e, n)
  PROVE  /\ ArrayOf(e, n) \in TypeInfo
         /\ ArrayOf(e, n).kind = "array"
         /\ ArrayOf(e, n).element = e /\ ArrayOf(e, n).count = n
         /\ ArrayOf(e, n).layout.size % ArrayOf(e, n).layout.align = 0
<1> DEFINE s == types[e].layout.size
           a == types[e].layout.align
           sized == n # RuntimeSized /\ types[e].sized
           size == IF sized THEN s * n ELSE 0
<1>1. types[e] \in TypeInfo
  BY DEF RegistryInv, TypeInfosOK
<1>2. s \in 0 .. MaxWord /\ a \in {1, 2, 4, 8, 16} /\ types[e].sized \in BOOLEAN
  BY <1>1 DEF TypeInfo, Layout
<1>3. n \in Nat /\ e \in Nat
  BY DEF Counts, RuntimeSized, RegistryInv, TypeInfosOK
<1>4. s % a = 0
  BY DEF RegistryInv, SizesAreAligned
<1>5. sized => s = 0 \/ n <= MaxWord \div s
  BY <1>2, <1>3 DEF TooLarge
<1> HIDE DEF s, a
<1>6. size \in 0 .. MaxWord
  <2>1. CASE sized /\ s # 0
    <3>1. s * n <= MaxWord
      BY <2>1, <1>2, <1>3, <1>5, ProductFits
    <3> QED
      BY <3>1, <2>1, <1>2, <1>3
  <2>2. CASE sized /\ s = 0
    BY <2>2, <1>3
  <2>3. CASE ~sized
    BY <2>3
  <2> QED
    BY <2>1, <2>2, <2>3
<1>7. size % a = 0
  <2>1. CASE sized
    <3>1. s \in Nat
      BY <1>2
    <3>2. (s * n) % a = 0
      BY <3>1, <1>2, <1>3, <1>4, ProductIsAligned
    <3> QED
      BY <2>1, <3>2
  <2>2. CASE ~sized
    BY <2>2, <1>2
  <2> QED
    BY <2>1, <2>2
<1>8. ArrayOf(e, n) = [kind |-> "array", element |-> e, count |-> n, sized |-> sized,
                       layout |-> [size |-> size, align |-> a, fields |-> <<>>,
                                   exact |-> TRUE]]
  BY DEF ArrayOf, Plain, s, a
<1> HIDE DEF size, sized
<1>9. sized \in BOOLEAN
  BY <1>2 DEF sized
<1>10. [size |-> size, align |-> a, fields |-> <<>>, exact |-> TRUE] \in Layout
  BY <1>2, <1>6 DEF Layout
<1> QED
  BY <1>3, <1>7, <1>8, <1>9, <1>10 DEF TypeInfo

\* The array type is added, unless another thread has added it meanwhile.
LEMMA AddArrayKeepsInv ==
  ASSUME RegistryInv, NEW t \in Threads, AddArray(t)
  PROVE  RegistryInv'
<1> USE DEF RegistryInv
<1>1. making[t] \in Keys /\ making' = [making EXCEPT ![t] = Idle]
  BY DEF AddArray, TypeInfosOK
<1>2. CASE arrays[making[t]] # NoType /\ UNCHANGED <<types, arrays>>
  <2>1. UNCHANGED <<types, arrays, building>>
    BY <1>2 DEF AddArray
  <2>2. TypeInfosOK'
    BY <1>1, <2>1 DEF TypeInfosOK
  <2>3. MakingIsPossible'
    BY <1>1, <2>1 DEF MakingIsPossible, TypeInfosOK, TooLarge
  <2>4. ArraysAreFound' /\ BuildingIsSound' /\ LayoutsAreSound' /\ SizesAreAligned'
    BY <2>1 DEF ArraysAreFound, BuildingIsSound, LayoutsAreSound, SizesAreAligned
  <2> QED
    BY <2>2, <2>3, <2>4
<1>3. CASE arrays[making[t]] = NoType /\ ~UNCHANGED <<types, arrays>>
  <2> DEFINE info == ArrayOf(making[t][1], making[t][2])
             new == Len(types) + 1
  <2>1. /\ Len(types) < MaxTypes
        /\ types' = Append(types, info)
        /\ arrays' = [arrays EXCEPT ![making[t]] = new]
        /\ building' = building
        /\ arrays[making[t]] = 0
    BY <1>3 DEF AddArray, NoType
  <2>2. PICK e \in DOMAIN types, n \in Counts : making[t] = <<e, n>> /\ ~TooLarge(e, n)
    BY <1>1 DEF MakingIsPossible, Keys, AddArray
  <2>3. /\ info \in TypeInfo /\ info.kind = "array"
        /\ <<info.element, info.count>> = making[t]
        /\ info.layout.size % info.layout.align = 0
    BY <2>2, ArrayOfFacts
  <2> HIDE DEF info
  <2>4. /\ types' \in Seq(TypeInfo) /\ Len(types') = Len(types) + 1
        /\ Len(types') <= MaxTypes
        /\ DOMAIN types' = DOMAIN types \cup {new}
        /\ \A i \in DOMAIN types : types'[i] = types[i]
        /\ types'[new] = info
    BY <2>1, <2>3, AddingKeepsTypes DEF TypeInfosOK
  <2>5. TypeInfosOK'
    BY <1>1, <2>1, <2>4 DEF TypeInfosOK
  <2>6. MakingIsPossible'
    BY <1>1, <2>4 DEF MakingIsPossible, TypeInfosOK, TooLarge
  <2>7. ArraysAreFound'
    <3> SUFFICES ASSUME NEW i \in DOMAIN types', types'[i].kind = "array"
                 PROVE  /\ <<types'[i].element, types'[i].count>> \in Keys
                        /\ arrays'[<<types'[i].element, types'[i].count>>] = i
      BY DEF ArraysAreFound
    <3> DEFINE k == <<types'[i].element, types'[i].count>>
    <3>1. CASE i = new
      <4>1. types'[i] = info
        BY <3>1, <2>4
      <4>2. k = making[t]
        BY <4>1, <2>3
      <4>3. arrays'[making[t]] = i
        BY <3>1, <1>1, <2>1 DEF TypeInfosOK
      <4> QED
        BY <4>2, <4>3, <1>1
    <3>2. CASE i \in DOMAIN types
      <4>1. k \in Keys /\ arrays[k] = i
        BY <3>2, <2>4 DEF ArraysAreFound
      <4>2. i # 0
        BY <3>2 DEF TypeInfosOK
      <4>3. k # making[t]
        BY <4>1, <4>2, <2>1
      <4> QED
        BY <4>1, <4>3, <2>1 DEF TypeInfosOK
    <3> QED
      BY <3>1, <3>2, <2>4
  <2>8. BuildingIsSound'
    BY <2>1 DEF BuildingIsSound
  <2>9. LayoutsAreSound'
    BY <2>3, <2>4 DEF LayoutsAreSound, Sound
  <2>10. SizesAreAligned'
    BY <2>3, <2>4 DEF SizesAreAligned
  <2> QED
    BY <2>5, <2>6, <2>7, <2>8, <2>9, <2>10
<1> QED
  BY <1>2, <1>3 DEF AddArray

-----------------------------------------------------------------------------
(* Aggregates.                                                               *)

LEMMA BeginAggregateKeepsInv ==
  ASSUME RegistryInv, NEW kind \in {"struct", "union"}, NEW pack \in Packs,
         BeginAggregate(kind, pack)
  PROVE  RegistryInv'
<1> USE DEF RegistryInv, BeginAggregate
<1> DEFINE l == [size |-> 0, align |-> 1, fields |-> <<>>, exact |-> TRUE]
<1>1. building' = [kind |-> kind, pack |-> pack, layout |-> l]
  BY DEF Plain
<1>2. l \in Layout
  BY DEF Layout
<1>3. TypeInfosOK'
  <2> HIDE DEF l
  <2>1. building' \in [kind : {"struct", "union"}, pack : Packs, layout : Layout]
    BY <1>1, <1>2
  <2>2. UNCHANGED <<types, arrays, making>>
    OBVIOUS
  <2> QED
    BY <2>1, <2>2 DEF TypeInfosOK
<1>4. BuildingIsSound'
  BY <1>1 DEF BuildingIsSound, FieldsAreSound, End, SoundUnion
<1>5. UNCHANGED <<types, arrays, making>>
  OBVIOUS
<1>6. MakingIsPossible' /\ ArraysAreFound' /\ LayoutsAreSound' /\ SizesAreAligned'
  BY <1>5 DEF MakingIsPossible, TooLarge, ArraysAreFound, LayoutsAreSound, SizesAreAligned
<1> QED
  BY <1>3, <1>4, <1>6

\* A field within a word is added to a layout: the fields before it stay.
LEMMA WithFieldFacts ==
  ASSUME RegistryInv, building # Idle, NEW f \in DOMAIN types,
         NEW offset \in 0 .. MaxWord, NEW size \in 0 .. MaxWord,
         NEW align, align = Smaller(types[f].layout.align, building.pack),
         NEW field, field = [type |-> f, offset |-> offset,
                             size |-> types[f].layout.size, align |-> align],
         NEW b, b = WithField(building, f, offset, size)
  PROVE  /\ align \in {1, 2, 4, 8, 16}
         /\ field \in Field
         /\ b \in [kind : {"struct", "union"}, pack : Packs, layout : Layout]
         /\ b.kind = building.kind
         /\ b.layout.fields = Append(building.layout.fields, field)
         /\ b.layout.size = size
         /\ b.layout.exact = (building.layout.exact
                                /\ (building.kind = "struct" => building.layout.size <= offset))
<1> USE DEF RegistryInv
<1>1. /\ building \in [kind : {"struct", "union"}, pack : Packs, layout : Layout]
      /\ types[f] \in TypeInfo /\ f \in Nat
  BY DEF TypeInfosOK
<1>2. /\ types[f].layout.align \in {1, 2, 4, 8, 16}
      /\ types[f].layout.size \in 0 .. MaxWord
  BY <1>1 DEF TypeInfo, Layout
<1>3. align \in {1, 2, 4, 8, 16}
  BY <1>1, <1>2 DEF Smaller
<1>4. field \in Field
  BY <1>1, <1>2, <1>3 DEF Field
<1> DEFINE l == building.layout
<1>5. l \in Layout
  BY <1>1
<1>6. Larger(l.align, align) \in {1, 2, 4, 8, 16}
  BY <1>3, <1>5 DEF Larger, Layout
<1>7. Append(l.fields, field) \in Seq(Field)
  BY <1>4, <1>5 DEF Layout
<1> DEFINE exact == l.exact /\ (building.kind = "struct" => l.size <= offset)
           m == [size |-> size, align |-> Larger(l.align, align),
                 fields |-> Append(l.fields, field), exact |-> exact]
<1>8. b = [building EXCEPT !.layout = m]
  BY DEF WithField
<1>9. exact \in BOOLEAN
  BY <1>5 DEF Layout
<1>10. m \in Layout
  <2> HIDE DEF exact
  <2> QED
    BY <1>6, <1>7, <1>9 DEF Layout
<1>11. m.fields = Append(l.fields, field) /\ m.size = size /\ m.exact = exact
  OBVIOUS
<1> HIDE DEF m, exact
<1>12. b.layout = m /\ b.kind = building.kind
       /\ b \in [kind : {"struct", "union"}, pack : Packs, layout : Layout]
  BY <1>1, <1>8, <1>10
<1> QED
  BY <1>3, <1>4, <1>11, <1>12 DEF exact

\* What the fields of a sound struct are after one more is placed.
LEMMA FieldIsPlacedSoundly ==
  ASSUME RegistryInv, building # Idle, building.kind = "struct", NEW f \in DOMAIN types,
         types[f].layout.size <= MaxWord - StructOffset(building, f),
         NEW b, b = WithField(building, f, StructOffset(building, f),
                              StructOffset(building, f) + types[f].layout.size)
  PROVE  /\ b \in [kind : {"struct", "union"}, pack : Packs, layout : Layout]
         /\ b.kind = "struct"
         /\ b.layout.exact => FieldsAreSound(b.layout)
                               /\ End(b.layout, Len(b.layout.fields)) = b.layout.size
<1> USE DEF RegistryInv
<1> DEFINE l == building.layout
           size == types[f].layout.size
           align == Smaller(types[f].layout.align, building.pack)
           offset == StructOffset(building, f)
           field == [type |-> f, offset |-> offset, size |-> size, align |-> align]
           n == Len(l.fields)
<1>1. /\ building \in [kind : {"struct", "union"}, pack : Packs, layout : Layout]
      /\ types[f] \in TypeInfo
  BY DEF TypeInfosOK
<1>2. /\ types[f].layout.align \in {1, 2, 4, 8, 16}
      /\ size \in 0 .. MaxWord /\ l.size \in 0 .. MaxWord /\ l.fields \in Seq(Field)
      /\ l.exact \in BOOLEAN
  BY <1>1 DEF TypeInfo, Layout
<1>3. align \in {1, 2, 4, 8, 16}
  BY <1>1, <1>2 DEF Smaller
<1>4. /\ offset \in 0 .. MaxWord /\ offset % align = 0
      /\ l.size <= offset => offset < l.size + align
  <2>1. offset = AlignUp(l.size, align)
    BY DEF StructOffset
  <2> HIDE DEF l, align, offset
  <2> QED
    BY <2>1, <1>2, <1>3, AlignUpFacts
<1>5. offset + size \in 0 .. MaxWord
  BY <1>2, <1>4
<1>6. /\ b \in [kind : {"struct", "union"}, pack : Packs, layout : Layout]
      /\ b.kind = building.kind
      /\ b.layout.fields = Append(l.fields, field)
      /\ b.layout.size = offset + size
      /\ b.layout.exact = (l.exact /\ (building.kind = "struct" => l.size <= offset))
  <2> DEFINE end == offset + size
  <2>1. b = WithField(building, f, offset, end) /\ end \in 0 .. MaxWord
    BY <1>5
  <2> HIDE DEF offset, end
  <2>2. /\ b \in [kind : {"struct", "union"}, pack : Packs, layout : Layout]
        /\ b.kind = building.kind
        /\ b.layout.fields = Append(l.fields, field)
        /\ b.layout.size = end
        /\ b.layout.exact = (l.exact /\ (building.kind = "struct" => l.size <= offset))
    BY <1>4, <2>1, WithFieldFacts
  <2> QED
    BY <2>2 DEF end
<1>7. field \in Field
  <2> HIDE DEF offset
  <2> QED
    BY <1>4, <1>5, WithFieldFacts
<1> HIDE DEF l, size, align, offset
<1>8. ASSUME b.layout.exact
      PROVE  FieldsAreSound(b.layout) /\ End(b.layout, Len(b.layout.fields)) = b.layout.size
  <2>1. l.exact /\ l.size <= offset
    BY <1>2, <1>6, <1>8
  <2>2. FieldsAreSound(l) /\ End(l, n) = l.size
    BY <2>1 DEF BuildingIsSound, l
  <2>3. /\ n \in Nat /\ Len(b.layout.fields) = n + 1
        /\ DOMAIN l.fields = 1 .. n
        /\ DOMAIN b.layout.fields = 1 .. n + 1
        /\ b.layout.fields[n + 1] = field
        /\ \A i \in 1 .. n : b.layout.fields[i] = l.fields[i]
    <3>1. l.fields \in Seq(Field) /\ b.layout.fields = Append(l.fields, field)
      BY <1>2, <1>6
    <3> HIDE DEF field
    <3> QED
      BY <3>1, <1>7, AppendFacts
  <2>4. \A i \in 0 .. n : End(b.layout, i) = End(l, i)
    BY <2>3 DEF End
  <2>5. field.offset = offset /\ field.size = size /\ field.align = align
    OBVIOUS
  <2> HIDE DEF field, n
  <2>6. End(b.layout, n + 1) = offset + size
    BY <2>3, <2>5 DEF End
  <2>7. FieldsAreSound(b.layout)
    <3> SUFFICES ASSUME NEW i \in 1 .. n + 1
                 PROVE  /\ b.layout.fields[i].offset % b.layout.fields[i].align = 0
                        /\ End(b.layout, i - 1) <= b.layout.fields[i].offset
                        /\ b.layout.fields[i].offset
                             < End(b.layout, i - 1) + b.layout.fields[i].align
      BY <2>3 DEF FieldsAreSound
    <3>1. CASE i \in 1 .. n
      <4>1. b.layout.fields[i] = l.fields[i] /\ End(b.layout, i - 1) = End(l, i - 1)
        BY <3>1, <2>3, <2>4
      <4> QED
        BY <3>1, <4>1, <2>2, <2>3 DEF FieldsAreSound
    <3>2. CASE i = n + 1
      <4>1. b.layout.fields[i] = field /\ End(b.layout, i - 1) = l.size
        BY <3>2, <2>2, <2>3, <2>4
      <4>2. offset % align = 0 /\ l.size <= offset /\ offset < l.size + align
        BY <2>1, <1>4
      <4> QED
        BY <4>1, <4>2, <2>5
    <3>3. i \in 1 .. n \/ i = n + 1
      BY <2>3
    <3> QED
      BY <3>1, <3>2, <3>3
  <2> QED
    BY <1>6, <2>3, <2>6, <2>7
<1> QED
  BY <1>6, <1>8

\* A union with one more field.
LEMMA FieldIsUnitedSoundly ==
  ASSUME RegistryInv, building # Idle, building.kind = "union", NEW f \in DOMAIN types,
         NEW b, b = WithField(building, f, 0,
                              Larger(building.layout.size, types[f].layout.size))
  PROVE  /\ b \in [kind : {"struct", "union"}, pack : Packs, layout : Layout]
         /\ b.kind = "union"
         /\ SoundUnion(b.layout)
<1> USE DEF RegistryInv
<1> DEFINE l == building.layout
           size == types[f].layout.size
           align == Smaller(types[f].layout.align, building.pack)
           field == [type |-> f, offset |-> 0, size |-> size, align |-> align]
<1>1. /\ building \in [kind : {"struct", "union"}, pack : Packs, layout : Layout]
      /\ types[f] \in TypeInfo
  BY DEF TypeInfosOK
<1>2. size \in 0 .. MaxWord /\ l.size \in 0 .. MaxWord /\ l.fields \in Seq(Field)
  BY <1>1 DEF TypeInfo, Layout
<1>3. /\ Larger(l.size, size) \in 0 .. MaxWord
      /\ l.size <= Larger(l.size, size) /\ size <= Larger(l.size, size)
  BY <1>2 DEF Larger
<1>4. /\ b \in [kind : {"struct", "union"}, pack : Packs, layout : Layout]
      /\ b.kind = building.kind
      /\ b.layout.fields = Append(l.fields, field)
      /\ b.layout.size = Larger(l.size, size)
  BY <1>3, WithFieldFacts
<1>5. field \in Field
  BY <1>3, WithFieldFacts
<1>6. field.offset = 0 /\ field.size = size
  OBVIOUS
<1>7. SoundUnion(l)
  BY DEF BuildingIsSound
<1> HIDE DEF l, size, align, field
<1>8. SoundUnion(b.layout)
  <2> SUFFICES ASSUME NEW i \in DOMAIN b.layout.fields
               PROVE  b.layout.fields[i].offset = 0 /\ b.layout.fields[i].size <= b.layout.size
    BY DEF SoundUnion
  <2>1. \/ b.layout.fields[i] = field
        \/ i \in DOMAIN l.fields /\ b.layout.fields[i] = l.fields[i]
    <3>1. i \in DOMAIN Append(l.fields, field)
      BY <1>4
    <3>2. i \in 1 .. Len(l.fields) + 1 /\ Len(l.fields) \in Nat
      BY <3>1, <1>2, <1>5, AppendFacts
    <3>3. i = Len(l.fields) + 1 \/ i \in 1 .. Len(l.fields)
      BY <3>2
    <3> QED
      BY <3>3, <1>2, <1>4, <1>5, AppendFacts
  <2>2. CASE b.layout.fields[i] = field
    BY <2>2, <1>3, <1>4, <1>6
  <2>3. CASE i \in DOMAIN l.fields /\ b.layout.fields[i] = l.fields[i]
    <3>1. l.fields[i] \in Field
      BY <2>3, <1>2
    <3>2. l.fields[i].size \in 0 .. MaxWord
      BY <3>1 DEF Field
    <3> QED
      BY <2>3, <3>2, <1>2, <1>3, <1>4, <1>7 DEF SoundUnion
  <2> QED
    BY <2>1, <2>2, <2>3
<1> QED
  BY <1>4, <1>8

\* A field is placed, or the struct is too large.
LEMMA AddFieldKeepsInv ==
  ASSUME RegistryInv, NEW f \in DOMAIN types, AddField(f)
  PROVE  RegistryInv'
<1> USE DEF RegistryInv
<1>1. UNCHANGED <<types, arrays, making>> /\ building # Idle
  BY DEF AddField
<1>2. /\ building' # Idle =>
              building' \in [kind : {"struct", "union"}, pack : Packs, layout : Layout]
      /\ BuildingIsSound'
  <2>1. CASE building.kind = "union"
    <3>1. building' = WithField(building, f, 0,
                                Larger(building.layout.size, types[f].layout.size))
      BY <2>1 DEF AddField
    <3> QED
      BY <3>1, <2>1, <1>1, FieldIsUnitedSoundly DEF BuildingIsSound
  <2>2. CASE /\ building.kind = "struct"
             /\ types[f].layout.size <= MaxWord - StructOffset(building, f)
             /\ building' = WithField(building, f, StructOffset(building, f),
                                      StructOffset(building, f) + types[f].layout.size)
    BY <2>2, <1>1, FieldIsPlacedSoundly DEF BuildingIsSound
  <2>3. CASE building' = Idle
    BY <2>3 DEF BuildingIsSound
  <2> QED
    BY <2>1, <2>2, <2>3 DEF AddField
<1>3. TypeInfosOK'
  BY <1>1, <1>2 DEF TypeInfosOK
<1>4. MakingIsPossible' /\ ArraysAreFound' /\ LayoutsAreSound' /\ SizesAreAligned'
  BY <1>1 DEF MakingIsPossible, TooLarge, ArraysAreFound, LayoutsAreSound, SizesAreAligned
<1> QED
  BY <1>2, <1>3, <1>4

\* The padding makes the size a multiple of the alignment and, if it was not
\* cut, ends the type soundly.
LEMMA PaddedFacts ==
  ASSUME RegistryInv, building # Idle,
         NEW m, m = Padded(building.layout)
  PROVE  /\ m \in Layout /\ m.size % m.align = 0
         /\ m.exact => /\ building.kind = "struct" => SoundStruct(m)
                       /\ building.kind = "union" => SoundUnion(m)
<1> USE DEF RegistryInv
<1> DEFINE l == building.layout
           size == AlignUp(l.size, l.align)
<1>1. l \in Layout /\ building.kind \in {"struct", "union"}
  BY DEF TypeInfosOK
<1>2. /\ l.size \in 0 .. MaxWord /\ l.align \in {1, 2, 4, 8, 16}
      /\ l.fields \in Seq(Field) /\ l.exact \in BOOLEAN
  BY <1>1 DEF Layout
<1>3. BuildingIsSound
  OBVIOUS
<1>4. m = [l EXCEPT !.size = size, !.exact = l.exact /\ l.size <= size]
  BY DEF Padded
<1> HIDE DEF l
<1>5. size \in 0 .. MaxWord /\ size % l.align = 0 /\ (l.size <= size => size < l.size + l.align)
  BY <1>2, AlignUpFacts
<1> HIDE DEF size
<1>6. /\ m \in Layout /\ m.size = size /\ m.align = l.align /\ m.fields = l.fields
      /\ m.exact = (l.exact /\ l.size <= size)
  BY <1>1, <1>2, <1>4, <1>5 DEF Layout
<1>7. ASSUME m.exact, building.kind = "struct" PROVE SoundStruct(m)
  <2>1. l.exact /\ l.size <= size
    BY <1>2, <1>6, <1>7
  <2>2. FieldsAreSound(l) /\ End(l, Len(l.fields)) = l.size
    BY <2>1, <1>3, <1>7, Zenon DEF BuildingIsSound, l
  <2>3. FieldsAreSound(m) /\ End(m, Len(m.fields)) = l.size
    BY <2>2, <1>6 DEF FieldsAreSound, End
  <2> QED
    BY <2>1, <2>3, <1>5, <1>6 DEF SoundStruct
<1>8. ASSUME m.exact, building.kind = "union" PROVE SoundUnion(m)
  <2>1. SoundUnion(l) /\ l.size <= size
    BY <1>2, <1>3, <1>6, <1>8 DEF BuildingIsSound, l
  <2> SUFFICES ASSUME NEW i \in DOMAIN l.fields
               PROVE  l.fields[i].offset = 0 /\ l.fields[i].size <= size
    BY <1>6 DEF SoundUnion
  <2>2. l.fields[i] \in Field
    BY <1>2
  <2>3. l.fields[i].size \in 0 .. MaxWord
    BY <2>2 DEF Field
  <2> QED
    BY <2>1, <2>3, <1>2, <1>5 DEF SoundUnion
<1> QED
  BY <1>5, <1>6, <1>7, <1>8

\* The aggregate is added.
LEMMA FinishAggregateKeepsInv ==
  ASSUME RegistryInv, FinishAggregate
  PROVE  RegistryInv'
<1> USE DEF RegistryInv
<1> DEFINE m == Padded(building.layout)
           info == [kind |-> building.kind, layout |-> m,
                    element |-> NoType, count |-> 0, sized |-> TRUE]
           new == Len(types) + 1
<1>1. /\ building # Idle /\ Len(types) < MaxTypes
      /\ types' = Append(types, info)
      /\ building' = Idle /\ UNCHANGED <<arrays, making>>
  BY DEF FinishAggregate
<1>2. building.kind \in {"struct", "union"}
  BY <1>1 DEF TypeInfosOK
<1>3. /\ m \in Layout /\ m.size % m.align = 0
      /\ m.exact => /\ building.kind = "struct" => SoundStruct(m)
                    /\ building.kind = "union" => SoundUnion(m)
  BY <1>1, PaddedFacts
<1> HIDE DEF m
<1>4. info \in TypeInfo /\ info.kind = building.kind /\ info.layout = m
  BY <1>2, <1>3 DEF TypeInfo, NoType
<1> HIDE DEF info
<1>5. /\ types' \in Seq(TypeInfo) /\ Len(types') = Len(types) + 1
      /\ Len(types') <= MaxTypes
      /\ DOMAIN types' = DOMAIN types \cup {new}
      /\ \A i \in DOMAIN types : types'[i] = types[i]
      /\ types'[new] = info
  BY <1>1, <1>4, AddingKeepsTypes DEF TypeInfosOK
<1>6. TypeInfosOK'
  BY <1>1, <1>5 DEF TypeInfosOK
<1>7. MakingIsPossible'
  BY <1>1, <1>5 DEF MakingIsPossible, TooLarge
<1>8. ArraysAreFound'
  BY <1>1, <1>2, <1>4, <1>5 DEF ArraysAreFound
<1>9. BuildingIsSound'
  BY <1>1 DEF BuildingIsSound
<1>10. LayoutsAreSound'
  BY <1>3, <1>4, <1>5 DEF LayoutsAreSound, Sound
<1>11. SizesAreAligned'
  BY <1>3, <1>4, <1>5 DEF SizesAreAligned
<1> QED
  BY <1>6, <1>7, <1>8, <1>9, <1>10, <1>11

-----------------------------------------------------------------------------
\* The invariant holds in every reachable state.
THEOREM RegistryInvariant == TypesSpec => []RegistryInv
<1>1. RegistryInv /\ [TypesNext]_typesVars => RegistryInv'
  <2> SUFFICES ASSUME RegistryInv, [TypesNext]_typesVars PROVE RegistryInv'
    OBVIOUS
  <2>1. ASSUME NEW t \in Threads, NEW e \in DOMAIN types, NEW n \in Counts,
               LookUpArray(t, e, n)
        PROVE  RegistryInv'
    BY <2>1, LookUpArrayKeepsInv
  <2>2. ASSUME NEW t \in Threads, AddArray(t) PROVE RegistryInv'
    BY <2>2, AddArrayKeepsInv
  <2>3. ASSUME NEW kind \in {"struct", "union"}, NEW pack \in Packs,
               BeginAggregate(kind, pack)
        PROVE  RegistryInv'
    BY <2>3, BeginAggregateKeepsInv
  <2>4. ASSUME NEW f \in DOMAIN types, AddField(f) PROVE RegistryInv'
    BY <2>4, AddFieldKeepsInv
  <2>5. CASE FinishAggregate
    BY <2>5, FinishAggregateKeepsInv
  <2>6. CASE UNCHANGED typesVars
    BY <2>6 DEF typesVars, RegistryInv, TypeInfosOK, MakingIsPossible, TooLarge, ArraysAreFound,
                BuildingIsSound, LayoutsAreSound, SizesAreAligned
  <2> QED
    BY <2>1, <2>2, <2>3, <2>4, <2>5, <2>6 DEF TypesNext, Full
<1> QED
  BY <1>1, InitEstablishesRegistryInv, PTL DEF TypesSpec

\* No field offset, size or extent leaves its word, so neither align_up nor the
\* product of make_array yields more than 2^32 - 1.
THEOREM TypeInfosAlwaysOK == TypesSpec => []TypeInfosOK
BY RegistryInvariant, PTL DEF RegistryInv

\* Threads that make the same array type, at whatever times, get one type
\* (make_array, make_runtime_array).
THEOREM ArraysAreAlwaysInterned == TypesSpec => []ArraysAreInterned
<1>1. RegistryInv => ArraysAreInterned
  BY DEF RegistryInv, ArraysAreFound, ArraysAreInterned
<1> QED
  BY <1>1, RegistryInvariant, PTL

\* make_aggregate lays structs and unions out as C does, for all fields and
\* pack values, unless a rounding is cut to 32 bits.
THEOREM LayoutsAreAlwaysSound == TypesSpec => []LayoutsAreSound
BY RegistryInvariant, PTL DEF RegistryInv

\* Sizes are multiples of alignments, even where a rounding was cut.
THEOREM SizesAreAlwaysAligned == TypesSpec => []SizesAreAligned
BY RegistryInvariant, PTL DEF RegistryInv
=============================================================================
