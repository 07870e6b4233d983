-------------------------- MODULE NativeExceptions --------------------------
(***************************************************************************)
(* NATIVE_EXCEPTION values (interpreter.cpp, platform_win32.cpp): a fault  *)
(* of native code is captured as a copy of its chain of exception records; *)
(* a catch clause turns the copy into a value, whose further records live  *)
(* in the Runtime's arena; assignments copy the value, and throw reads the *)
(* chain back.  One thread runs frames of functions and a module.          *)
(*                                                                         *)
(* A word of memory is a number, or the code of an exception.  Contexts,   *)
(* thread ids and the rest of a record go with its code.                   *)
(***************************************************************************)
EXTENDS FrameArena

CONSTANTS MaxRecords,  \* PLATFORM_EXCEPTION_MAX_RECORDS
          Chains,      \* the chains of exception records that native code can raise
          AccessViolation, \* the code of a fault of the interpreter's own reads
          Sizes,       \* sizes and alignments of other values of a frame
          EditedCounts,    \* numbers that scripts store in record_count
          MaxFrames, MaxScopes, MaxBlocks, MaxRaised   \* bounds: frames, scopes in one, blocks
                           \* in its arena before a try block is entered, faults raised

\* Each Executor has an arena, and so has the Runtime; the heap hands out no null pointer.
ASSUME ExceptionAssumption ==
  /\ MaxFrames \in Nat \ {0} /\ 0..MaxFrames \subseteq Arenas
  /\ 0 \notin Addresses
  /\ MaxRecords \in Nat
  /\ Chains \subseteq Seq(Int) /\ AccessViolation \in Int
  /\ Sizes \subseteq Nat \X Alignments
  /\ EditedCounts \subseteq Nat

VARIABLES memory,   \* the words of the heap
          frames,   \* the Executors: the try blocks and catch variables of each, innermost last
          global,   \* the binding of a global variable of type NATIVE_EXCEPTION, or Null
          work,     \* a value in the making
          flight,   \* the NativeFault thrown, or None
          origin,   \* history: what was raised, for the values in variables
          raised    \* how many faults were raised, for the bound

vars == <<arenaVars, memory, frames, global, work, flight, origin, raised>>

Null == 0
Bad == -1          \* a pointer to nowhere
Try == -2          \* a try block
Global == 0        \* Runtime::global_arena_
None == [kind |-> "none"]
Unknown == <<>>
Initial == [of |-> Unknown, whole |-> TRUE]
Edited == [of |-> Unknown, whole |-> FALSE]
Zero == 0          \* memset

\* The layouts: a record is its code and the pointer ExceptionRecord; an exception is
\* a record, record_count and record_chain_truncated.
RecordSize == 2
ExceptionSize == 4
Link(record) == record + 1
Count(exception) == exception + 2
Truncated(exception) == exception + 3

Smaller(a, b) == IF a < b THEN a ELSE b
Last(s) == s[Len(s)]
Front(s) == SubSeq(s, 1, Len(s) - 1)
With(f, a, x) == [b \in DOMAIN f \cup {a} |-> IF b = a THEN x ELSE f[b]]
Executor == Len(frames)   \* the arena of the innermost frame
Scopes == frames[Executor]
BindingsOf(f) == {frames[f][i] : i \in 1..Len(frames[f])} \ {Try}
Variables == ({global} \cup UNION {BindingsOf(f) : f \in 1..Len(frames)}) \ {Null}
InScope == ({global} \cup BindingsOf(Executor)) \ {Null}

Init ==
  /\ ArenaInit
  /\ memory = [a \in {} |-> Zero]
  /\ frames = <<<<>>>> /\ global = Null
  /\ work = None /\ flight = None
  /\ origin = [a \in {} |-> Unknown]
  /\ raised = 0

-----------------------------------------------------------------------------
\* What memory reads give: none in memory that was freed.
Word(a) == IF a \in DOMAIN memory THEN memory[a] ELSE Bad
Words(from, size) == [i \in 0..(size - 1) |-> Word(from + i)]
\* memset and memcpy: words at an address overwritten.
Filled(m, to, words) ==
  [a \in DOMAIN m \cup {to + i : i \in DOMAIN words} |-> IF a - to \in DOMAIN words THEN words[a - to] ELSE m[a]]
Zeros(size) == [i \in 0..(size - 1) |-> Zero]

\* capture_exception: the first MaxRecords records of the chain.
Capture(chain) ==
  [kind |-> "fault", records |-> SubSeq(chain, 1, Smaller(Len(chain), MaxRecords)),
   truncated |-> Len(chain) > MaxRecords, of |-> chain]

\* The records that lie along the links from the first one.
Walk(first, n) ==
  LET at[i \in 1..n] == IF i = 1 THEN first
                        ELSE IF at[i - 1] \in {Null, Bad} THEN at[i - 1] ELSE Word(Link(at[i - 1]))
  IN at

\* snapshot_from_native_exception_value: the loop stops at a null pointer, and the
\* records left are those that NativeFault starts with.  A pointer that cannot be read is
\* a fault of its own.
Snapshot(exception) ==
  LET n == Smaller(Word(Count(exception)), MaxRecords)
      at == Walk(exception, n)
  IN IF \E i \in 1..n : at[i] = Bad THEN Capture(<<AccessViolation>>)
     ELSE [kind |-> "fault", records |-> [i \in 1..n |-> IF at[i] = Null THEN Zero ELSE Word(at[i])],
           truncated |-> Word(Truncated(exception)) # 0 \/ Word(Count(exception)) > MaxRecords,
           of |-> origin[exception].of]

-----------------------------------------------------------------------------
(* The script.                                                               *)

Running == work = None /\ flight = None
CanRaise == raised < MaxRaised /\ raised' = raised + 1
CanAllocate == Len(blocks[Executor]) < MaxBlocks

\* An FFI call or an access to memory.
NativeFault ==
  /\ Running /\ CanRaise
  /\ \E chain \in Chains : flight' = Capture(chain)
  /\ UNCHANGED <<arenaVars, memory, frames, global, work, origin>>

Throw(exception) ==
  /\ Running /\ CanRaise
  /\ flight' = Snapshot(exception)
  /\ UNCHANGED <<arenaVars, memory, frames, global, work, origin>>

EnterTry ==
  /\ Running /\ CanAllocate /\ Len(Scopes) < MaxScopes
  /\ frames' = [frames EXCEPT ![Executor] = Append(@, Try)]
  /\ UNCHANGED <<arenaVars, memory, global, work, flight, origin, raised>>

LeaveScope ==
  /\ Running /\ Scopes # <<>>
  /\ frames' = [frames EXCEPT ![Executor] = Front(@)]
  /\ UNCHANGED <<arenaVars, memory, global, work, flight, origin, raised>>

\* The value of a variable or literal of another type; its words are not kept.
AllocateOther(size, alignment) ==
  /\ Running /\ CanAllocate
  /\ \E p \in Places(Executor, size, alignment) : Allocate(Executor, size, alignment, p)
  /\ UNCHANGED <<memory, frames, global, work, flight, origin, raised>>

CallFunction ==
  /\ Running /\ Len(frames) < MaxFrames
  /\ frames' = Append(frames, <<>>)
  /\ UNCHANGED <<arenaVars, memory, global, work, flight, origin, raised>>

\* ~Executor, at the end of a function, or of a module, which another one follows.
EndFrame ==
  /\ FreeAll(Executor)
  /\ memory' = [a \in {w \in DOMAIN memory : \A i \in 1..Len(chunks[Executor]) :
                         LET c == chunks[Executor][i] IN w < c.base \/ w >= c.base + c.capacity} |-> memory[a]]
  /\ frames' = IF Executor = 1 THEN <<<<>>>> ELSE Front(frames)
  /\ UNCHANGED <<global, work, origin, raised>>

Return == Running /\ Scopes = <<>> /\ EndFrame /\ UNCHANGED flight

-----------------------------------------------------------------------------
(* A variable is given a value, or a part of its value is replaced.          *)

\* $g = NATIVE_EXCEPTION {}, at the top level of a module.
EvaluateLiteral ==
  /\ Running /\ global = Null /\ frames = <<<<>>>> /\ CanAllocate
  /\ \E p \in Places(Executor, ExceptionSize, 1) :
       /\ Allocate(Executor, ExceptionSize, 1, p)
       /\ memory' = Filled(memory, p.address, Zeros(ExceptionSize))
       /\ work' = [kind |-> "literal", value |-> p.address]
  /\ UNCHANGED <<frames, global, flight, origin, raised>>

DefineGlobal ==
  /\ work.kind = "literal"
  /\ \E p \in Places(Global, ExceptionSize, 1) :
       /\ Allocate(Global, ExceptionSize, 1, p)
       /\ memory' = Filled(memory, p.address, Words(work.value, ExceptionSize))
       /\ global' = p.address
  /\ origin' = With(origin, global', Initial)
  /\ work' = None
  /\ UNCHANGED <<frames, flight, raised>>

\* store_binding copies the value: the root record and the pointer to the others.
Assign(to, from) ==
  /\ Running
  /\ memory' = Filled(memory, to, Words(from, ExceptionSize))
  /\ origin' = [origin EXCEPT ![to] = origin[from]]
  /\ UNCHANGED <<arenaVars, frames, global, work, flight, raised>>

\* $e.record_count = n, $e.record.ExceptionRecord = p; once, as a bound.
Edit(exception, field, word) ==
  /\ Running /\ origin[exception].whole
  /\ memory' = [memory EXCEPT ![field] = word]
  /\ origin' = [origin EXCEPT ![exception] = Edited]
  /\ UNCHANGED <<arenaVars, frames, global, work, flight, raised>>
Edits(exception) ==
  \/ \E n \in EditedCounts : Edit(exception, Count(exception), n)
  \/ \E p \in {Null, Bad, global} : Edit(exception, Link(exception), p)

-----------------------------------------------------------------------------
(* A fault leaves scopes and frames until a try block catches it.            *)

UnwindScope ==
  /\ flight # None /\ Scopes # <<>> /\ Last(Scopes) # Try
  /\ frames' = [frames EXCEPT ![Executor] = Front(@)]
  /\ UNCHANGED <<arenaVars, memory, global, work, flight, origin, raised>>

\* The caller of a module reports the fault (print_native_fault).
UnwindFrame ==
  /\ flight # None /\ Scopes = <<>>
  /\ EndFrame
  /\ flight' = IF Executor = 1 THEN None ELSE flight

\* make_native_exception_value: the memory of the value, with the root record in it,
\* of each further record, and then what is written there.
Catch ==
  /\ flight # None /\ Scopes # <<>> /\ Last(Scopes) = Try
  /\ \E p \in Places(Executor, ExceptionSize, 1) :
       /\ Allocate(Executor, ExceptionSize, 1, p)
       /\ memory' = Filled(memory, p.address, Zeros(ExceptionSize))
       /\ work' = [kind |-> "exception", fault |-> flight, records |-> <<p.address>>]
  /\ frames' = [frames EXCEPT ![Executor] = Front(@)]
  /\ flight' = None
  /\ UNCHANGED <<global, origin, raised>>

\* Mutant of RecordArena: further records in the memory of the frame.
RecordArenaFrame == Executor

RecordArena == Global

AllocateRecord ==
  /\ work.kind = "exception" /\ Len(work.records) < Len(work.fault.records)
  /\ \E p \in Places(RecordArena, RecordSize, 1) :
       /\ Allocate(RecordArena, RecordSize, 1, p)
       /\ memory' = Filled(memory, p.address, Zeros(RecordSize))
       /\ work' = [work EXCEPT !.records = Append(@, p.address)]
  /\ UNCHANGED <<frames, global, flight, origin, raised>>

\* What goes into the i-th record.
RecordWords(i) ==
  LET n == Len(work.fault.records) IN
  [j \in 0..1 |-> IF j = 0 THEN work.fault.records[i] ELSE IF i < n THEN work.records[i + 1] ELSE Null]

\* The memory with all of them written; no two records share a word.
WriteRecords ==
  LET RecordAt(a) == {i \in 1..Len(work.fault.records) : a - work.records[i] \in 0..1} IN
  [a \in DOMAIN memory |-> IF RecordAt(a) = {} THEN memory[a]
                           ELSE LET i == CHOOSE i \in RecordAt(a) : TRUE
                                IN RecordWords(i)[a - work.records[i]]]

\* The value, and its root record.
CaughtValue ==
  LET n == Len(work.fault.records) IN
  [j \in 0..(ExceptionSize - 1) |-> CASE j < 2 -> IF n = 0 THEN Zero ELSE RecordWords(1)[j]
                                      [] j = 2 -> n
                                      [] j = 3 -> IF work.fault.truncated THEN 1 ELSE 0]

\* Then the catch clause begins: a local variable takes the value.
EnterCatch ==
  /\ work.kind = "exception" /\ Len(work.records) >= Len(work.fault.records)
  /\ \E p \in Places(Executor, ExceptionSize, 1) :
       /\ Allocate(Executor, ExceptionSize, 1, p)
       /\ memory' = Filled(Filled(WriteRecords, work.records[1], CaughtValue), p.address, CaughtValue)
       /\ frames' = [frames EXCEPT ![Executor] = Append(@, p.address)]
       /\ origin' = With(origin, p.address, [of |-> work.fault.of, whole |-> TRUE])
  /\ work' = None
  /\ UNCHANGED <<global, flight, raised>>

Next ==
  \/ NativeFault \/ EnterTry \/ LeaveScope \/ CallFunction \/ Return
  \/ \E v \in InScope : Throw(v) \/ Edits(v)
  \/ \E v, w \in InScope : v # w /\ Assign(v, w)
  \/ EvaluateLiteral \/ DefineGlobal
  \/ \E s \in Sizes : AllocateOther(s[1], s[2])
  \/ UnwindScope \/ UnwindFrame \/ Catch \/ AllocateRecord \/ EnterCatch

Spec == Init /\ [][Next]_vars

-----------------------------------------------------------------------------
\* "$e.record_count and $e.record_chain_truncated describe the copied record chain"
\* (main.cpp 285), wherever the value is copied to, after the frame that caught it has
\* ended and other values have its memory, and when it is thrown and caught again: the
\* links lead to as many records, all of them in memory that was not freed.  A value that
\* was never edited has the records of the exception that was raised.
ChainsStayWhole ==
  \A v \in Variables :
    LET n == Word(Count(v))
        at == Walk(v, n + 1)
        chain == origin[v].of
    IN origin[v].whole =>
         /\ \A i \in 1..n : at[i] \notin {Null, Bad} /\ \A j \in 1..(i - 1) : at[i] # at[j]
         /\ IF n = 0 THEN Word(Link(v)) = Null ELSE at[n + 1] = Null
         /\ chain # Unknown =>
              /\ n = Smaller(Len(chain), MaxRecords)
              /\ \A i \in 1..n : Word(at[i]) = chain[i]
              /\ (Word(Truncated(v)) = 1) = (Len(chain) > MaxRecords)
=============================================================================
