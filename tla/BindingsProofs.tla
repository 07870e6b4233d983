--------------------------- MODULE BindingsProofs ---------------------------
(***************************************************************************)
(* Races for the type of a global variable leave no lasting damage: after  *)
(* an assignment that has begun alone, and until the next race, threads    *)
(* need no mutex to read and assign it.                                    *)
(***************************************************************************)
EXTENDS Bindings, TLAPS

-----------------------------------------------------------------------------
(* The inductive invariant.                                                  *)

Active(t) == step[t] # "script"
Writing == {"retype", "compare", "clear", "copy"}

\* Thread t changes or mends the type, and has not yet cleared what is stored.
Converting(t) == retypes[t] /\ step[t] \in {"retype", "compare", "clear"}

\* What a read of the storage with type T is to find.
Sound(T, b) == b = Cleared \/ \E v \in Values : b = Whole(T, v).bytes

\* Before it is in the map, nobody uses the variable.
UnusedBefore ==
  ~defined => \A t \in Threads : step[t] = "script" /\ ~retypes[t]

\* A thread that reads keeps the type, and one that writes has a value.
ReadsKeepType == \A t \in Threads : step[t] = "read" => ~retypes[t]
WritesHaveValues ==
  \A t \in Threads : step[t] \in Writing => \E v \in Values : value[t] = Whole(value[t].type, v)

\* A thread that changes the type is alone, ...
RetypesAreAlone ==
  \A t, u \in Threads : t # u /\ Active(t) /\ Active(u) => ~retypes[t]

\* ... so a thread's value has the variable's type, but for one that is about to change it,
TypesAgree ==
  \A t \in Threads :
    Active(t) /\ (retypes[t] => step[t] # "retype") => value[t].type = type

\* the storage is of the type, but for a thread that changes or mends it,
StorageIsSound ==
  defined => Sound(type, storage) \/ \E t \in Threads : Converting(t)

\* and it holds a value, but for a thread that is about to store one.
StorageIsFilled ==
  defined => \/ \E v \in Values : storage = Whole(type, v).bytes
             \/ \E t \in Threads : Converting(t) \/ step[t] \in {"compare", "clear", "copy"}

Undisturbed == RetypesAreAlone /\ TypesAgree /\ StorageIsSound /\ StorageIsFilled

BindingInv ==
  /\ BindingTypeOK
  /\ UnusedBefore /\ ReadsKeepType /\ WritesHaveValues /\ ReadsAreWhole
  /\ ~raced => Undisturbed

-----------------------------------------------------------------------------
(* What is cut from what.                                                    *)

\* The value of a type that is cut from any bytes.
LEMMA CutIsValue ==
  ASSUME NEW T \in Types, NEW b \in [Bytes -> Byte]
  PROVE  Cut(T, b) \in Value
BY DEF Cut, Value, Byte

\* An assigned value, whole.
LEMMA WholeIsValue ==
  ASSUME NEW T \in Types, NEW v \in Values
  PROVE  Whole(T, v) \in Value
BY CutIsValue DEF Whole, Byte

\* Cleared bytes stay cleared when they are cut.
LEMMA ClearedIsCleared ==
  /\ Cleared \in [Bytes -> Byte]
  /\ \A T \in Types : Cut(T, Cleared).bytes = Cleared
BY DEF Cleared, Byte, Cut

\* What load_place finds of a sound storage is what was assigned.
LEMMA LoadsAreSound ==
  ASSUME NEW T \in Types, NEW b, Sound(T, b)
  PROVE  Cut(T, b).bytes = Cleared \/ \E v \in Values : Cut(T, b) = Whole(T, v)
<1>1. CASE b = Cleared
  BY <1>1, ClearedIsCleared
<1>2. CASE \E v \in Values : b = Whole(T, v).bytes
  <2>1. PICK v \in Values : b = Whole(T, v).bytes
    BY <1>2
  <2>2. Cut(T, b) = Whole(T, v)
    BY <2>1 DEF Cut, Whole
  <2> QED
    BY <2>2
<1> QED
  BY <1>1, <1>2 DEF Sound

\* What memcpy leaves of a sound storage is the value, and zeros beyond it.
LEMMA CopiesAreWhole ==
  ASSUME NEW T \in Types, NEW v \in Values, NEW b, Sound(T, b)
  PROVE  [i \in Bytes |-> IF i <= Width[T] THEN Whole(T, v).bytes[i] ELSE b[i]]
           = Whole(T, v).bytes
<1>1. \A i \in Bytes : ~(i <= Width[T]) => b[i] = Zero
  BY DEF Sound, Cleared, Whole, Cut
<1>2. \A i \in Bytes : ~(i <= Width[T]) => Whole(T, v).bytes[i] = Zero
  BY DEF Whole, Cut
<1>3. Whole(T, v).bytes = [i \in Bytes |-> Whole(T, v).bytes[i]]
  BY DEF Whole, Cut
<1> QED
  BY <1>1, <1>2, <1>3

-----------------------------------------------------------------------------
(* The steps.                                                                *)

\* Nobody uses the variable at first.
LEMMA InitGivesInv == Init => BindingInv
<1> SUFFICES ASSUME Init PROVE BindingInv
  OBVIOUS
<1>1. \A t \in Threads : value[t] \in Value /\ value[t].bytes = Cleared
  BY CutIsValue, ClearedIsCleared DEF Init
<1>2. BindingTypeOK
  BY <1>1, ClearedIsCleared DEF Init, BindingTypeOK, Steps
<1>3. UnusedBefore /\ ReadsKeepType /\ WritesHaveValues
  BY DEF Init, UnusedBefore, ReadsKeepType, WritesHaveValues, Writing
<1>4. Undisturbed
  BY DEF Init, Undisturbed, RetypesAreAlone, TypesAgree, Active, StorageIsSound, StorageIsFilled
<1>5. ReadsAreWhole
  BY <1>1 DEF ReadsAreWhole
<1> QED
  BY <1>2, <1>3, <1>4, <1>5 DEF BindingInv

\* A new variable has cleared storage, and a thread that will fill it.
LEMMA DefineGlobalKeepsInv ==
  ASSUME BindingInv, NEW T \in Types, NEW v \in Values, DefineGlobal(T, v)
  PROVE  BindingInv'
<1>1. /\ ~defined /\ defined' /\ type' = T /\ storage' = Cleared
      /\ step' = [step EXCEPT ![Main] = "compare"]
      /\ value' = [value EXCEPT ![Main] = Whole(T, v)]
      /\ UNCHANGED <<exited, retypes, raced, stale>>
  BY DEF DefineGlobal, Goes, history
<1>2. \A t \in Threads : step[t] = "script" /\ ~retypes[t]
  BY <1>1 DEF BindingInv, UnusedBefore
<1>3. BindingTypeOK'
  BY <1>1, WholeIsValue, ClearedIsCleared, MainIsThread DEF BindingInv, BindingTypeOK, Steps
<1>4. Whole(T, v).type = T
  BY DEF Whole, Cut
<1>5. UnusedBefore' /\ ReadsKeepType' /\ WritesHaveValues'
  BY <1>1, <1>2, <1>4, MainIsThread
  DEF BindingInv, BindingTypeOK, UnusedBefore, ReadsKeepType, WritesHaveValues, Writing
<1>6. RetypesAreAlone' /\ TypesAgree'
  BY <1>1, <1>2, <1>4, MainIsThread
  DEF BindingInv, BindingTypeOK, RetypesAreAlone, TypesAgree, Active
<1>7. StorageIsSound' /\ StorageIsFilled'
  BY <1>1, MainIsThread DEF BindingInv, BindingTypeOK, StorageIsSound, StorageIsFilled, Sound
<1>8. ReadsAreWhole'
  BY <1>1, <1>2, MainIsThread DEF BindingInv, BindingTypeOK, ReadsAreWhole
<1> QED
  BY <1>3, <1>5, <1>6, <1>7, <1>8 DEF BindingInv, Undisturbed

\* An assignment that begins: if it will change or mend the type, it is alone.
LEMMA AssignKeepsInv ==
  ASSUME BindingInv, NEW t \in Threads, NEW T \in Types, NEW v \in Values, Assign(t, T, v)
  PROVE  BindingInv'
<1>1. /\ defined /\ step[t] = "script"
      /\ step' = [step EXCEPT ![t] = "retype"]
      /\ value' = [value EXCEPT ![t] = Whole(T, v)]
      /\ retypes' = [retypes EXCEPT ![t] = T # type \/ raced]
      /\ raced' \in BOOLEAN
      /\ UNCHANGED <<defined, type, storage, exited, stale>>
  BY DEF Assign, Goes, BeginAssignment, InScript, BindingInv, BindingTypeOK
<1>2. BindingTypeOK'
  BY <1>1, WholeIsValue DEF BindingInv, BindingTypeOK, Steps
<1>3. Whole(T, v).type = T
  BY DEF Whole, Cut
<1>4. UnusedBefore' /\ ReadsKeepType' /\ WritesHaveValues' /\ ReadsAreWhole'
  BY <1>1, <1>3
  DEF BindingInv, BindingTypeOK, UnusedBefore, ReadsKeepType, WritesHaveValues, Writing,
      ReadsAreWhole
<1>5. ASSUME ~raced' PROVE Undisturbed'
  <2>1. /\ ~raced => Undisturbed
        /\ \A u \in Threads \ {t} : Active(u) => ~raced /\ ~retypes[u] /\ T = type
    BY <1>5 DEF BindingInv, Assign, BeginAssignment, Alone, Races, Active
  <2>2. RetypesAreAlone'
    BY <1>1, <2>1 DEF Undisturbed, RetypesAreAlone, Active, BindingInv, BindingTypeOK
  <2>3. TypesAgree'
    BY <1>1, <1>3, <2>1 DEF Undisturbed, TypesAgree, Active, BindingInv, BindingTypeOK
  <2>4. /\ \A u \in Threads : Converting(u) => Converting(u)'
        /\ raced => Converting(t)'
    BY <1>1 DEF Converting, BindingInv, BindingTypeOK
  <2>5. StorageIsSound'
    BY <1>1, <2>1, <2>4 DEF Undisturbed, StorageIsSound
  <2>6. StorageIsFilled'
    BY <1>1, <2>1, <2>4 DEF Undisturbed, StorageIsFilled, BindingInv, BindingTypeOK
  <2> QED
    BY <2>2, <2>3, <2>5, <2>6 DEF Undisturbed
<1> QED
  BY <1>2, <1>4, <1>5 DEF BindingInv

\* A read that begins takes the variable's type.
LEMMA ReadKeepsInv ==
  ASSUME BindingInv, NEW t \in Threads, Read(t)
  PROVE  BindingInv'
<1>1. /\ defined /\ step[t] = "script"
      /\ step' = [step EXCEPT ![t] = "read"]
      /\ value' = [value EXCEPT ![t] = Cut(type, Cleared)]
      /\ retypes' = [retypes EXCEPT ![t] = FALSE]
      /\ raced' \in BOOLEAN
      /\ UNCHANGED <<defined, type, storage, exited, stale>>
  BY DEF Read, Goes, BeginRead, InScript, BindingInv, BindingTypeOK
<1>2. BindingTypeOK'
  BY <1>1, CutIsValue, ClearedIsCleared DEF BindingInv, BindingTypeOK, Steps
<1>3. Cut(type, Cleared).type = type
  BY DEF Cut
<1>4. UnusedBefore' /\ ReadsKeepType' /\ WritesHaveValues' /\ ReadsAreWhole'
  BY <1>1
  DEF BindingInv, BindingTypeOK, UnusedBefore, ReadsKeepType, WritesHaveValues, Writing,
      ReadsAreWhole
<1>5. ASSUME ~raced' PROVE Undisturbed'
  <2>1. Undisturbed /\ \A u \in Threads \ {t} : Active(u) => ~retypes[u]
    BY <1>5 DEF BindingInv, BindingTypeOK, Read, BeginRead, Races, Active
  <2>2. RetypesAreAlone'
    BY <1>1, <2>1 DEF Undisturbed, RetypesAreAlone, Active, BindingInv, BindingTypeOK
  <2>3. TypesAgree'
    BY <1>1, <1>3, <2>1 DEF Undisturbed, TypesAgree, Active, BindingInv, BindingTypeOK
  <2>4. \A u \in Threads : Converting(u) => Converting(u)'
    BY <1>1 DEF Converting, BindingInv, BindingTypeOK
  <2>5. StorageIsSound'
    BY <1>1, <2>1, <2>4 DEF Undisturbed, StorageIsSound
  <2>6. StorageIsFilled'
    BY <1>1, <2>1, <2>4 DEF Undisturbed, StorageIsFilled, BindingInv, BindingTypeOK
  <2> QED
    BY <2>2, <2>3, <2>5, <2>6 DEF Undisturbed
<1> QED
  BY <1>2, <1>4, <1>5 DEF BindingInv

\* The type is stored: the storage keeps bytes of the old type until it is cleared.
LEMMA RetypeKeepsInv ==
  ASSUME BindingInv, NEW t \in Threads, Retype(t)
  PROVE  BindingInv'
<1>1. /\ step[t] = "retype" /\ type' = value[t].type
      /\ step' = [step EXCEPT ![t] = "compare"]
      /\ UNCHANGED <<defined, storage, value, exited, retypes, raced, stale>>
  BY DEF Retype, Goes, At, history
<1>2. defined
  BY <1>1 DEF BindingInv, UnusedBefore
<1>3. BindingTypeOK'
  BY <1>1 DEF BindingInv, BindingTypeOK, Steps, Value
<1>4. UnusedBefore' /\ ReadsKeepType' /\ WritesHaveValues' /\ ReadsAreWhole'
  BY <1>1, <1>2
  DEF BindingInv, BindingTypeOK, UnusedBefore, ReadsKeepType, WritesHaveValues, Writing,
      ReadsAreWhole
<1>5. ASSUME ~raced' PROVE Undisturbed'
  <2>1. Undisturbed
    BY <1>1, <1>5 DEF BindingInv
  <2>2. RetypesAreAlone'
    BY <1>1, <2>1 DEF Undisturbed, RetypesAreAlone, Active, BindingInv, BindingTypeOK
  <2>3. ASSUME ~retypes[t] PROVE type' = type
    BY <1>1, <2>1, <2>3 DEF Undisturbed, TypesAgree, Active
  <2>4. \A u \in Threads \ {t} : Active(u) => ~retypes[u] /\ ~retypes[t]
    BY <1>1, <2>1 DEF Undisturbed, RetypesAreAlone, Active
  <2>5. TypesAgree'
    BY <1>1, <2>1, <2>3, <2>4 DEF Undisturbed, TypesAgree, Active, BindingInv, BindingTypeOK
  <2>6. StorageIsSound'
    <3>1. CASE retypes[t]
      BY <1>1, <3>1 DEF StorageIsSound, Converting, BindingInv, BindingTypeOK
    <3>2. CASE ~retypes[t]
      <4>1. \A u \in Threads : ~Converting(u)
        BY <1>1, <2>4, <3>2 DEF Converting, Active
      <4> QED
        BY <1>1, <2>1, <2>3, <3>2, <4>1 DEF Undisturbed, StorageIsSound
    <3> QED
      BY <3>1, <3>2
  <2>7. StorageIsFilled'
    BY <1>1 DEF StorageIsFilled, BindingInv, BindingTypeOK
  <2> QED
    BY <2>2, <2>5, <2>6, <2>7 DEF Undisturbed
<1> QED
  BY <1>3, <1>4, <1>5 DEF BindingInv

\* The comparison succeeds, unless assignments race.
LEMMA CompareTypeKeepsInv ==
  ASSUME BindingInv, NEW t \in Threads, CompareType(t)
  PROVE  BindingInv'
<1>1. /\ step[t] = "compare"
      /\ \/ step' = [step EXCEPT ![t] = "clear"]
         \/ type # value[t].type /\ step' = [step EXCEPT ![t] = "script"]
      /\ exited' \in BOOLEAN
      /\ UNCHANGED <<defined, type, storage, value, retypes, raced, stale>>
  BY DEF CompareType, Goes, At, history, BindingInv, BindingTypeOK
<1>2. defined
  BY <1>1 DEF BindingInv, UnusedBefore
<1>3. BindingTypeOK'
  BY <1>1 DEF BindingInv, BindingTypeOK, Steps
<1>4. UnusedBefore' /\ ReadsKeepType' /\ WritesHaveValues' /\ ReadsAreWhole'
  BY <1>1, <1>2
  DEF BindingInv, BindingTypeOK, UnusedBefore, ReadsKeepType, WritesHaveValues, Writing,
      ReadsAreWhole
<1>5. ASSUME ~raced' PROVE Undisturbed'
  <2>1. Undisturbed
    BY <1>1, <1>5 DEF BindingInv
  <2>2. type = value[t].type
    BY <1>1, <2>1 DEF Undisturbed, TypesAgree, Active
  <2>3. step' = [step EXCEPT ![t] = "clear"]
    BY <1>1, <2>2
  <2>4. RetypesAreAlone' /\ TypesAgree'
    BY <1>1, <2>1, <2>3
    DEF Undisturbed, RetypesAreAlone, TypesAgree, Active, BindingInv, BindingTypeOK
  <2>5. \A u \in Threads : Converting(u) => Converting(u)'
    BY <1>1, <2>3 DEF Converting, BindingInv, BindingTypeOK
  <2>6. StorageIsSound'
    BY <1>1, <2>1, <2>5 DEF Undisturbed, StorageIsSound
  <2>7. StorageIsFilled'
    BY <1>1, <2>1, <2>3 DEF Undisturbed, StorageIsFilled, BindingInv, BindingTypeOK
  <2> QED
    BY <2>4, <2>6, <2>7 DEF Undisturbed
<1> QED
  BY <1>3, <1>4, <1>5 DEF BindingInv

\* The storage is cleared: it is sound with any type.
LEMMA ClearStorageKeepsInv ==
  ASSUME BindingInv, NEW t \in Threads, ClearStorage(t)
  PROVE  BindingInv'
<1>1. /\ step[t] = "clear" /\ storage' = Cleared
      /\ step' = [step EXCEPT ![t] = "copy"]
      /\ UNCHANGED <<defined, type, value, exited, retypes, raced, stale>>
  BY DEF ClearStorage, Goes, At, history
<1>2. defined
  BY <1>1 DEF BindingInv, UnusedBefore
<1>3. BindingTypeOK'
  BY <1>1, ClearedIsCleared DEF BindingInv, BindingTypeOK, Steps
<1>4. UnusedBefore' /\ ReadsKeepType' /\ WritesHaveValues' /\ ReadsAreWhole'
  BY <1>1, <1>2
  DEF BindingInv, BindingTypeOK, UnusedBefore, ReadsKeepType, WritesHaveValues, Writing,
      ReadsAreWhole
<1>5. ASSUME ~raced' PROVE Undisturbed'
  <2>1. Undisturbed
    BY <1>1, <1>5 DEF BindingInv
  <2>2. RetypesAreAlone' /\ TypesAgree'
    BY <1>1, <2>1
    DEF Undisturbed, RetypesAreAlone, TypesAgree, Active, BindingInv, BindingTypeOK
  <2>3. StorageIsSound' /\ StorageIsFilled'
    BY <1>1 DEF StorageIsSound, Sound, Cleared, StorageIsFilled, BindingInv, BindingTypeOK
  <2> QED
    BY <2>2, <2>3 DEF Undisturbed
<1> QED
  BY <1>3, <1>4, <1>5 DEF BindingInv

\* The value is copied over a storage of its own type.
LEMMA CopyValueKeepsInv ==
  ASSUME BindingInv, NEW t \in Threads, CopyValue(t)
  PROVE  BindingInv'
<1> DEFINE new == [i \in Bytes |-> IF i <= Width[value[t].type] THEN value[t].bytes[i]
                                                               ELSE storage[i]]
<1>1. /\ step[t] = "copy" /\ storage' = new
      /\ step' = [step EXCEPT ![t] = "script"]
      /\ UNCHANGED <<defined, type, value, exited, retypes, raced, stale>>
  BY DEF CopyValue, Goes, At, history
<1>2. defined
  BY <1>1 DEF BindingInv, UnusedBefore
<1>3. PICK v \in Values : value[t] = Whole(value[t].type, v)
  BY <1>1 DEF BindingInv, WritesHaveValues, Writing
<1>4. value[t].type \in Types /\ value[t].bytes \in [Bytes -> Byte] /\ storage \in [Bytes -> Byte]
  BY <1>2 DEF BindingInv, BindingTypeOK, Value
<1>5. new \in [Bytes -> Byte]
  BY <1>4
<1>6. BindingTypeOK'
  BY <1>1, <1>5 DEF BindingInv, BindingTypeOK, Steps
<1>7. UnusedBefore' /\ ReadsKeepType' /\ WritesHaveValues' /\ ReadsAreWhole'
  BY <1>1, <1>2, <1>3
  DEF BindingInv, BindingTypeOK, UnusedBefore, ReadsKeepType, WritesHaveValues, Writing,
      ReadsAreWhole
<1>8. ASSUME ~raced' PROVE Undisturbed'
  <2>1. Undisturbed
    BY <1>1, <1>8 DEF BindingInv
  <2>2. type = value[t].type
    BY <1>1, <2>1 DEF Undisturbed, TypesAgree, Active
  <2>3. \A u \in Threads : ~Converting(u)
    BY <1>1, <2>1 DEF Undisturbed, RetypesAreAlone, Converting, Active
  <2>4. Sound(type, storage)
    BY <1>2, <2>1, <2>3 DEF Undisturbed, StorageIsSound
  <2>5. new = Whole(type, v).bytes
    BY <1>3, <1>4, <2>2, <2>4, CopiesAreWhole
  <2>6. RetypesAreAlone' /\ TypesAgree'
    BY <1>1, <2>1
    DEF Undisturbed, RetypesAreAlone, TypesAgree, Active, BindingInv, BindingTypeOK
  <2>7. StorageIsSound' /\ StorageIsFilled'
    BY <1>1, <2>5 DEF StorageIsSound, Sound, StorageIsFilled, Whole, Cut
  <2> QED
    BY <2>6, <2>7 DEF Undisturbed
<1> QED
  BY <1>6, <1>7, <1>8 DEF BindingInv

\* The bytes are copied from a storage of the type that was read.
LEMMA LoadKeepsInv ==
  ASSUME BindingInv, NEW t \in Threads, Load(t)
  PROVE  BindingInv'
<1>1. /\ step[t] = "read"
      /\ value' = [value EXCEPT ![t] = Cut(value[t].type, storage)]
      /\ step' = [step EXCEPT ![t] = "script"]
      /\ stale' = [stale EXCEPT ![t] = raced]
      /\ UNCHANGED <<defined, type, storage, exited, retypes, raced>>
  BY DEF Load, Goes, At
<1>2. defined
  BY <1>1 DEF BindingInv, UnusedBefore
<1>3. value[t].type \in Types /\ storage \in [Bytes -> Byte]
  BY <1>2 DEF BindingInv, BindingTypeOK, Value
<1>4. BindingTypeOK'
  BY <1>1, <1>3, CutIsValue DEF BindingInv, BindingTypeOK, Steps
<1>5. UnusedBefore' /\ ReadsKeepType' /\ WritesHaveValues'
  BY <1>1, <1>2
  DEF BindingInv, BindingTypeOK, UnusedBefore, ReadsKeepType, WritesHaveValues, Writing
<1>6. ASSUME ~raced' PROVE Undisturbed'
  <2>1. Undisturbed /\ ~retypes[t]
    BY <1>1, <1>6 DEF BindingInv, ReadsKeepType
  <2>2. \A u \in Threads : ~Converting(u)
    BY <1>1, <2>1 DEF Undisturbed, RetypesAreAlone, Converting, Active
  <2>3. RetypesAreAlone' /\ TypesAgree'
    BY <1>1, <2>1
    DEF Undisturbed, RetypesAreAlone, TypesAgree, Active, BindingInv, BindingTypeOK
  <2>4. StorageIsSound' /\ StorageIsFilled'
    <3>1. \A u \in Threads : Converting(u) => Converting(u)'
      BY <2>2
    <3> QED
      BY <1>1, <2>1, <3>1 DEF Undisturbed, StorageIsSound, StorageIsFilled, BindingInv, BindingTypeOK
  <2> QED
    BY <2>3, <2>4 DEF Undisturbed
<1>7. ReadsAreWhole'
  <2>1. ASSUME ~raced
        PROVE  LET r == Cut(value[t].type, storage)
               IN r.bytes = Cleared \/ \E v \in Values : r = Whole(r.type, v)
    <3>1. Undisturbed /\ ~retypes[t]
      BY <1>1, <2>1 DEF BindingInv, ReadsKeepType
    <3>2. type = value[t].type
      BY <1>1, <3>1 DEF Undisturbed, TypesAgree, Active
    <3>3. \A u \in Threads : ~Converting(u)
      BY <1>1, <3>1 DEF Undisturbed, RetypesAreAlone, Converting, Active
    <3>4. Sound(type, storage)
      BY <1>2, <3>1, <3>3 DEF Undisturbed, StorageIsSound
    <3> QED
      BY <1>3, <3>2, <3>4, LoadsAreSound DEF Cut
  <2> QED
    BY <1>1, <2>1 DEF ReadsAreWhole, BindingInv, BindingTypeOK
<1> QED
  BY <1>4, <1>5, <1>6, <1>7 DEF BindingInv

\* BindingInv is inductive.
LEMMA NextKeepsInv == BindingInv /\ [Next]_vars => BindingInv'
<1> SUFFICES ASSUME BindingInv, [Next]_vars PROVE BindingInv'
  OBVIOUS
<1>1. CASE UNCHANGED vars
  BY <1>1 DEF vars, history, BindingInv, BindingTypeOK, UnusedBefore, ReadsKeepType, WritesHaveValues,
    Undisturbed, RetypesAreAlone, TypesAgree, Active, StorageIsSound, StorageIsFilled, Converting,
    Sound, Cleared, Whole, Cut, ReadsAreWhole
<1>2. CASE \E T \in Types, v \in Values : DefineGlobal(T, v)
  BY <1>2, DefineGlobalKeepsInv
<1>3. CASE \E t \in Threads, T \in Types, v \in Values : Assign(t, T, v)
  BY <1>3, AssignKeepsInv
<1>4. CASE \E t \in Threads : Retype(t) \/ CompareType(t) \/ ClearStorage(t) \/ CopyValue(t)
  BY <1>4, RetypeKeepsInv, CompareTypeKeepsInv, ClearStorageKeepsInv, CopyValueKeepsInv
<1>5. CASE \E t \in Threads : Read(t) \/ Load(t)
  BY <1>5, ReadKeepsInv, LoadKeepsInv
<1> QED
  BY <1>1, <1>2, <1>3, <1>4, <1>5 DEF Next, Exited

\* BindingInv holds in every reachable state.
LEMMA BindingInvHolds == Spec => []BindingInv
BY InitGivesInv, NextKeepsInv, PTL DEF Spec

-----------------------------------------------------------------------------
(* The theorems.                                                             *)

\* A read of a global variable that no assignment retypes or mends meanwhile
\* returns a value that was assigned, or zero, whatever raced before and has been
\* mended (interpreter.cpp 228-296).
THEOREM ReadsAreAlwaysWhole == Spec => []ReadsAreWhole
<1>1. BindingInv => ReadsAreWhole
  BY DEF BindingInv
<1> QED
  BY <1>1, BindingInvHolds, PTL

\* When all uses of a global variable are done, its storage holds one value that
\* was assigned, of the type the variable has, and nothing beyond it: through any
\* overlapping assignments of one type, and after any race of two types once an
\* assignment has begun alone (interpreter.cpp 228-243, 283-296).
THEOREM StorageAlwaysFitsType == Spec => []StorageFitsType
<1>1. BindingInv => StorageFitsType
  <2>1. ASSUME BindingInv, ~raced, Quiet
        PROVE  \E v \in Values : storage = Whole(type, v).bytes
    BY <2>1 DEF BindingInv, Undisturbed, StorageIsFilled, Converting, Quiet
  <2> QED
    BY <2>1 DEF BindingInv, StorageFitsType
<1> QED
  BY <1>1, BindingInvHolds, PTL
=============================================================================
