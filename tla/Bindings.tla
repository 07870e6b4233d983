------------------------------ MODULE Bindings ------------------------------
(***************************************************************************)
(* A global scalar variable used by several threads: find_global and       *)
(* define_or_redefine_global (runtime.cpp 158-186), define_variable,       *)
(* load_place and store_binding (interpreter.cpp 228-296).                 *)
(*                                                                         *)
(* A Binding is a type, which is atomic, and eight bytes of storage, which *)
(* are not.  metadata_mutex_ protects the map of globals, and with it the  *)
(* creation of a variable; what happens to a variable afterwards is not    *)
(* under a mutex.  An assignment stores the type, loads and compares it,   *)
(* clears the storage, and copies the value; a read loads the type and     *)
(* copies as many bytes as it has.  Each of these is a step of its own.    *)
(* memset and memcpy of at most eight aligned bytes are single moves in    *)
(* the builds there are, so they are not torn.                             *)
(*                                                                         *)
(* A byte of the storage is known by the assignment that wrote it: its     *)
(* type and its value.                                                     *)
(***************************************************************************)
EXTENDS Naturals

CONSTANTS Threads,       \* OS threads
          Main,          \* the thread that executes modules
          Types,         \* scalar types
          Width,         \* type -> its size in bytes
          Size,          \* bytes of a scalar's storage, 8 in the code
          Values,        \* values, of any type
          Zero, Garbage  \* bytes that are cleared, or never written

ASSUME MainIsThread == Main \in Threads
ASSUME WidthsFit == Size \in Nat /\ Width \in [Types -> 1 .. Size]
ASSUME ZeroIsNoByte == Zero \notin Types \X Values

VARIABLES defined,  \* the variable is in globals_
          type,     \* Binding::type
          storage,  \* the bytes at Binding::address
          step,     \* thread -> what it does next with the variable
          value,    \* thread -> the value it is assigning, or has read last
          exited,   \* a callback has failed, and the process with it
          retypes,  \* history: thread -> its assignment changes or mends the type
          raced,    \* history: uses raced for the type, and none has mended it
          stale     \* history: thread -> what it has read last was raced for

history == <<retypes, raced, stale>>
vars == <<defined, type, storage, step, value, exited, history>>

Bytes == 1 .. Size
Byte == (Types \X Values) \cup {Zero}

\* A RuntimeValue: a type, and as many bytes as the type has.
Value == [type : Types, bytes : [Bytes -> Byte]]
Cut(T, b) == [type |-> T, bytes |-> [i \in Bytes |-> IF i <= Width[T] THEN b[i] ELSE Zero]]
Whole(T, v) == Cut(T, [i \in Bytes |-> <<T, v>>])
Cleared == [i \in Bytes |-> Zero]

Steps == {"script", "retype", "compare", "clear", "copy", "read"}

\* No byte of a variable, or of a value read from it, is uninitialised.
BindingTypeOK ==
  /\ defined \in BOOLEAN /\ exited \in BOOLEAN /\ raced \in BOOLEAN
  /\ type \in Types
  /\ storage \in [Bytes -> Byte \cup {Garbage}]
  /\ defined => storage \in [Bytes -> Byte]
  /\ step \in [Threads -> Steps]
  /\ value \in [Threads -> Value]
  /\ retypes \in [Threads -> BOOLEAN] /\ stale \in [Threads -> BOOLEAN]

Init ==
  /\ defined = FALSE
  /\ type \in Types
  /\ storage = [i \in Bytes |-> Garbage]   \* as FrameArena allocates it
  /\ step = [t \in Threads |-> "script"]
  /\ value = [t \in Threads |-> Cut(type, Cleared)]
  /\ exited = FALSE
  /\ raced = FALSE
  /\ retypes = [t \in Threads |-> FALSE] /\ stale = [t \in Threads |-> FALSE]

-----------------------------------------------------------------------------
InScript(t) == ~exited /\ step[t] = "script"
At(t, s) == ~exited /\ step[t] = s
Goes(t, s) == step' = [step EXCEPT ![t] = s]

\* (These have no guard: they keep the history variables.)
\* A use of the variable with type T begins on thread t while another one is
\* in progress, and either changes the type.
Races(t, T) ==
  \E u \in Threads \ {t} : step[u] # "script" /\ (retypes[u] \/ T # type)

Alone(t) == \A u \in Threads \ {t} : step[u] = "script"

\* Thread t begins to assign.  An assignment that begins alone will mend what
\* races have left behind; until it has, it counts as a change of the type.
BeginAssignment(t, T) ==
  /\ retypes' = [retypes EXCEPT ![t] = T # type \/ raced]
  /\ raced' = (~Alone(t) /\ (raced \/ Races(t, T)))
  /\ UNCHANGED stale

BeginRead(t) ==
  /\ retypes' = [retypes EXCEPT ![t] = FALSE]
  /\ raced' = (raced \/ Races(t, type))
  /\ UNCHANGED stale

\* An assignment at the top level of a module to a name that is no global yet.
\* The new binding has its type and cleared storage before it is in the map.
\* Only the main thread creates globals, so nothing happens between looking
\* the name up and creating it.
DefineGlobal(T, v) ==
  /\ InScript(Main) /\ ~defined
  /\ defined' = TRUE /\ type' = T
  /\ storage' = Cleared
  /\ value' = [value EXCEPT ![Main] = Whole(T, v)]
  /\ Goes(Main, "compare")
  /\ UNCHANGED <<exited, history>>

\* An assignment, anywhere, to a global: find_global has returned its binding.
\* (Elsewhere than at the top level, a name that is no global is a local.)
Assign(t, T, v) ==
  /\ InScript(t) /\ defined
  /\ value' = [value EXCEPT ![t] = Whole(T, v)]
  /\ Goes(t, "retype") /\ BeginAssignment(t, T)
  /\ UNCHANGED <<defined, type, storage, exited>>

\* define_variable: the variable adopts the value's type.
Retype(t) ==
  /\ At(t, "retype")
  /\ type' = value[t].type
  /\ Goes(t, "compare")
  /\ UNCHANGED <<defined, storage, value, exited, history>>

\* store_binding: "binding store type mismatch" if the variable has another
\* type by now.  The module fails; in a callback, the process does.
CompareType(t) ==
  /\ At(t, "compare")
  /\ \/ type = value[t].type /\ Goes(t, "clear") /\ UNCHANGED exited
     \/ /\ type # value[t].type
        /\ Goes(t, "script")
        /\ exited' \in {TRUE, t # Main}
  /\ UNCHANGED <<defined, type, storage, value, history>>

\* Mutant of ClearStorage: only the bytes of the value are cleared.
ClearValue(t) ==
  /\ At(t, "clear")
  /\ storage' = [i \in Bytes |-> IF i <= Width[type] THEN Zero ELSE storage[i]]
  /\ Goes(t, "copy")
  /\ UNCHANGED <<defined, type, value, exited, history>>

\* memset(address, 0, 8).
ClearStorage(t) ==
  /\ At(t, "clear")
  /\ storage' = Cleared
  /\ Goes(t, "copy")
  /\ UNCHANGED <<defined, type, value, exited, history>>

\* memcpy(address, &bits, size): the bytes of the value's type.
CopyValue(t) ==
  /\ At(t, "copy")
  /\ storage' = [i \in Bytes |-> IF i <= Width[value[t].type] THEN value[t].bytes[i]
                                                            ELSE storage[i]]
  /\ Goes(t, "script")
  /\ UNCHANGED <<defined, type, value, exited, history>>

\* Mutant of Read: the type is the one of the thread's last use of the variable.
ReadAsBefore(t) ==
  /\ InScript(t) /\ defined
  /\ value' = [value EXCEPT ![t].bytes = Cleared]
  /\ Goes(t, "read") /\ BeginRead(t)
  /\ UNCHANGED <<defined, type, storage, exited>>

\* place: a read of the variable loads its type, ...
Read(t) ==
  /\ InScript(t) /\ defined
  /\ value' = [value EXCEPT ![t] = Cut(type, Cleared)]
  /\ Goes(t, "read") /\ BeginRead(t)
  /\ UNCHANGED <<defined, type, storage, exited>>

\* ... and load_place copies as many bytes.
Load(t) ==
  /\ At(t, "read")
  /\ value' = [value EXCEPT ![t] = Cut(@.type, storage)]
  /\ Goes(t, "script")
  /\ stale' = [stale EXCEPT ![t] = raced]
  /\ UNCHANGED <<defined, type, storage, exited, retypes, raced>>

Exited == exited /\ UNCHANGED vars

Next ==
  \/ \E T \in Types, v \in Values : DefineGlobal(T, v)
  \/ \E t \in Threads, T \in Types, v \in Values : Assign(t, T, v)
  \/ \E t \in Threads : Retype(t) \/ CompareType(t) \/ ClearStorage(t) \/ CopyValue(t)
  \/ \E t \in Threads : Read(t) \/ Load(t)
  \/ Exited

Spec == Init /\ [][Next]_vars

-----------------------------------------------------------------------------
(* Nothing keeps assignments of different types apart, and what they and     *)
(* the reads beside them find while they race is anything.  But a race       *)
(* leaves no lasting damage: once an assignment has begun alone, and as long *)
(* as no further change of type has company, threads may read and assign     *)
(* the variable at the same time, without a mutex:                           *)

\* a read returns a value that was assigned, with its type, or the zero that
\* an assignment in progress leaves in between, whatever raced and was mended
\* before it, or has raced since;
ReadsAreWhole ==
  \A t \in Threads :
    ~stale[t] /\ step[t] = "script" =>
      LET r == value[t]
      IN r.bytes = Cleared \/ \E v \in Values : r = Whole(r.type, v)

Quiet == defined /\ ~exited /\ \A t \in Threads : step[t] = "script"

\* and when all are done, the storage holds one assigned value of the
\* variable's type, and zeros beyond it, which reads of the storage with
\* another type (@&$x) see.  All parts of the state have their types, raced
\* for or not.
StorageFitsType ==
  /\ BindingTypeOK
  /\ ~raced /\ Quiet => \E v \in Values : storage = Whole(type, v).bytes
=============================================================================
