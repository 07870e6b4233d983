------------------------------ MODULE FfiCalls ------------------------------
(***************************************************************************)
(* Calls of native functions: the remembered call descriptors              *)
(* (FfiBindingSignature, checker.cpp 179-213 and 256-309, installed by     *)
(* check_and_execute, main.cpp 84-89) and their execution through the      *)
(* DllRegistry (eval_call, interpreter.cpp 558-568).                       *)
(*                                                                         *)
(* A target is resolved under the registry's mutex and called after the    *)
(* mutex has been released, so other threads' load, focus and free come    *)
(* in between, and run while the native code does: nothing keeps a script  *)
(* from freeing the DLL a call is in, or main from ending.  The main       *)
(* thread checks and executes modules of one call each; callbacks on any   *)
(* thread execute calls that were checked before.                          *)
(***************************************************************************)
EXTENDS DllRegistry, Sequences

CONSTANTS Threads,     \* OS threads
          Main,        \* the thread that checks and executes modules
          Symbols,     \* names and ordinals a script calls
          MaxNesting,  \* bound: thread -> native calls in progress on it
          Unknown,     \* no descriptor is remembered for a name
          NoCall       \* no call is resolved, or to be executed

ASSUME MainIsThread == Main \in Threads
ASSUME MaxNestingsAreNat == MaxNesting \in [Threads -> Nat]

VARIABLES ffi,         \* ffi_functions_: name -> how a remembered call finds it
          statement,   \* the call the main thread has checked and will execute
          target,      \* thread -> the address resolved for a call not yet made
          inside,      \* thread -> native calls in progress, innermost last
          declaredIn,  \* name -> the file reached by the call that declared it
          asked        \* the key scripts last asked to focus, unless freed since

callVars == <<ffi, statement, target, inside, declaredIn, asked>>
vars == <<registryVars, callVars>>

(* Origins: FfiOriginKind.  A function pointer's origin, Variable, does not  *)
(* involve the registry and is left out.                                     *)
Focused == [origin |-> "focused"]
External(p) == [origin |-> "external", path |-> p]
Origins == {Focused} \cup {External(p) : p \in Paths}

Init ==
  /\ RegistryInit
  /\ ffi = [n \in Symbols |-> Unknown]
  /\ statement = NoCall
  /\ target = [t \in Threads |-> NoCall]
  /\ inside = [t \in Threads |-> <<>>]
  /\ declaredIn = [n \in Symbols |-> NoFile]
  /\ asked = NoKey

-----------------------------------------------------------------------------
\* The thread runs script code: nothing resolved, no nesting beyond the bound.
InScript(t) ==
  /\ target[t] = NoCall
  /\ Len(inside[t]) < MaxNesting[t]
  /\ t = Main => statement = NoCall

\* Mutant of RememberedOrigin: apply_ffi_origin without its External case.
RememberedAsFocused(n) == IF ffi[n] = Unknown THEN Unknown ELSE Focused

(* check_call: an untyped call takes the remembered descriptor               *)
(* (apply_ffi_origin), and is refused if there is none.                      *)
RememberedOrigin(n) == ffi[n]

\* A module with one typed call, check_and_execute up to the execution: the
\* checker remembers the call (remember_ffi_call), and install_ffi_bindings
\* keeps it before anything is executed, so also if the call then fails.
CheckTypedCall(n, o) ==
  /\ open /\ InScript(Main) /\ inside[Main] = <<>>
  /\ ffi' = [ffi EXCEPT ![n] = o]
  /\ declaredIn' = [declaredIn EXCEPT ![n] = NoFile]
  /\ statement' = [name |-> n, origin |-> o, declares |-> TRUE]
  /\ UNCHANGED <<registryVars, target, inside, asked>>

\* A module with one untyped call of a remembered name.
CheckUntypedCall(n) ==
  /\ open /\ InScript(Main) /\ inside[Main] = <<>>
  /\ ffi[n] # Unknown
  /\ statement' = [name |-> n, origin |-> RememberedOrigin(n), declares |-> FALSE]
  /\ UNCHANGED <<registryVars, ffi, target, inside, declaredIn, asked>>

(* eval_call, lines 563-567.                                                 *)
\* The registry's side of resolving, for each origin.
ResolveStep(o) ==
  \/ o.origin = "external" /\ ResolveExternal(o.path)
  \/ o.origin = "focused" /\ CanResolveFocused /\ UNCHANGED registryVars

\* The key in whose DLL the symbol is looked up.
ResolvedKey(o) == IF o.origin = "external" THEN Canonical[o.path] ELSE focused

Resolved(n, o, remembered) ==
  [name |-> n, origin |-> o, remembered |-> remembered,
   key |-> ResolvedKey(o), file |-> libraries'[ResolvedKey(o)], freed |-> FALSE]

\* The call's target is found, ...
ResolveCall(t, n, o, remembered) ==
  /\ ResolveStep(o)
  /\ FindSymbol(libraries'[ResolvedKey(o)], n)
  /\ target' = [target EXCEPT ![t] = Resolved(n, o, remembered)]

\* ... or not: the DLL or the symbol is missing, or no DLL is focused.  The
\* call throws; a DLL loaded on the way stays loaded.
FailToResolve(o, n) ==
  /\ \/ /\ ResolveStep(o)
        /\ ~FindSymbol(libraries'[ResolvedKey(o)], n)
     \/ /\ open
        /\ \/ o.origin = "external" /\ ~CanLoad(Canonical[o.path])
           \/ o.origin = "focused" /\ ~CanResolveFocused
        /\ UNCHANGED registryVars
  /\ UNCHANGED target

\* The main thread executes the call it has checked.
ExecuteStatement ==
  /\ statement # NoCall
  /\ \/ /\ ResolveCall(Main, statement.name, statement.origin, ~statement.declares)
        /\ declaredIn' = IF statement.declares
                         THEN [declaredIn EXCEPT ![statement.name] =
                                 libraries'[ResolvedKey(statement.origin)]]
                         ELSE declaredIn
     \/ /\ FailToResolve(statement.origin, statement.name)
        /\ UNCHANGED declaredIn
  /\ statement' = NoCall
  /\ UNCHANGED <<ffi, inside, asked>>

\* A callback, on any thread, executes a typed call of a function body.
CallInCallback(t, n, o) ==
  /\ InScript(t) /\ (t = Main => inside[t] # <<>>)
  /\ ResolveCall(t, n, o, FALSE) \/ FailToResolve(o, n)
  /\ UNCHANGED <<ffi, statement, inside, declaredIn, asked>>

\* ffi_call_scalar: the resolved address is called, and later returns.
EnterNative(t) ==
  /\ target[t] # NoCall
  /\ inside' = [inside EXCEPT ![t] = Append(@, target[t])]
  /\ target' = [target EXCEPT ![t] = NoCall]
  /\ UNCHANGED <<registryVars, ffi, statement, declaredIn, asked>>

LeaveNative(t) ==
  /\ target[t] = NoCall /\ inside[t] # <<>>
  /\ inside' = [inside EXCEPT ![t] = SubSeq(@, 1, Len(@) - 1)]
  /\ UNCHANGED <<registryVars, ffi, statement, target, declaredIn, asked>>

\* Targets resolved or running on some thread.
InUse == {target[t] : t \in {u \in Threads : target[u] # NoCall}}
         \cup UNION {{inside[t][i] : i \in DOMAIN inside[t]} : t \in Threads}

\* The entries of these keys are dropped: calls found through them are marked.
Dropped(c, keys) == IF c.key \in keys THEN [c EXCEPT !.freed = TRUE] ELSE c

DropCalls(keys) ==
  /\ target' = [t \in Threads |->
                  IF target[t] = NoCall THEN NoCall ELSE Dropped(target[t], keys)]
  /\ inside' = [t \in Threads |->
                  [i \in DOMAIN inside[t] |-> Dropped(inside[t][i], keys)]]

\* The load, focus and free intrinsics, on any thread.  Free asks nobody
\* whether a call is in the DLL.
Intrinsic(t) ==
  /\ InScript(t)
  /\ \E p \in Paths :
       \/ Load(p, FALSE) /\ UNCHANGED <<target, inside, asked>>
       \/ /\ Load(p, TRUE) \/ Focus(p)
          /\ asked' = Canonical[p]
          /\ UNCHANGED <<target, inside>>
       \/ /\ Free(p)
          /\ asked' = IF asked = Canonical[p] THEN NoKey ELSE asked
          /\ DropCalls({Canonical[p]})
  /\ UNCHANGED <<ffi, statement, declaredIn>>

\* The Runtime, and its DllRegistry, ends with main, which waits for no other
\* thread.
EndRuntime ==
  /\ statement = NoCall /\ target[Main] = NoCall /\ inside[Main] = <<>>
  /\ Shutdown
  /\ DropCalls(Keys)
  /\ asked' = NoKey
  /\ UNCHANGED <<ffi, statement, declaredIn>>

Ended == ~open /\ UNCHANGED vars

Next ==
  \/ \E n \in Symbols, o \in Origins : CheckTypedCall(n, o)
  \/ \E n \in Symbols : CheckUntypedCall(n)
  \/ ExecuteStatement
  \/ \E t \in Threads : EnterNative(t) \/ LeaveNative(t) \/ Intrinsic(t)
  \/ \E t \in Threads, n \in Symbols, o \in Origins : CallInCallback(t, n, o)
  \/ EndRuntime
  \/ Ended

Spec == Init /\ [][Next]_vars

-----------------------------------------------------------------------------
\* Every address that was resolved and not yet called, and every native
\* function that is still running, is in a file that is mapped, until a script
\* frees the very name the call went through, or main ends: another name of the
\* same file may be freed meanwhile, on this thread or another, and the name
\* may be loaded again afterwards.
CallsRunMappedCode == \A c \in InUse : ~c.freed => references[c.file] > 0

\* An unqualified call goes to the DLL that a script last asked to focus:
\* loads without focus, external calls, failed ones included, and frees of
\* other DLLs, on whichever thread, leave the focus alone.
FocusIsAsAsked == focused = asked

\* An ordinal never reaches another export: "#n" with n beyond a uint16 is not
\* found, rather than cut to 16 bits.
SymbolsAreExported == \A c \in InUse : c.name \in Exports[c.file]

\* A remembered call of a DLL-qualified declaration goes to the file in which
\* the declaring call ran, whatever was loaded, focused or freed since.
RememberedExternalKeepsDll ==
  \A c \in InUse :
    c.remembered /\ ffi[c.name].origin = "external" /\ declaredIn[c.name] # NoFile =>
      c.file = declaredIn[c.name]
=============================================================================
