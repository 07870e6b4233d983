----------------------------- MODULE Invocations -----------------------------
(***************************************************************************)
(* Threads running script code: the main thread executes modules           *)
(* (Interpreter::execute_module); script functions call each other         *)
(* (eval_call, Interpreter::invoke); scripts call native code              *)
(* (ffi_call_scalar, platform_call_dynamic); native code, on any thread,   *)
(* calls back through trampolines (dispatch_script_callback); exceptions   *)
(* unwind these frames; and in the end the Runtime is destroyed.           *)
(*                                                                         *)
(* Each thread has a stack of frames.  A "module", "script" or "callback"  *)
(* frame is an Executor with the ThreadInvocationScope around it; a        *)
(* "native" frame is foreign code.  What statements compute is left out:   *)
(* whenever the thread is in script code, any statement may be next.       *)
(***************************************************************************)
EXTENDS FunctionTable, SequencesExt

CONSTANTS Threads,   \* OS threads
          Main,      \* the thread of main()
          MaxDepth,  \* bound: thread -> frames on its stack
          NoLookup,  \* the thread is not between a slot and its version
          Running,   \* the process has not exited
          Crashed    \* the process ended with an unhandled exception

ASSUME MainIsThread == Main \in Threads
ASSUME MaxDepthsAreNat == MaxDepth \in [Threads -> Nat]

VARIABLES stack,    \* thread -> frames, outermost first
          lookup,   \* thread -> a slot found whose version is not read yet
          flight,   \* thread -> the C++ exception being propagated
          depth,    \* thread -> g_thread_state.invocation_depth
          active,   \* g_active_runtime # nullptr
          alive,    \* the Runtime object exists
          exit      \* exit code of the process

threadVars == <<stack, lookup, flight, depth>>
processVars == <<active, alive, exit>>
vars == <<tableVars, threadVars, processVars>>

Plain(kind) ==
  [kind |-> kind, slot |-> NoSlot, version |-> NoVersion, args |-> 0, catches |-> FALSE]

Init ==
  /\ TableInit
  /\ stack = [t \in Threads |-> <<>>]
  /\ lookup = [t \in Threads |-> NoLookup]
  /\ flight = [t \in Threads |-> "none"]
  /\ depth = [t \in Threads |-> 0]
  /\ active = TRUE /\ alive = TRUE    \* Runtime::Runtime
  /\ exit = Running

-----------------------------------------------------------------------------
Top(t) == Last(stack[t])
RunsScript(f) == f.kind # "native"

\* The thread is in script code, at the start of a statement or expression.
InScript(t) ==
  /\ exit = Running /\ alive
  /\ stack[t] # <<>> /\ RunsScript(Top(t))
  /\ flight[t] = "none" /\ lookup[t] = NoLookup
  /\ t = Main => installing = Idle

\* The thread is in native code.
InNative(t) ==
  /\ exit = Running
  /\ stack[t] # <<>> /\ Top(t).kind = "native"
  /\ lookup[t] = NoLookup

Push(t, f) == stack' = [stack EXCEPT ![t] = Append(@, f)]
Pop(t) == stack' = [stack EXCEPT ![t] = Front(@)]
Raise(t, kind) == flight' = [flight EXCEPT ![t] = kind]

\* The constructor and destructor of ThreadInvocationScope.
Attach(t) == depth' = [depth EXCEPT ![t] = @ + 1]
Detach(t) == depth' = [depth EXCEPT ![t] = @ - 1]

-----------------------------------------------------------------------------
(* Modules on the main thread.                                               *)

\* Interpreter::execute_module, up to its loop.
StartModule ==
  /\ exit = Running /\ active
  /\ stack[Main] = <<>>
  /\ Push(Main, Plain("module")) /\ Attach(Main)
  /\ UNCHANGED <<tableVars, lookup, flight, processVars>>

\* A top-level function definition (execute_top_level, install_function).
DefineFunction(n, k) ==
  /\ InScript(Main) /\ Top(Main).kind = "module"
  /\ \/ ReserveSlot(n, k) /\ UNCHANGED flight
     \/ TableFull(n) /\ Raise(Main, "error") /\ UNCHANGED tableVars
  /\ UNCHANGED <<stack, lookup, depth, processVars>>

FinishDefinition ==
  /\ exit = Running
  /\ PublishVersion
  /\ UNCHANGED <<threadVars, processVars>>

\* The last statement of a module is done, or of a function body (return).
Return(t) ==
  /\ InScript(t) /\ ~Top(t).catches
  /\ Pop(t) /\ Detach(t)
  /\ UNCHANGED <<tableVars, lookup, flight, processVars>>

-----------------------------------------------------------------------------
(* Script code.                                                              *)

\* Evaluating @n: the script can now hand the trampoline to native code.
TakeAddress(t, n) ==
  /\ InScript(t)
  /\ FunctionAddress(n)
  /\ UNCHANGED <<threadVars, processVars>>

\* eval_call of a script function, line 551.  The checker accepted the call
\* against some definition of n that it had seen, not always the latest one.
FindSlot(t, n) ==
  /\ InScript(t)
  /\ installing = Idle /\ HasSlot(n)
  /\ Len(stack[t]) < MaxDepth[t]
  /\ \E i \in 1 .. Len(functionVersions) :
       /\ functionVersions[i].name = n
       /\ lookup' = [lookup EXCEPT ![t] = [via |-> "script", slot |-> functionNames[n],
                                           args |-> functionVersions[i].arity]]
  /\ UNCHANGED <<tableVars, stack, flight, depth, processVars>>

\* The frame that runs version v of slot s.
Invocation(kind, s, args) ==
  [kind |-> kind, slot |-> s, version |-> current[s], args |-> args, catches |-> FALSE]

\* Mutant of CallVersion: invoke does not compare the argument count.
CallVersionUncounted(t) ==
  /\ exit = Running /\ alive
  /\ lookup[t] # NoLookup /\ lookup[t].via = "script"
  /\ current[lookup[t].slot] # NoVersion
  /\ Push(t, [kind |-> "script", slot |-> lookup[t].slot,
              version |-> current[lookup[t].slot], args |-> lookup[t].args,
              catches |-> FALSE])
  /\ Attach(t)
  /\ lookup' = [lookup EXCEPT ![t] = NoLookup]
  /\ UNCHANGED <<tableVars, flight, processVars>>

\* eval_call, lines 553-555, and Interpreter::invoke: no version, or a version
\* with another parameter count, is a runtime error of the caller.
CallVersion(t) ==
  /\ exit = Running /\ alive
  /\ lookup[t] # NoLookup /\ lookup[t].via = "script"
  /\ LET s == lookup[t].slot
         fits == /\ current[s] # NoVersion
                 /\ functionVersions[current[s]].arity = lookup[t].args
     IN \/ /\ fits
           /\ Push(t, Invocation("script", s, lookup[t].args)) /\ Attach(t)
           /\ UNCHANGED flight
        \/ /\ ~fits
           /\ Raise(t, "error")
           /\ UNCHANGED <<stack, depth>>
  /\ lookup' = [lookup EXCEPT ![t] = NoLookup]
  /\ UNCHANGED <<tableVars, processVars>>

\* try { ... }: entered, and left at its end.  Nested tries of one frame are
\* one.
EnterTry(t) ==
  /\ InScript(t) /\ ~Top(t).catches
  /\ stack' = [stack EXCEPT ![t][Len(stack[t])].catches = TRUE]
  /\ UNCHANGED <<tableVars, lookup, flight, depth, processVars>>

LeaveTry(t) ==
  /\ InScript(t) /\ Top(t).catches
  /\ stack' = [stack EXCEPT ![t][Len(stack[t])].catches = FALSE]
  /\ UNCHANGED <<tableVars, lookup, flight, depth, processVars>>

\* A throw statement or a faulting typed memory access (NativeFault); a failed
\* assertion or other runtime error (DiagnosticError, std::runtime_error); or a
\* raw SEH exception: c_string and print_value read a str without a guard.
RaiseException(t) ==
  /\ InScript(t)
  /\ \E kind \in {"fault", "error", "raw"} : Raise(t, kind)
  /\ UNCHANGED <<tableVars, stack, lookup, depth, processVars>>

\* The quit intrinsic ends the process without destroying the Runtime.
Quit(t) ==
  /\ InScript(t)
  /\ exit' = 0
  /\ UNCHANGED <<tableVars, threadVars, active, alive>>

-----------------------------------------------------------------------------
(* Native code.                                                              *)

\* ffi_call_scalar: the script calls native code.
CallNative(t) ==
  /\ InScript(t)
  /\ Len(stack[t]) < MaxDepth[t]
  /\ Push(t, Plain("native"))
  /\ UNCHANGED <<tableVars, lookup, flight, depth, processVars>>

NativeReturn(t) ==
  /\ InNative(t) /\ (t = Main \/ Len(stack[t]) > 1)
  /\ Pop(t)
  /\ UNCHANGED <<tableVars, lookup, flight, depth, processVars>>

\* Native code called by a script faults: platform_call_dynamic captures the
\* SEH exception and ffi_call_scalar throws it as a NativeFault.
NativeFaults(t) ==
  /\ InNative(t) /\ (t = Main \/ Len(stack[t]) > 1)
  /\ Pop(t) /\ Raise(t, "fault")
  /\ UNCHANGED <<tableVars, lookup, depth, processVars>>

\* Native code that a script called starts a thread (StartAsyncCallback).
StartThread(t) ==
  /\ t # Main /\ stack[t] = <<>>
  /\ \E u \in Threads \ {t} : InNative(u)
  /\ Push(t, Plain("native"))
  /\ UNCHANGED <<tableVars, lookup, flight, depth, processVars>>

EndThread(t) ==
  /\ InNative(t) /\ t # Main /\ Len(stack[t]) = 1
  /\ stack' = [stack EXCEPT ![t] = <<>>]
  /\ UNCHANGED <<tableVars, lookup, flight, depth, processVars>>

\* Native code calls a trampoline: dispatch_script_callback, lines 279-280.
EnterCallback(t, s) ==
  /\ InNative(t) /\ s \in trampolines
  /\ Len(stack[t]) < MaxDepth[t]
  /\ \/ /\ active
        /\ lookup' = [lookup EXCEPT ![t] = [via |-> "callback", slot |-> s, args |-> 0]]
        /\ UNCHANGED exit
     \/ /\ ~active
        /\ exit' = 71
        /\ UNCHANGED lookup
  /\ UNCHANGED <<tableVars, stack, flight, depth, active, alive>>

\* dispatch_script_callback, lines 281-293: the version decides how many
\* argument registers are read, so its own parameter count always fits.
DispatchCallback(t) ==
  /\ exit = Running /\ alive
  /\ lookup[t] # NoLookup /\ lookup[t].via = "callback"
  /\ LET s == lookup[t].slot
     IN \/ /\ current[s] # NoVersion
           /\ Push(t, Invocation("callback", s, functionVersions[current[s]].arity))
           /\ Attach(t)
           /\ UNCHANGED exit
        \/ /\ current[s] = NoVersion
           /\ exit' = 70
           /\ UNCHANGED <<stack, depth>>
  /\ lookup' = [lookup EXCEPT ![t] = NoLookup]
  /\ UNCHANGED <<tableVars, flight, active, alive>>

-----------------------------------------------------------------------------
(* Exceptions.  Unwinding a frame runs the destructor of its                 *)
(* ThreadInvocationScope.                                                    *)
CanUnwind(t) == exit = Running /\ alive /\ flight[t] # "none"

\* StmtKind::Try catches native faults, and nothing else.
Catch(t) ==
  /\ CanUnwind(t) /\ flight[t] = "fault" /\ Top(t).catches
  /\ stack' = [stack EXCEPT ![t][Len(stack[t])].catches = FALSE]
  /\ Raise(t, "none")
  /\ UNCHANGED <<tableVars, lookup, depth, processVars>>

Uncaught(t) == CanUnwind(t) /\ ~(flight[t] = "fault" /\ Top(t).catches)

\* Mutants of UnwindScript: without the destructor of ThreadInvocationScope;
\* or for native faults only.
UnwindScriptAttached(t) ==
  /\ Uncaught(t) /\ Top(t).kind = "script"
  /\ Pop(t)
  /\ UNCHANGED <<tableVars, lookup, flight, depth, processVars>>

UnwindScriptFaults(t) ==
  /\ Uncaught(t) /\ Top(t).kind = "script" /\ flight[t] = "fault"
  /\ Pop(t) /\ Detach(t)
  /\ UNCHANGED <<tableVars, lookup, flight, processVars>>

\* Out of a called function, into its caller.
UnwindScript(t) ==
  /\ Uncaught(t) /\ Top(t).kind = "script"
  /\ Pop(t) /\ Detach(t)
  /\ UNCHANGED <<tableVars, lookup, flight, processVars>>

\* Out of a module: repl() and main() report every exception but a raw one,
\* which nothing handles.
UnwindModule(t) ==
  /\ Uncaught(t) /\ Top(t).kind = "module"
  /\ Pop(t) /\ Detach(t) /\ Raise(t, "none")
  /\ exit' = IF flight[t] = "raw" THEN Crashed ELSE exit
  /\ UNCHANGED <<tableVars, lookup, active, alive>>

\* Mutant of UnwindCallback: dispatch_script_callback lets exceptions through.
UnwindCallbackOn(t) ==
  /\ Uncaught(t) /\ Top(t).kind = "callback"
  /\ Pop(t) /\ Detach(t)
  /\ UNCHANGED <<tableVars, lookup, flight, processVars>>

\* Out of a callback: dispatch_script_callback catches everything (raw SEH
\* exceptions too, the build uses /EHa) and ends the process, since the native
\* code below cannot be unwound.
UnwindCallback(t) ==
  /\ Uncaught(t) /\ Top(t).kind = "callback"
  /\ Pop(t) /\ Detach(t) /\ Raise(t, "none")
  /\ exit' = 70
  /\ UNCHANGED <<tableVars, lookup, active, alive>>

Unwind(t) == Catch(t) \/ UnwindScript(t) \/ UnwindModule(t) \/ UnwindCallback(t)

-----------------------------------------------------------------------------
(* The end of repl() or main(): ~Runtime clears g_active_runtime, then the   *)
(* members are destroyed, then main returns.  Nothing waits for the other    *)
(* threads, which may be in script code or in native code.                   *)
ClearActive ==
  /\ exit = Running /\ active
  /\ stack[Main] = <<>>
  /\ active' = FALSE
  /\ UNCHANGED <<tableVars, threadVars, alive, exit>>

DestroyRuntime ==
  /\ exit = Running /\ ~active /\ alive
  /\ alive' = FALSE
  /\ UNCHANGED <<tableVars, threadVars, active, exit>>

ReturnFromMain ==
  /\ exit = Running /\ ~alive
  /\ exit' = 0
  /\ UNCHANGED <<tableVars, threadVars, active, alive>>

\* Nothing happens in a process that has exited.
Exited == exit # Running /\ UNCHANGED vars

-----------------------------------------------------------------------------
MainNext ==
  \/ StartModule
  \/ \E n \in Names, k \in Arities : DefineFunction(n, k)
  \/ FinishDefinition
  \/ ClearActive \/ DestroyRuntime \/ ReturnFromMain

ScriptNext(t) ==
  \/ Return(t) \/ CallVersion(t) \/ EnterTry(t) \/ LeaveTry(t)
  \/ RaiseException(t) \/ Quit(t) \/ CallNative(t)
  \/ \E n \in Names : TakeAddress(t, n) \/ FindSlot(t, n)

NativeNext(t) ==
  \/ NativeReturn(t) \/ NativeFaults(t) \/ StartThread(t) \/ EndThread(t)
  \/ \E s \in Slots : EnterCallback(t, s)
  \/ DispatchCallback(t)

Next ==
  \/ MainNext
  \/ \E t \in Threads : ScriptNext(t) \/ NativeNext(t) \/ Unwind(t)
  \/ Exited

\* What the code itself carries through once begun: the rest of
\* install_function, the C++ runtime's unwinding, and main's return after the
\* Runtime is gone.  Scripts and native code may run for ever.
Fairness ==
  /\ WF_vars(FinishDefinition)
  /\ \A t \in Threads : WF_vars(Unwind(t))
  /\ WF_vars(ReturnFromMain)

Spec == Init /\ [][Next]_vars /\ Fairness

-----------------------------------------------------------------------------
Frames(t) == ToSet(stack[t])
Invoked(t) == {f \in Frames(t) : f.kind \in {"script", "callback"}}

\* Every running function is a definition, still in place, of the name whose
\* slot was called, however often the name was redefined since, and has as many
\* arguments as it has parameters, even when the caller was checked against a
\* definition since replaced.
FramesRunTheirFunction ==
  \A t \in Threads : \A f \in Invoked(t) :
    /\ f.version \in 1 .. Len(functionVersions)
    /\ functionVersions[f.version].name = slotName[f.slot]
    /\ functionVersions[f.version].arity = f.args

\* invocation_depth is the number of script frames on the thread, through
\* nested callbacks, returns and exceptions: it reaches 0, and detaches the
\* thread, exactly when the last of them is gone.
DepthCountsFrames ==
  \A t \in Threads :
    exit = Running =>
      depth[t] = Cardinality({i \in DOMAIN stack[t] : RunsScript(stack[t][i])})

\* A C++ exception is never propagated into native code: when one is in
\* flight, the innermost frame is script code.
FaultsStopAtNativeCode ==
  \A t \in Threads : flight[t] # "none" => stack[t] # <<>> /\ RunsScript(Top(t))

\* An exception is caught, reported by the main thread, or the process ends:
\* by the exception itself, or because main returned meanwhile.
UnwindingEnds ==
  \A t \in Threads : flight[t] # "none" ~> (flight[t] = "none" \/ exit # Running)
=============================================================================
