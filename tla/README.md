# Verification of dllfrankenstein

TLA+ models of dllfrankenstein (`src/code/`), a scripting language whose
programs load DLLs, call their functions through a scalar Win64 ABI bridge,
and hand out their own functions as native callbacks.  The models cover the
parts that keep state between statements, modules and threads; the claims are
checked by TLC on small instances and, where stated, proved by TLAPS for all
values of the constants.

Contents: [the system](#the-system) · [modules](#modules) · [runs](#runs) ·
[proofs](#proofs) · [findings](#findings) · [not modelled](#not-modelled) ·
[plan](#plan)

## The system

A process has one `Runtime`.  `main` (main.cpp) reads a script, or a REPL
buffer, and hands it to `check_and_execute`: the module is parsed, checked
against a snapshot of the runtime (`semantic_snapshot`, `check_module`), the
FFI descriptors it declares are installed, and its statements are executed one
by one (`Interpreter::execute_module`).  Statements define functions and types,
assign variables, and call scripts, native code or intrinsics.

| component | source | state | operations |
|---|---|---|---|
| function table | runtime.cpp 193-234 | names, 256 slots, versions, trampolines | define/redefine, find slot, read version, take address |
| threads and invocations | interpreter.cpp 27-44, 540-570, 717-797; runtime.cpp 264-303 | call stacks, `invocation_depth`, exceptions in flight, the active runtime | call, return, native call, callback, throw, catch, exit, teardown |
| DLL registry | runtime.cpp 45-122 | loaded libraries by canonical path, the focused one, loader references | load, focus, free, resolve, destroy |
| FFI descriptors | checker.cpp 179-309, interpreter.cpp 558-570 | remembered origin and signature of a name | declare, reuse, resolve, call |
| session | main.cpp 82-131, runtime.cpp 136-156 | what earlier modules left behind | snapshot, check, install, execute until failure |
| bindings and scopes | runtime.cpp 158-191, interpreter.cpp 207-296 | type, address and bytes of variables | define or redefine, load, store |
| types | types.cpp | interned types, aggregate layouts | make array / aggregate, find |
| scalar values | interpreter.cpp 240-258, 375-499 | none | normalise, cast, operators |
| checker | checker.cpp | static types of variables, in scopes | check a statement, an expression, a call |
| frame arena | runtime.cpp 19-43 | chunks and their fill | allocate |
| ABI bridge | ffi.cpp, abi_call.asm, callback_router.asm, trampolines.asm | registers and stack slots | call out, call back |
| native exceptions | platform_win32.cpp 22-49, interpreter.cpp 120-205 | copied record chain and context | capture, convert to a value and back |
| lexer, parser | lexer.cpp, parser.cpp | position in the text and in the tokens, parse functions in progress | scan a lexeme, match a token, descend, go back, report wrong or incomplete input |
| command line, REPL | main.cpp 75-131, 319-389 | options, buffer of lines | select one mode, read a line, parse the buffer |

How they interact.  The interpreter calls the function table, the DLL registry
and the bindings, each under a mutex of the runtime or the registry; pointers
that these return are used after the mutex is released.  Native code calls
back into the runtime through a trampoline at any time, on any thread,
including threads the scripts never see.  C++ exceptions carry native faults
out of `platform_call_dynamic` into script code, and
`dispatch_script_callback` stops them at the border to native code.

Where it is hard, and what correct means:

* a function can be redefined while other threads look it up, run it, or hold
  its address: every lookup must find a version of the right function, and
  versions and addresses must stay where they are;
* exceptions and callbacks nest to any depth: attachment counts must balance,
  and no exception may cross native frames;
* the runtime can end while native threads still hold trampolines;
* DLLs have many spellings and are reference-counted by the loader: focus,
  entries and references must agree, and code that is resolved or running must
  stay mapped as long as the name it was reached by is not freed;
* a call descriptor outlives the load, focus and free operations that were in
  effect when it was made;
* a module can fail after half its statements, and what it did stays;
* a caught exception is a value of which one part lies in the memory of the
  frame and the rest in the runtime's: it must stay whole in every copy;
* statements have no terminators and the REPL parses whatever has been typed
  so far: where a statement ends must not depend on its layout.

`PROJECT.json` lists each of these hazards at its line, with the properties
that cover it.

## Modules

**NamedFunctions** is the abstract specification: a map from names to their
latest definition and to an address that is chosen once.

**FunctionTable** models the table itself.  Each variable is a member of
`Runtime` with its name in TLA+ style (`function_names_` is `functionNames`,
and so on).  `install_function` holds `metadata_mutex_` from beginning to end,
but `function_version` reads a slot's `current` without the mutex, so the
function is two actions: `ReserveSlot` (the name gets its slot) and
`PublishVersion` (the version is pushed and stored in `current`).
`installing` is the mutex together with the local variables in between.
`FunctionAddress` records which trampolines native code may hold.  Signatures
are reduced to parameter counts, which is what a caller can get wrong.

**Invocations** extends FunctionTable with the threads that use it.  A thread
is a stack of frames: `module` and `script` for script code called from
`main` or from a script, `native` for foreign code, `callback` for script
code called by foreign code.  Script statements are not interpreted: in script
code, any statement may be next.  Finding a slot and reading its version are
two steps (`FindSlot`, `CallVersion`; `EnterCallback`, `DispatchCallback`).
An exception is a flag (`flight`) with three values: `fault` is a
`NativeFault`, which `try` catches; `error` is a `DiagnosticError` or
`std::runtime_error`, which it does not; `raw` is an SEH exception raised by
the interpreter's own unguarded reads (`c_string`, `print_value`), which only
`catch (...)` in `dispatch_script_callback` can stop, because the build uses
`/EHa`.  `ClearActive`, `DestroyRuntime` and `ReturnFromMain` are the end of
`main`, which waits for no other thread; a thread that the end of the Runtime
overtakes is not followed any further.

**DllRegistry** models the registry and, external to the code, the loader's
reference counts.  Every operation runs under `mutex_` as a whole and is one
action.  Paths are spellings; `Canonical` lower-cases them and `FileOf` is
what the loader finds, so that one file can have several keys.

**FfiCalls** extends DllRegistry with descriptors and calls.  A module
contains one call, checked (`CheckTypedCall`, `CheckUntypedCall`) before it is
executed (`ExecuteStatement`), with other threads in between; callbacks
resolve and call on every thread.  The resolved address (`target`) is called in
a later step (`EnterNative`).  Nothing keeps a script from freeing a DLL under
the very name through which a call is in progress, as nothing in the code does;
such calls are marked `freed` (`DropCalls`).  Other history variables are
`declaredIn`, the file in which the declaring call of a name ran, and `asked`,
the DLL that a script last asked to focus.

**Session** composes what happens between modules.  A module is chosen
statement by statement while it is checked (`CheckStatement` moves `static`,
which is `Checker::state_`), rejected (`RejectModule`) or accepted
(`AcceptModule`, which installs descriptors), and then executed frame by frame
until it ends or fails; `globals`, `functions` and `ffi` survive.  Of a value
the model keeps its type and whether its bits represent that type (`fits`);
the checker annotates expressions (`Annotated`, `AnnotatedStatement`) with the
static type and the meaning of a call, as the code does, and execution uses
these annotations where the interpreter does.

**Statements** models one body, of a module or a function, with everything
that nests.  Which bodies run is decided by `Accepted`, the checker
(`check_function`, `check_statement`, `definitely_returns`) as recursive
functions over statement lists (`CheckBody`, `BodyDefinitelyReturns`); what
`check_statement` does with one statement is an operator that takes the
function for its parts.  `Bodies` are the lists there are, finite trees whose
`Size` decreases inwards.  They run statement by statement: `frames` are the
statement lists in execution, `scopes` is `scopes_`, and `flow` is the `Flow`
that `execute` returns or the C++ exception in flight.  Entering and leaving
lists pushes and pops both, as `run_scoped` and the catch clauses do.
Conditions have either outcome, and every expression may fault.
`OthersDefineGlobal` is the main thread making globals while a function runs
on another.

**Bindings** models one global variable under several threads.  An assignment
is five steps (`Assign`, `Retype`, `CompareType`, `ClearStorage`,
`CopyValue`), a read two (`Read`, `Load`), since the binding is used outside
`metadata_mutex_`.  Assignments of different types overlap with each other and
with reads in every way, as nothing in the code prevents it.  `retypes`,
`raced` and `stale` are history variables: `raced` becomes true when an
assignment that changes the type overlaps with any other use (`Races`), and
false when one begins alone (`Alone`), which will store a type, clear the
storage and copy a value with nobody in between unless there is a new race;
`stale` marks a thread whose last read was raced for.

**TypeRegistry** models the types of a runtime.  `make_array` and
`make_runtime_array` are two steps with the mutex released in between
(`LookUpArray`, `AddArray`); `make_aggregate` is one step for each field
(`BeginAggregate`, `AddField`, `FinishAggregate`), in arithmetic that is cut
to `MaxWord`.  `exact` is history: no rounding of the layout was cut.

**ScalarCalls** models one call across the border to native code, in either
direction: casts, registers, stack slots and results, step by step as in
`eval_call`, `ffi_call_scalar`, `call_dynamic_function`,
`script_callback_router` and `dispatch_script_callback`.  A 64-bit word is two
halves of `Half` values each; memory is the stack in words, so that alignment
to 16 bytes is evenness.  What native code does (`Argument`, `NativeReturns`,
`Passes`) is external and follows the Win64 calling convention: upper halves
of narrow values and unused registers hold anything.

**FrameArena** models the arenas: one of the Runtime, and one of each
Executor.  `Allocate` puts a block behind the last one of the last chunk, or
in a new chunk, whose place the heap (external) chooses.  `blocks` is history.

**NativeExceptions** puts exception values into these arenas.  `capture_exception`
is `Capture`; `make_native_exception_value` is `Catch`, one `AllocateRecord`
per further record, and `EnterCatch`, each with the allocations the code makes
(`WriteRecords` links the records, `CaughtValue` is what the variable gets);
`snapshot_from_native_exception_value` is `Snapshot`.  `memory` is the heap in
words.  A script catches, assigns, edits and throws values, calls, returns and
allocates; `origin` is history: what was raised, for each variable.

**Lexer**, **Parser** and **FrontEnd** are the way of a source to its
statements.  A lexeme is a step (`Scan`).  The parser is a stack of what is
left to parse: each parse function is an operator of its name that gives the
items it comes down to with the tokens ahead, `Match` is `consume` or `match`
where the item is a `Want`, and `advance`, which takes the next token without a
look at it, where it is a `Seen`: that item names the tokens which the code has
seen at this place before, and a token that is none of them, as the end of the
input, would be an overrun.  `Rewind` is `pos_ = save`.  The value of an integer
token is kept as far as the parser asks for it: 0, 1, or another
(`IntegerValue`, in both bases).  FrontEnd composes them with `main` and `repl`:
the options, the mode they select, the buffer of lines, and what an exception
from the parser does in each mode.  What checking and executing do is left to
Session and Statements; here they have any outcome.

**InvocationsProofs** (with FunctionTable), **FfiCallsProofs** (with
DllRegistry), **NativeExceptionsProofs** (with FrameArena), **SessionProofs**,
**RepresentationProofs** (ScalarCalls and TypeRegistry), **ParserProofs** (with
Lexer), **StatementsProofs** and **BindingsProofs** hold the theorems; the
`MC*` modules give constants their values for TLC.

Operators named like `ReserveSlotAnew` beside a definition are mutants:
plausible bugs, used to show that a property can fail.  No specification uses
them.

## Runs

| run | module, cfg | question |
|---|---|---|
| invocations | MCInvocations | Do attachment depths balance, do exceptions stop at native code, does every frame run a version of its function with the arguments it takes, and does the table implement NamedFunctions? |
| invocation_liveness | MCInvocations, Liveness | Does unwinding end, on main and on threads that main does not wait for, and does a full table refuse a name without changing another? |
| ffi_calls | MCFfiCalls | Do entries and references agree, is the focus where a script last put it, do calls reach the export and the DLL they name, and does code in use stay mapped until its own name is freed? |
| session_plain | MCSession, Plain | Do names that accepted code uses resolve, does a finished module leave the names and types that the checker predicted, do values fit their types? |
| session_retype | MCSession, Retype | Do they, when a function's variable is retyped after its definition, or its callee redefined? Violated. |
| statements | MCStatements | Whatever conditions, faults and jumps do: do scopes balance, variables resolve, jumps reach their loops, and functions return? |
| bindings | MCBindings | Once an assignment has begun alone after a race for the type: are concurrent reads whole, and does the storage end up with one value? |
| type_registry | MCTypeRegistry | Are array types unique, and are layouts those of C where nothing is cut? |
| scalar_calls | ScalarCalls, MCScalarCalls | Do arguments, parameters and results arrive, aligned, and do saved registers survive? |
| scalar_results | ScalarCalls, MCScalarResults | Is the result of a native call a number of its type, before it is assigned? Violated. |
| native_exceptions | MCNativeExceptions | Are blocks in use apart, and can the record chain of every exception value be followed, whatever happens to frames and copies? |
| front_end | MCFrontEnd | Are reads and spans inside the text, do operators group, do statements end where they were meant to, from a file and typed line by line, and is every input answered? |

Bounds.  *invocations*: two names for two slots, two versions each way of
defining (so one function is redefined while another is called), two arities
(so a caller can be stale), and three frames on each of two threads: native,
callback and a called script, or module, script and native.
*invocation_liveness*: two names for one slot, so that the table is full and a
name is refused; progress does not depend on parameter counts.  The mutant of
the table in this run gives the slots a second time when they run out.
*ffi_calls*: four paths, of which two differ in case and a third names another
file, and one is missing; two threads with two nested calls each;
`OrdinalLimit` is 2 instead of 0xFFFF, and the symbols are 1, which is
exported, and 4, which is beyond the limit and is 1 when cut.
*session_plain*: two variables, three functions and modules of three
statements: declare or define, change, use, over any number of modules.
Types change along the text only, but for a branch that retypes a global
variable and whose other branch fails, so that there is no way around it; where
the variable is not global, it is the branch's own.
*statements*: 112 nested statements with bodies of one statement, inside each
kind of compound statement, alone or between an assignment and a use, as a
module, as functions with and without a result, and with a parameter; two
variables, one of them also the name in catch clauses.  Scopes, jumps and
returns depend on what encloses a statement and precedes it, so that two
levels with a neighbour on each side have every case.
*bindings*: three types, one of one byte and two of two, so that a shorter
value follows a longer one and two types differ in nothing but their identity.
*type_registry*: sizes of four bits, four types of which two are u8 and u32,
three fields, extents 3 and 15, pack 1, 2 and 8: enough for an array of the
largest size, a rounding that is cut, and nested aggregates.
*scalar_calls*: every signature of up to six parameters of a narrow integer, a
float and a wide integer, so that one and two stack slots (odd and even
frames) occur; halves of three bits tell six positions apart.
*native_exceptions*: `MaxRecords` 3 instead of 16, with chains of three
records (all copied) and of four (truncated), and of one from a bad pointer;
chunks of 8 words (64K in the code), so that two values fill one and a value
of 8 words needs a larger one; a heap that reuses the lowest free place, so
that freed memory is overwritten; two frames with one scope each, two faults,
one edit of each value, and one block in an arena before a try block.
*front_end*: 899 sources: 27 statements that between them take every branch
of the parser, on one line and broken at each place a line may end, in pairs
on one line or two, three operators of four levels in every order, and every
statement with any one character missing; integers in both bases, with leading
zeros, and a hexadecimal 0 as the extent of an array.

Fairness.  `Invocations!Spec` assumes weak fairness of `FinishDefinition`
(the rest of `install_function` waits for nothing), of `Unwind` for each
thread (the C++ runtime unwinds without waiting), and of `ReturnFromMain` (once
the Runtime is destroyed, main returns; exceptions in flight on other threads
end with the process).  `FrontEnd!Spec` assumes
weak fairness of `Next`: lexer and parser are one thread that never waits.  Nothing is assumed of
scripts and native code, which may run or block for ever.  The other
specifications are checked for safety only.

Deadlock is checked in all runs but *front_end*, whose process exits.  Stuttering steps stand for a system that
has stopped: `Exited` a process that has exited, `Ended` a registry that is
destroyed, `Full` a registry at the bound on types, and in *statements* and
*scalar_calls* a body or a call that is over.

## Proofs

*FunctionTable* (in InvocationsProofs), for every set of names, every number of
slots and every bound on definitions.  `TableInv` is the inductive invariant.
The properties are not inductive: that a trampoline's slot has a version follows from every
named slot having one except the slot being installed (`NamedSlotsAreReady`),
and that a slot publishes its own function from what is being installed being
a definition of the slot's name (`InstallingOwnSlot`), which needs that a slot
has one name (`SlotsBelongToOneName`) and that unused slots are empty
(`FreeSlotsAreEmpty`).  One lemma per action shows that it keeps `TableInv`.
From it follow `TableTypeCorrect`, `TrampolinesAlwaysHaveVersions`,
`SlotsAlwaysServeTheirName`, the action properties `AddressesAreStable` and
`VersionsAreNeverFreed`, and the refinement `TableImplementsNamedFunctions`:
`ReserveSlot` and `FunctionAddress` map to stuttering, `PublishVersion` to
`Define`.

*DllRegistry* (in FfiCallsProofs), for every finite set of paths and every
assignment of files to them.  `RegistryInv` is inductive as it stands; the work is in the
cardinalities, that adding or removing an entry changes the number of entries
of one file by one.  From it follow `FocusedIsAlwaysLoaded` and
`EntriesAlwaysHoldReferences`.

*TypeRegistry* (in RepresentationProofs), for every word of at least four bits, any primitive
types, extents and pack values, and any number of threads.  `RegistryInv` adds
three facts to the properties: a thread that makes an array has found its
element type and passed the comparison with the largest size
(`MakingIsPossible`), so that the product fits in a word (`ProductFits`); every
array type is what the map leads to (`ArraysAreFound`), so that adding one
never makes a second; and what `make_aggregate` has laid out so far is sound
and ends at its size (`BuildingIsSound`).  `AlignUpFacts` is what `align_up`
does, cut or not.  From it follow `TypeInfosAlwaysOK`,
`ArraysAreAlwaysInterned`, `LayoutsAreAlwaysSound` and
`SizesAreAlwaysAligned`.  `LayoutsAreSound` needs its premise `exact`: see
the note on aggregates beyond 32 bits below.

*FrameArena* (in NativeExceptionsProofs), for every number of arenas, every
chunk size and every heap that gives memory apart from the chunks it gave before.  `ArenaInv` adds
to `BlocksAreApart` that chunks are apart and that no chunk is filled beyond
its capacity; a new block lies beyond `used`, behind all blocks of its chunk
(`BlockOK` keeps those below it).  The work is in the rounding: that the gap in
front of an aligned block is smaller than its alignment, so that the capacity
of a new chunk, size plus alignment, is always enough
(`FreshChunksHaveRoom`: `bad_alloc` is not reached).  From it follows
`BlocksAreAlwaysApart`.

*Lexer* (in ParserProofs), for every source, given at once or line by line.
`LexerInv` says that the lexer's own line and column are those of its place in
the text (`AtPlace`: the line is one more than the newlines before it, the
column is counted from the last of them), that the text between the last token
and its place is blank or comment, and that each span fits its token
(`SpanFits`) whatever is read after it, or added to the text: a line given
later moves nothing (`TextStays`).  `RunFacts` is what a run of characters of
a set is, so that a token of one such run has no newline in it
(`AdvanceKeepsPlace`), while a comment or a blank may (`NewlineStartsLine`).
From it follows `SpansAlwaysPointIntoTheText`.

*ParserProofs*, for every source, given at once or line by line.  `ParserInv`
says that the tokens end with the end of the input once the parser runs, that
`pos` is one of them, and of every item on the stack: none wants the end of the
input, so `consume` and `match` never step over it; a level of operators is
positive, while the end of the input has precedence 0, so the loop of operators
stops there; a place to go back to is a token already read; and a token that
will be taken by `advance` is there already, and is the one that was seen
(`SeenAhead`).  The last one is the strengthening that matters: such an item may
lie below others, as in `name . f (`, where three tokens are taken that were
looked at together, so `AheadAt` says for each place on the stack how far ahead
of `pos` its token is and why what lies above takes exactly the tokens before
it.  One lemma for each group of parse functions shows that the items they give
are such items.  From it follows `ReadsAlwaysStayInside`.

How operators group relates each expression built to all the tokens between its
ends, so the invariant, `GroupInv`, has to say what the rest of the stack may
still read.  There are depths, one for each item, such that (`Grouping`):
* the item on top starts at the depth where the parser is (`Nesting`: the
  brackets of all three kinds opened so far and not closed), a loop of operators
  at that of the token it began with, and above a loop each item leaves the
  depth at which the one below it starts (`Effect`: what an item opens, less
  what it closes);
* above a loop lie only items that are deeper, or part of one operand, or
  loops that take operators of its level (`Over`);
* a loop has read, outside of brackets, only operators of at least its level
  (`LoopAt`); one that waits for its right operand has a left operand with no
  operator that binds less tightly, and reads on at the level above its own
  (`BinaryAt`); a loop on top has read only what binds as tightly as the token
  ahead (`TopAt`);
* where the parser may go back to is not within an expression already built
  (`RewinderAt`).

There is one lemma for each way a step changes the stack: a token is matched
(`MatchGroups`), a function is replaced by what it parses (`ExpandStepGroups`),
a loop returns (`ReturnGroups`), a node is built (`BuildBinaryGroups`), the
parser goes back (`AssignmentGroups`, `ExternalCallGroups`), or an exception is
thrown (`FailureGroups`).  From it follows `OperatorsAlwaysGroup`.

*InvocationsProofs*, for any number of threads, stacks of any height, and any
functions.  `InvocationInv` is `TableInv` with what holds of each thread alone:
the order of its frames (`Shape`: a callback lies on native code and nothing
else does), that an exception is in flight only in script code, that a slot
found and not yet called was found from there, and the counted depth.  A
frame's slot is one in use, so no later definition gives its name to another.
Every action changes one thread (`ThreadStep`) and what others run is neither
moved nor renamed by the table's steps (`FramesStay`); so the proof has no case
for two threads.  From it follow `DepthsAlwaysCountFrames`,
`FaultsAlwaysStopAtNativeCode` and `FramesAlwaysRunTheirFunction`; and since
every step is one of the table or leaves it alone (`InvocationsUseTheTable`, a
lemma), `InvocationsImplementNamedFunctions` follows from
`TableImplementsNamedFunctions`.

*FfiCallsProofs*, for any number of threads, files, paths and symbols.
`CallInv` is `RegistryInv` with: an entry is the file its key finds; a
remembered call, and the name's declaring call, are in the file of the
remembered path; only the main thread executes remembered calls, and none is in
use while a module is checked; the key of a call in use leads to its file until
that very key is dropped; and the focus is the key last asked for, which is in
the map.  From it follow `CallsAlwaysRunMappedCode`, `FocusIsAlwaysAsAsked`,
`SymbolsAreAlwaysExported`, `RememberedExternalsKeepTheirDll`, and
`CallsUseTheRegistry`, with which the theorems of DllRegistry hold of calls.

*BindingsProofs*, for any number of threads, types and sizes, and assignments
that overlap in any way.  `BindingInv` says what holds of the variable while
nothing is raced for (`Undisturbed`): a thread that changes or mends the type is
alone (`RetypesAreAlone`), so the value a thread holds has the variable's type
(`TypesAgree`), the storage has bytes of that type but for a thread that is
converting it (`StorageIsSound`), and misses a value only while some thread is
about to copy one (`StorageIsFilled`).  A race ends all of this; the work is in
showing that an assignment that begins alone restores it from any state that
races can leave.  From it follow `ReadsAreAlwaysWhole` and
`StorageAlwaysFitsType`.

*SessionProofs*, for any names, statements, modules of any length and nesting
of calls.  `SessionInv` ties the three views of a name together: a chain of
checker states leads from what the runtime knew to `static`, one for each
statement of the module (`Checks`, `ModuleIsChecked`); what the checker
believes is so, or is pending, that is, will be so when the functions it has
seen are installed (`Believes`, `Pending`); an installed version was checked
against names that exist and descriptors that are still there (`VersionOK`);
and a frame of the stack runs such a statement (`FrameOK`, `Calling`).  Names
and descriptors only come (`Remembers`), which is why a body that was checked
long ago can run now.  From it follow `NamesAlwaysResolve`,
`NativeCallsAreAlwaysDeclared` and `PredictedNamesAlwaysHold`: when a module is
over, no function is pending, and the chain's last state has exactly the names
that there are.  It says nothing of the types of variables: what the checker
predicts of them is false in general (*session_retype*), and that it is true
where types change along the text only is model-checked (`PredictedTypesHold`
and `ValuesFitTheirTypes` in *session_plain*).

*ScalarCalls* (in RepresentationProofs), for words of any width and any number of arguments.
`ScalarInv` says where each argument is at each step of a call out (`Outwards`)
and in (`Inwards`): `Passed` relates the list of values to the four registers
and the stack above the shadow space.  `NormalizeFacts` and `CutFacts` are what
the casts do to a word, whatever the upper half of it holds.  From it follow
`ArgumentsAlwaysArrive`, `StackIsAlwaysAligned`,
`SavedRegistersAreAlwaysKept`, `ParametersAlwaysArrive` and
`ResultsAlwaysArrive`.

*StatementsProofs*, for any set of finite bodies, nested and combined in any
way.  `StatementsInv` says of every statement list in execution that the
checker accepts what is left of it, from a state in which each variable it knows
has the type that a lookup at run time finds (`RunFollows`, `FrameChecked`);
that `break` and `continue` are inside a loop and `return` in a function
(`FlowOK`); and, for a function with a result, that some list in execution
definitely returns with nothing leading around it, no loop and no catch clause
that does not return, unless the flow is past it already (`IsCovered`).  The lemmas are about the checker: accepting a
statement leaves the scopes below it with the types they had (`StatementKeeps`,
`AllKeep`), a list that begins with an if is accepted with its else branch in its
place (`AcceptedList`), and a lookup depends on the scopes that have the name
(`TypeInFacts`).  They are proved by taking a smallest list for which they
fail, over `Size`; in the same way `RecursionExists` shows that a function defined by
recursion on a size exists, which gives `CheckBodyIs` and `ReturnsIs`.  From
the invariant follow `ScopesAlwaysFollowFrames`, `UsesAreAlwaysAsChecked`,
`JumpsAlwaysReachTheirLoop` and `FunctionsAlwaysReturn`.

*NativeExceptionsProofs*, for any number of variables, records and scopes.
`ExceptionsInv` is `ArenaInv` with: each variable in scope has a block of its
own in the arena of its executor; behind a value that no script has edited is a
chain of distinct records, each a block of the Runtime's arena that no step
writes again (`VariablesOK`, `ValueOK`); and what a value in the making has
allocated is so far in no chain (`WorkOK`).  `HoldsApart` turns the blocks'
being apart into the fact that writing one leaves what another holds.  From it
follows `ChainsAlwaysStayWhole`; and since every step is one of the arenas or
leaves them alone, `ExceptionsUseTheArena`, with which `BlocksAreAlwaysApart`
holds of exceptions (`ExceptionBlocksAreApart`).

Assumptions: those named in the modules: that limits are natural numbers,
that the null values (`NoName`, `Idle`, `NoFile`, `NoKey`) are none of the
values they stand beside, that primitive types are aligned, that statements are
statements (`StatementsAreStatements`) and sources texts (`ScriptsAreTexts`),
that bodies are lists and finite trees, closed under what is left of them in
execution (`BodiesAreLists`, `BodiesAreFinite`, `ProgramsArePrograms`), as the
parser makes them, and the sizes and places of `ExceptionAssumption`.  No
theorem assumes anything of what scripts do.

`SavedRegistersAreAlwaysKept` is about the words in memory where an outward call
has saved its caller's registers; that `rsp` itself is restored is not stated,
and neither are the registers that the callback router saves.

Only model-checked: `StatementsEndAsWritten` of FrontEnd (it relates a whole run
to a recursive definition of what was written), `PredictedTypesHold` and
`ValuesFitTheirTypes` of Session, and liveness, which TLAPS does not handle.

## Findings

* **Values get the wrong type** (run *session_retype*).  A function that was
  checked while a variable was an integer labels the bits of a float as an
  integer once the variable is a float.  The else branch of an `if`, which is
  checked with the types that the then branch leaves (checker.cpp 584-590),
  goes wrong in the same way, and so does a function that computes with the
  result of another one, once that is redefined with another return type.
* **Narrow native results are not numbers of their type** (run
  *scalar_results*): `i32 f() < 0` is false for -1, until the result is
  assigned.

Noted, without a run:

* The runtime can be destroyed under a callback: `dispatch_script_callback`
  checks for an active runtime (runtime.cpp 280) and then uses it, and
  `~Runtime`, which waits for no thread (runtime.cpp 129-132), can run in
  between.  Scripts that join their threads before they end (`JoinAsyncCallback`
  in test.c) are safe; the code does not ask for it.
* `free` unmaps a DLL while another thread, or an outer frame of the same one,
  is in a call that was resolved through that very name (runtime.cpp 83-91).
* A typed call of a script function (`f64 f()` where f returns i64) is checked
  with the caller's return type (checker.cpp 283, 310) and yields a value of
  the function's own (interpreter.cpp 555).
* Assignments of different types by several threads can be refused:
  `define_variable` stores the type and `store_binding` compares it again
  (interpreter.cpp 233, 285), so that "binding store type mismatch" is thrown
  if another thread stores another type in between, and in a callback the
  process ends.  If it is not thrown, what the race leaves may be the type of
  one assignment and the bytes of another (285-290), until the next assignment.
  The properties of *bindings* begin with that assignment.
* Whether a bare call means a script function is decided when it is checked
  (checker.cpp 261-275); README.md 77 can be read as if it were decided when
  it runs.
* A remembered call of the focused DLL follows the focus: `apply_ffi_origin`
  makes it a plain named call (checker.cpp 183-185), which is looked up in
  whatever DLL is focused when it runs.  README.md 76 says that later untyped
  calls reuse the declaration's DLL; only DLL-qualified ones do
  (`RememberedExternalKeepsDll`).
* Aggregates beyond 32 bits are accepted: `align_up` can wrap before the
  comparison with the limit and after it (types.cpp 178, 185), so that
  `struct S { u8 a[4294967295], i32 b }` has 4 bytes.
* `fail` reports every complaint at the last token as incomplete input
  (parser.cpp 31), so that the REPL waits after `1 + 2` or `$x`, which no
  further line can turn into a statement, and `--eval` says "unexpected end
  of input".
* "Statements do not require terminators" (README.md 36) has exceptions, which
  `Follows` in MCFrontEnd lists: a typed call and a block are read as the
  definition of a function, an array type and a block as an initialised array,
  a name and a parenthesis as a call; `return` takes the next statement for its
  value.
* The ordinal import `#1481` of README.md is no token of the lexer.
* A script that shortens the chain of a NATIVE_EXCEPTION by its links, and
  leaves `record_count`, throws an exception whose missing records are zero.
  Records beyond the first are shared by all copies of a value, and are freed
  only with the runtime (interpreter.cpp 134).
* README.md 82-93 shows aggregate fields without commas, the parser asks for
  commas (parser.cpp 149).

## Not modelled

See "status" and "note" of the components in `PROJECT.json`.  Left out:

* floating-point arithmetic, which TLC does not have, and the operators and
  casts that are only arithmetic;
* the contents of tokens and of the syntax tree beyond what decides how a
  source is parsed, and CPU contexts in exceptions: data that no control
  depends on;
* code that runs inside the loader (DllMain) while the registry's mutex is
  held: operations of DllRegistry are single actions;
* places in aggregates (`field_offset`, `place`): offsets are proved sound in
  TypeRegistry, the walk over them keeps no state;
* printing of values and diagnostics, the help text, and the example scripts.

## Plan

Done: NamedFunctions, FunctionTable, Invocations, DllRegistry, FfiCalls,
Session, Statements, Bindings, TypeRegistry, ScalarCalls, FrameArena,
NativeExceptions, Lexer, Parser, FrontEnd.  Left, in this order:

1. Calls between functions in Statements, and retyping in branches and loops.
2. Calls through variables in FfiCalls; the signatures of descriptors.
3. Places in aggregates, on top of TypeRegistry and FrameArena.

Runs are kept few, so that the whole project is checked in minutes: new
modules share runs with those they compose with.
