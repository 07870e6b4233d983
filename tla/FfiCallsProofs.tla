--------------------------- MODULE FfiCallsProofs ---------------------------
(***************************************************************************)
(* The registry and the loader agree, for any finite set of spellings, any *)
(* canonicalisation of them and any files behind them; and native calls    *)
(* run mapped code, of the file they were declared for, on any number of   *)
(* threads, until the name through which they were found is freed.         *)
(***************************************************************************)
EXTENDS FfiCalls, FunctionTheorems, FiniteSetTheorems, SequenceTheorems, TLAPS

USE FileOfKeys, NoFileIsNoFile, NoKeyIsNoKey

\* There are finitely many canonical paths, so the entries of a file can be
\* counted.
LEMMA KeysAreFinite == IsFiniteSet(Keys)
<1> DEFINE canon == [p \in Paths |-> Canonical[p]]
<1>1. canon \in Surjection(Paths, Keys)
  BY Fun_IsSurj DEF Keys
<1> QED
  BY <1>1, FS_Surjection, PathsAreFinite

\* The entries of one file are a finite set.
LEMMA EntriesAreFinite ==
  ASSUME NEW f
  PROVE  IsFiniteSet(EntriesOf(f)) /\ Cardinality(EntriesOf(f)) \in Nat
<1>1. EntriesOf(f) \in SUBSET Keys
  BY DEF EntriesOf
<1>2. IsFiniteSet(EntriesOf(f))
  BY <1>1, KeysAreFinite, FS_Subset
<1> QED
  BY <1>2, FS_CardinalityType

\* A new registry is empty and holds no reference.
LEMMA InitEstablishesRegistryInv == RegistryInit => RegistryInv
<1> SUFFICES ASSUME RegistryInit PROVE RegistryInv
  OBVIOUS
<1>1. RegistryTypeOK /\ FocusedIsLoaded
  BY DEF RegistryInit, RegistryTypeOK, FocusedIsLoaded
<1>2. ASSUME NEW f \in Files PROVE references[f] = Cardinality(EntriesOf(f))
  <2>1. EntriesOf(f) = {}
    BY DEF EntriesOf, RegistryInit
  <2> QED
    BY <2>1, FS_EmptySet DEF RegistryInit
<1> QED
  BY <1>1, <1>2 DEF RegistryInv, EntriesHoldReferences

\* load_locked keeps the count, makes the key loaded and unloads no other.
LEMMA LoadLockedFacts ==
  ASSUME RegistryInv, NEW k \in Keys, LoadLocked(k)
  PROVE  /\ libraries' \in [Keys -> Files \cup {NoFile}]
         /\ references' \in [Files -> Nat]
         /\ libraries'[k] # NoFile
         /\ \A j \in Keys : libraries[j] # NoFile => libraries'[j] = libraries[j]
         /\ EntriesHoldReferences'
<1> USE DEF RegistryInv, RegistryTypeOK
<1>1. CASE Loaded(k) /\ UNCHANGED <<libraries, references>>
  BY <1>1 DEF Loaded, EntriesHoldReferences, EntriesOf
<1>2. CASE ~Loaded(k) /\ ~UNCHANGED <<libraries, references>>
  <2> DEFINE g == FileOf[k]
  <2>1. /\ g \in Files
        /\ libraries[k] = NoFile
        /\ libraries' = [libraries EXCEPT ![k] = g]
        /\ references' = [references EXCEPT ![g] = @ + 1]
    BY <1>2 DEF LoadLocked, Loaded
  <2>2. ASSUME NEW f \in Files PROVE references'[f] = Cardinality(EntriesOf(f)')
    <3>1. CASE f = g
      <4>1. EntriesOf(f)' = EntriesOf(f) \cup {k} /\ k \notin EntriesOf(f)
        BY <2>1, <3>1 DEF EntriesOf
      <4>2. Cardinality(EntriesOf(f) \cup {k}) = Cardinality(EntriesOf(f)) + 1
        BY <4>1, EntriesAreFinite, FS_AddElement
      <4> QED
        BY <4>1, <4>2, <3>1, <2>1 DEF EntriesHoldReferences
    <3>2. CASE f # g
      <4>1. EntriesOf(f)' = EntriesOf(f)
        BY <2>1, <3>2 DEF EntriesOf
      <4> QED
        BY <4>1, <3>2, <2>1 DEF EntriesHoldReferences
    <3> QED
      BY <3>1, <3>2
  <2> QED
    BY <2>1, <2>2 DEF EntriesHoldReferences
<1> QED
  BY <1>1, <1>2 DEF LoadLocked

\* load, focus and external resolution keep the invariant: the key that takes
\* the focus has just been loaded.
LEMMA LoadKeepsRegistryInv ==
  ASSUME RegistryInv, NEW p \in Paths, NEW setFocus \in BOOLEAN, Load(p, setFocus)
  PROVE  RegistryInv'
<1>1. Canonical[p] \in Keys
  BY DEF Keys
<1>2. LoadLocked(Canonical[p])
  BY DEF Load
<1> QED
  BY <1>1, <1>2, LoadLockedFacts
     DEF Load, RegistryInv, RegistryTypeOK, FocusedIsLoaded, Loaded

\* resolve_external loads, and leaves the focus alone.
LEMMA ResolveExternalKeepsRegistryInv ==
  ASSUME RegistryInv, NEW p \in Paths, ResolveExternal(p)
  PROVE  RegistryInv'
<1>1. Canonical[p] \in Keys
  BY DEF Keys
<1>2. LoadLocked(Canonical[p])
  BY DEF ResolveExternal
<1> QED
  BY <1>1, <1>2, LoadLockedFacts
     DEF ResolveExternal, RegistryInv, RegistryTypeOK, FocusedIsLoaded, Loaded

\* free drops one entry, its one reference, and the focus if it was on it.
LEMMA FreeKeepsRegistryInv ==
  ASSUME RegistryInv, NEW p \in Paths, Free(p)
  PROVE  RegistryInv'
<1> DEFINE k == Canonical[p]
           g == libraries[k]
<1> USE DEF RegistryInv, RegistryTypeOK
<1>1. /\ k \in Keys
      /\ g \in Files
      /\ libraries' = [libraries EXCEPT ![k] = NoFile]
      /\ references' = [references EXCEPT ![g] = @ - 1]
      /\ focused' = IF focused = k THEN NoKey ELSE focused
      /\ open' = open
  BY DEF Free, Loaded, Keys
<1>2. ASSUME NEW f \in Files
      PROVE  references'[f] = Cardinality(EntriesOf(f)') /\ references'[f] \in Nat
  <2>1. CASE f = g
    <3>1. EntriesOf(f)' = EntriesOf(f) \ {k} /\ k \in EntriesOf(f)
      BY <1>1, <2>1 DEF EntriesOf
    <3>2. /\ Cardinality(EntriesOf(f) \ {k}) = Cardinality(EntriesOf(f)) - 1
          /\ IsFiniteSet(EntriesOf(f) \ {k})
      BY <3>1, EntriesAreFinite, FS_RemoveElement
    <3>3. Cardinality(EntriesOf(f) \ {k}) \in Nat
      BY <3>2, FS_CardinalityType
    <3> QED
      BY <3>1, <3>2, <3>3, <2>1, <1>1 DEF EntriesHoldReferences
  <2>2. CASE f # g
    <3>1. EntriesOf(f)' = EntriesOf(f)
      BY <1>1, <2>2 DEF EntriesOf
    <3> QED
      BY <3>1, <2>2, <1>1 DEF EntriesHoldReferences
  <2> QED
    BY <2>1, <2>2
<1>3. references' \in [Files -> Nat] /\ EntriesHoldReferences'
  <2>1. references' \in [Files -> Int]
    BY <1>1
  <2> QED
    BY <2>1, <1>2 DEF EntriesHoldReferences
<1>4. FocusedIsLoaded'
  BY <1>1 DEF FocusedIsLoaded, Loaded
<1> QED
  BY <1>1, <1>3, <1>4

\* The destructor gives back every reference: none is left, and none is
\* given back twice.
LEMMA ShutdownKeepsRegistryInv == RegistryInv /\ Shutdown => RegistryInv'
<1> SUFFICES ASSUME RegistryInv, Shutdown PROVE RegistryInv'
  OBVIOUS
<1>1. ASSUME NEW f \in Files
      PROVE  references'[f] = 0 /\ Cardinality(EntriesOf(f)') = 0
  <2>1. references'[f] = references[f] - Cardinality(EntriesOf(f))
    BY DEF Shutdown
  <2>2. references'[f] = 0
    BY <2>1, EntriesAreFinite DEF RegistryInv, EntriesHoldReferences
  <2>3. EntriesOf(f)' = {}
    BY DEF EntriesOf, Shutdown
  <2> QED
    BY <2>2, <2>3, FS_EmptySet
<1>2. references' \in [Files -> Nat] /\ EntriesHoldReferences'
  BY <1>1 DEF Shutdown, EntriesHoldReferences
<1> QED
  BY <1>2 DEF RegistryInv, RegistryTypeOK, FocusedIsLoaded, Shutdown

\* Every step of the registry keeps the invariant.
LEMMA RegistryStepKeepsInv == RegistryInv /\ [RegistryNext]_registryVars => RegistryInv'
<1> SUFFICES ASSUME RegistryInv, [RegistryNext]_registryVars PROVE RegistryInv'
  OBVIOUS
<1>1. ASSUME NEW p \in Paths, NEW b \in BOOLEAN, Load(p, b) PROVE RegistryInv'
  BY <1>1, LoadKeepsRegistryInv
<1>2. ASSUME NEW p \in Paths, Focus(p) PROVE RegistryInv'
  BY <1>2, LoadKeepsRegistryInv DEF Focus
<1>3. ASSUME NEW p \in Paths, Free(p) PROVE RegistryInv'
  BY <1>3, FreeKeepsRegistryInv
<1>4. ASSUME NEW p \in Paths, ResolveExternal(p) PROVE RegistryInv'
  BY <1>4, ResolveExternalKeepsRegistryInv
<1>5. CASE Shutdown
  BY <1>5, ShutdownKeepsRegistryInv
<1>6. CASE UNCHANGED registryVars
  BY <1>6 DEF registryVars, RegistryInv, RegistryTypeOK, FocusedIsLoaded, Loaded,
     EntriesHoldReferences, EntriesOf
<1> QED
  BY <1>1, <1>2, <1>3, <1>4, <1>5, <1>6 DEF RegistryNext

\* The registry's invariant holds in every reachable state.
THEOREM RegistryInvariance == RegistrySpec => []RegistryInv
  BY InitEstablishesRegistryInv, RegistryStepKeepsInv, PTL DEF RegistrySpec

\* The focused DLL is always loaded, whatever spellings are used: the error
\* "focused DLL is no longer loaded" of resolve_focused is never thrown.
THEOREM FocusedIsAlwaysLoaded == RegistrySpec => []FocusedIsLoaded
<1>1. RegistryInv => FocusedIsLoaded
  BY DEF RegistryInv
<1> QED
  BY <1>1, RegistryInvariance, PTL

\* The entries and the loader's reference counts always agree, through aliased
\* spellings, failed symbol lookups and the destructor.
THEOREM EntriesAlwaysHoldReferences == RegistrySpec => []EntriesHoldReferences
<1>1. RegistryInv => EntriesHoldReferences
  BY DEF RegistryInv
<1> QED
  BY <1>1, RegistryInvariance, PTL

-----------------------------------------------------------------------------
(* The inductive invariant.                                                  *)

Calls == [name : Symbols, origin : Origins, remembered : BOOLEAN, key : Keys,
          file : Files, freed : BOOLEAN]
Statements == [name : Symbols, origin : Origins, declares : BOOLEAN]

CallVarsOK ==
  /\ ffi \in [Symbols -> Origins \cup {Unknown}]
  /\ declaredIn \in [Symbols -> Files \cup {NoFile}]
  /\ target \in [Threads -> Calls \cup {NoCall}]
  /\ inside \in [Threads -> Seq(Calls)]

\* An entry of libraries_ is the file that its key finds.
EntriesAreFound == \A k \in Keys : Loaded(k) => libraries[k] = FileOf[k]

\* A checked call is as it is remembered, and the first call of its module.
StatementOK ==
  statement # NoCall =>
    /\ statement \in Statements
    /\ ffi[statement.name] = statement.origin
    /\ target[Main] = NoCall /\ inside[Main] = <<>>

\* What a name remembered with a path has reached is that path's file.
Remembers(n, f) == ffi[n].origin = "external" => f = FileOf[Canonical[ffi[n].path]]
DeclaredOK == \A n \in Symbols : declaredIn[n] # NoFile => Remembers(n, declaredIn[n])

\* Only modules, on the main thread, execute calls that were remembered.
Forgets(t) ==
  /\ target[t] # NoCall => ~target[t].remembered
  /\ \A i \in DOMAIN inside[t] : ~inside[t][i].remembered
OthersForget == \A t \in Threads \ {Main} : Forgets(t)

\* A call in progress: the entry through which it was found is there until it is
\* dropped.
CallOK(c) ==
  /\ ~c.freed => libraries[c.key] = c.file
  /\ c.name \in Exports[c.file]
  /\ c.remembered => Remembers(c.name, c.file)

CallInv ==
  /\ RegistryInv /\ CallVarsOK /\ EntriesAreFound
  /\ StatementOK /\ DeclaredOK /\ OthersForget /\ FocusIsAsAsked
  /\ \A c \in InUse : CallOK(c)

-----------------------------------------------------------------------------
(* Calls in progress.                                                        *)

Uses(t, c) ==
  \/ target[t] # NoCall /\ c = target[t]
  \/ \E i \in DOMAIN inside[t] : c = inside[t][i]

\* A call is in use on some thread.
LEMMA InUseMeans == \A c : c \in InUse <=> \E t \in Threads : Uses(t, c)
BY DEF InUse, Uses

\* What is in use are calls.
LEMMA CallsInUse == ASSUME CallVarsOK PROVE InUse \subseteq Calls
<1>1. ASSUME NEW t \in Threads, NEW c, Uses(t, c) PROVE c \in Calls
  BY <1>1 DEF Uses, CallVarsOK
<1> QED
  BY <1>1, InUseMeans

\* A symbol that is found is exported, ordinals included: they are not cut.
LEMMA FoundIsExported ==
  ASSUME NEW f, NEW symbol, FindSymbol(f, symbol)
  PROVE  symbol \in Exports[f]
<1>1. ASSUME symbol \in Nat, symbol <= OrdinalLimit
      PROVE  symbol % (OrdinalLimit + 1) = symbol
  BY <1>1, OrdinalLimitIsNat
<1> QED
  BY <1>1 DEF FindSymbol

\* An origin is a path, or the focused DLL.
LEMMA OriginsHavePaths ==
  \A o \in Origins : /\ o.origin = "external" => o.path \in Paths
                     /\ o.origin # "external" => o = Focused
<1>1. \A p \in Paths : External(p).path = p /\ External(p).origin = "external"
  BY DEF External
<1>2. Focused.origin # "external"
  BY DEF Focused
<1> QED
  BY <1>1, <1>2 DEF Origins

-----------------------------------------------------------------------------
(* The registry's part of the steps.                                         *)

\* What is loaded stays what its key finds, and stays loaded unless freed.
LEMMA LoadingKeepsEntries ==
  ASSUME RegistryInv, EntriesAreFound, NEW k \in Keys, LoadLocked(k)
  PROVE  /\ EntriesAreFound'
         /\ libraries'[k] = FileOf[k] /\ FileOf[k] \in Files
         /\ \A j \in Keys : Loaded(j) => libraries'[j] = libraries[j]
<1>1. \A j \in Keys : Loaded(j) => libraries'[j] = libraries[j]
  BY LoadLockedFacts DEF Loaded
<1>2. libraries'[k] = FileOf[k] /\ FileOf[k] \in Files
  BY NoFileIsNoFile, FileOfKeys DEF LoadLocked, Loaded, EntriesAreFound, RegistryInv, RegistryTypeOK
<1>3. EntriesAreFound'
  BY NoFileIsNoFile, FileOfKeys
  DEF LoadLocked, Loaded, EntriesAreFound, RegistryInv, RegistryTypeOK
<1> QED
  BY <1>1, <1>2, <1>3

\* Resolving a call is a step of the registry.
LEMMA ResolveStepFacts ==
  ASSUME RegistryInv, EntriesAreFound, NEW o \in Origins, ResolveStep(o)
  PROVE  /\ [RegistryNext]_registryVars
         /\ RegistryInv' /\ EntriesAreFound'
         /\ ResolvedKey(o) \in Keys /\ libraries'[ResolvedKey(o)] \in Files
         /\ o.origin = "external" => libraries'[ResolvedKey(o)] = FileOf[Canonical[o.path]]
         /\ \A j \in Keys : Loaded(j) => libraries'[j] = libraries[j]
         /\ focused' = focused
<1>1. CASE o.origin = "external"
  <2>1. o.path \in Paths /\ ResolveExternal(o.path) /\ ResolvedKey(o) = Canonical[o.path]
    BY <1>1, OriginsHavePaths DEF ResolveStep, ResolvedKey
  <2>2. [RegistryNext]_registryVars
    BY <2>1 DEF RegistryNext
  <2>3. /\ Canonical[o.path] \in Keys /\ LoadLocked(Canonical[o.path])
        /\ focused' = focused
    BY <2>1 DEF ResolveExternal, Keys
  <2> QED
    BY <2>1, <2>2, <2>3, LoadingKeepsEntries, RegistryStepKeepsInv
<1>2. CASE o.origin # "external"
  <2>1. UNCHANGED registryVars /\ CanResolveFocused /\ ResolvedKey(o) = focused
    BY <1>2 DEF ResolveStep, ResolvedKey
  <2>2. RegistryInv' /\ EntriesAreFound'
    BY <2>1, RegistryStepKeepsInv DEF EntriesAreFound, registryVars, Loaded
  <2> QED
    BY <1>2, <2>1, <2>2, NoKeyIsNoKey
    DEF CanResolveFocused, registryVars, RegistryInv, RegistryTypeOK, Loaded
<1> QED
  BY <1>1, <1>2

\* A call that is not resolved may have loaded a DLL, and changes nothing else.
LEMMA FailToResolveFacts ==
  ASSUME RegistryInv, EntriesAreFound, NEW o \in Origins, NEW n, FailToResolve(o, n)
  PROVE  /\ [RegistryNext]_registryVars
         /\ RegistryInv' /\ EntriesAreFound'
         /\ \A j \in Keys : Loaded(j) => libraries'[j] = libraries[j]
         /\ target' = target /\ focused' = focused
<1>1. CASE ResolveStep(o)
  BY <1>1, ResolveStepFacts DEF FailToResolve
<1>2. CASE UNCHANGED registryVars
  <2>1. RegistryInv' /\ EntriesAreFound'
    BY <1>2, RegistryStepKeepsInv DEF EntriesAreFound, registryVars, Loaded
  <2> QED
    BY <1>2, <2>1 DEF registryVars, FailToResolve
<1> QED
  BY <1>1, <1>2 DEF FailToResolve

\* Calls in progress are left as they are by what only loads.
LEMMA LoadingKeepsCalls ==
  ASSUME CallVarsOK, \A c \in InUse : CallOK(c),
         \A j \in Keys : Loaded(j) => libraries'[j] = libraries[j],
         ffi' = ffi
  PROVE  \A c \in InUse : CallOK(c)'
<1> SUFFICES ASSUME NEW c \in InUse PROVE CallOK(c)'
  OBVIOUS
<1>1. c \in Calls /\ CallOK(c)
  BY CallsInUse
<1>2. ~c.freed => libraries'[c.key] = c.file
  BY <1>1, NoFileIsNoFile DEF CallOK, Calls, Loaded
<1> QED
  BY <1>1, <1>2 DEF CallOK, Remembers

\* A call that is resolved is in progress from then on.
LEMMA ResolveCallFacts ==
  ASSUME CallInv, NEW t \in Threads, NEW n \in Symbols, NEW o \in Origins,
         NEW remembered \in BOOLEAN, remembered => ffi[n] = o,
         ResolveCall(t, n, o, remembered), UNCHANGED <<ffi, inside, asked>>
  PROVE  /\ [RegistryNext]_registryVars
         /\ RegistryInv' /\ EntriesAreFound'
         /\ target' \in [Threads -> Calls \cup {NoCall}]
         /\ \A u \in Threads \ {t} : target'[u] = target[u]
         /\ target'[t].remembered = remembered
         /\ FocusIsAsAsked' /\ \A c \in InUse' : CallOK(c)'
<1>0. PICK call : call = Resolved(n, o, remembered)
  OBVIOUS
<1>1. /\ ResolveStep(o) /\ target' = [target EXCEPT ![t] = call]
      /\ FindSymbol(libraries'[ResolvedKey(o)], n)
  BY <1>0 DEF ResolveCall
<1>2. /\ [RegistryNext]_registryVars
      /\ RegistryInv' /\ EntriesAreFound'
      /\ ResolvedKey(o) \in Keys /\ libraries'[ResolvedKey(o)] \in Files
      /\ o.origin = "external" => libraries'[ResolvedKey(o)] = FileOf[Canonical[o.path]]
      /\ \A j \in Keys : Loaded(j) => libraries'[j] = libraries[j]
      /\ FocusIsAsAsked'
  BY <1>1, ResolveStepFacts DEF CallInv, FocusIsAsAsked
<1>3. /\ call \in Calls /\ call.remembered = remembered /\ call.name = n
      /\ call.key = ResolvedKey(o) /\ call.file = libraries'[ResolvedKey(o)]
  BY <1>0, <1>2 DEF Resolved, Calls
<1>4. CallOK(call)'
  <2>1. n \in Exports[libraries'[ResolvedKey(o)]]
    BY <1>1, FoundIsExported
  <2> QED
    BY <1>2, <1>3, <2>1 DEF CallOK, Remembers
<1>5. \A c \in InUse : CallOK(c)'
  BY <1>2, LoadingKeepsCalls DEF CallInv
<1>6. /\ target' \in [Threads -> Calls \cup {NoCall}]
      /\ \A u \in Threads \ {t} : target'[u] = target[u]
      /\ target'[t] = call
  BY <1>1, <1>3 DEF CallInv, CallVarsOK
<1>7. ASSUME NEW c \in InUse' PROVE c = call \/ c \in InUse
  <2>1. PICK u \in Threads : Uses(u, c)'
    BY <1>7 DEF InUse, Uses
  <2>2. c = call \/ Uses(u, c)
    BY <1>6, <2>1 DEF Uses
  <2> QED
    BY <2>1, <2>2, InUseMeans
<1>8. \A c \in InUse' : CallOK(c)'
  BY <1>4, <1>5, <1>7
<1> QED
  BY <1>2, <1>3, <1>6, <1>8

-----------------------------------------------------------------------------
(* The steps.                                                                *)

\* At first nothing is loaded, remembered or called.
LEMMA InitGivesCallInv == Init => CallInv
<1> SUFFICES ASSUME Init PROVE CallInv
  OBVIOUS
<1>1. RegistryInv
  BY InitEstablishesRegistryInv DEF Init
<1>2. CallVarsOK
  BY DEF Init, CallVarsOK
<1>3. EntriesAreFound /\ StatementOK /\ DeclaredOK /\ OthersForget /\ FocusIsAsAsked
  BY DEF Init, RegistryInit, EntriesAreFound, Loaded, StatementOK, DeclaredOK, OthersForget,
     Forgets, FocusIsAsAsked
<1>4. InUse = {}
  BY DEF Init, InUse
<1> QED
  BY <1>1, <1>2, <1>3, <1>4 DEF CallInv

\* A call that its module declares, or takes as remembered, is checked when no
\* remembered call is in progress.
LEMMA CheckKeepsInv ==
  ASSUME CallInv, NEW n \in Symbols, NEW o \in Origins, CheckTypedCall(n, o) \/ CheckUntypedCall(n)
  PROVE  CallInv' /\ UNCHANGED registryVars
<1>1. /\ UNCHANGED <<registryVars, target, inside, asked>>
      /\ target[Main] = NoCall /\ inside[Main] = <<>>
  BY DEF CheckTypedCall, CheckUntypedCall, InScript
<1>2. /\ RegistryInv /\ CallVarsOK /\ EntriesAreFound /\ StatementOK /\ DeclaredOK /\ OthersForget
      /\ FocusIsAsAsked /\ \A c \in InUse : CallOK(c)
  BY DEF CallInv
<1>3. RegistryInv' /\ EntriesAreFound' /\ FocusIsAsAsked'
  BY <1>1, <1>2, RegistryStepKeepsInv DEF EntriesAreFound, registryVars, Loaded, FocusIsAsAsked
<1>4. CallVarsOK'
  BY <1>1, <1>2 DEF CheckTypedCall, CheckUntypedCall, CallVarsOK
<1>5. StatementOK'
  <2>1. CASE CheckTypedCall(n, o)
    BY <1>1, <1>2, <2>1 DEF CheckTypedCall, StatementOK, Statements, CallVarsOK
  <2>2. CASE CheckUntypedCall(n)
    BY <1>1, <1>2, <2>2 DEF CheckUntypedCall, RememberedOrigin, StatementOK, Statements, CallVarsOK
  <2> QED
    BY <2>1, <2>2
<1>6. DeclaredOK'
  BY <1>2 DEF CheckTypedCall, CheckUntypedCall, DeclaredOK, Remembers, CallVarsOK
<1>7. OthersForget'
  BY <1>1, <1>2 DEF OthersForget, Forgets
<1>8. InUse' = InUse
  BY <1>1 DEF InUse
<1>9. ASSUME NEW c \in InUse PROVE ~c.remembered
  <2>1. PICK t \in Threads : Uses(t, c)
    BY InUseMeans
  <2> QED
    BY <1>1, <1>2, <2>1 DEF Uses, OthersForget, Forgets
<1>10. \A c \in InUse' : CallOK(c)'
  BY <1>1, <1>2, <1>8, <1>9 DEF CallOK, registryVars
<1> QED
  BY <1>1, <1>3, <1>4, <1>5, <1>6, <1>7, <1>10 DEF CallInv

\* The checked call is resolved, or fails; a declaring call notes its file.
LEMMA ExecuteStatementKeepsInv ==
  ASSUME CallInv, ExecuteStatement
  PROVE  CallInv' /\ [RegistryNext]_registryVars
<1> DEFINE n == statement.name
           o == statement.origin
<1>1. /\ statement # NoCall /\ statement' = NoCall /\ UNCHANGED <<ffi, inside, asked>>
      /\ n \in Symbols /\ o \in Origins /\ statement.declares \in BOOLEAN
      /\ ffi[n] = o
  BY DEF ExecuteStatement, CallInv, StatementOK, Statements
<1>2. StatementOK'
  BY <1>1 DEF StatementOK
<1>3. CASE ResolveCall(Main, n, o, ~statement.declares)
           /\ declaredIn' = IF statement.declares
                            THEN [declaredIn EXCEPT ![n] = libraries'[ResolvedKey(o)]]
                            ELSE declaredIn
  <2>1. /\ [RegistryNext]_registryVars
        /\ RegistryInv' /\ EntriesAreFound'
        /\ target' \in [Threads -> Calls \cup {NoCall}]
        /\ \A u \in Threads \ {Main} : target'[u] = target[u]
        /\ FocusIsAsAsked' /\ \A c \in InUse' : CallOK(c)'
    BY <1>1, <1>3, MainIsThread, ResolveCallFacts
  <2>2. /\ libraries'[ResolvedKey(o)] \in Files
        /\ o.origin = "external" => libraries'[ResolvedKey(o)] = FileOf[Canonical[o.path]]
    BY <1>1, <1>3, ResolveStepFacts DEF ResolveCall, CallInv
  <2>3. CallVarsOK'
    BY <1>1, <1>3, <2>1, <2>2 DEF CallInv, CallVarsOK
  <2>4. DeclaredOK'
    BY <1>1, <1>3, <2>2 DEF CallInv, CallVarsOK, DeclaredOK, Remembers
  <2>5. OthersForget'
    BY <1>1, <2>1 DEF CallInv, OthersForget, Forgets
  <2> QED
    BY <1>2, <2>1, <2>3, <2>4, <2>5 DEF CallInv
<1>4. CASE FailToResolve(o, n) /\ UNCHANGED declaredIn
  <2>1. /\ [RegistryNext]_registryVars
        /\ RegistryInv' /\ EntriesAreFound'
        /\ \A j \in Keys : Loaded(j) => libraries'[j] = libraries[j]
        /\ target' = target /\ FocusIsAsAsked'
    BY <1>1, <1>4, FailToResolveFacts DEF CallInv, FocusIsAsAsked
  <2>2. InUse' = InUse
    BY <1>1, <2>1 DEF InUse
  <2>3. \A c \in InUse' : CallOK(c)'
    BY <1>1, <2>1, <2>2, LoadingKeepsCalls DEF CallInv
  <2>4. CallVarsOK' /\ DeclaredOK' /\ OthersForget'
    BY <1>1, <1>4, <2>1 DEF CallInv, CallVarsOK, DeclaredOK, Remembers, OthersForget, Forgets
  <2> QED
    BY <1>2, <2>1, <2>3, <2>4 DEF CallInv
<1> QED
  BY <1>3, <1>4 DEF ExecuteStatement

\* A callback's call is resolved, or fails; it is never a remembered one.
LEMMA CallInCallbackKeepsInv ==
  ASSUME CallInv, NEW t \in Threads, NEW n \in Symbols, NEW o \in Origins, CallInCallback(t, n, o)
  PROVE  CallInv' /\ [RegistryNext]_registryVars
<1>1. /\ UNCHANGED <<ffi, statement, inside, declaredIn, asked>>
      /\ t = Main => statement = NoCall
  BY DEF CallInCallback, InScript
<1>2. DeclaredOK'
  BY <1>1 DEF CallInv, DeclaredOK, Remembers
<1>3. CASE ResolveCall(t, n, o, FALSE)
  <2>1. /\ [RegistryNext]_registryVars
        /\ RegistryInv' /\ EntriesAreFound'
        /\ target' \in [Threads -> Calls \cup {NoCall}]
        /\ \A u \in Threads \ {t} : target'[u] = target[u]
        /\ target'[t].remembered = FALSE
        /\ FocusIsAsAsked' /\ \A c \in InUse' : CallOK(c)'
    BY <1>1, <1>3, ResolveCallFacts
  <2>2. CallVarsOK' /\ StatementOK' /\ OthersForget'
    BY <1>1, <2>1, MainIsThread DEF CallInv, CallVarsOK, StatementOK, OthersForget, Forgets
  <2> QED
    BY <1>2, <2>1, <2>2 DEF CallInv
<1>4. CASE FailToResolve(o, n)
  <2>1. /\ [RegistryNext]_registryVars
        /\ RegistryInv' /\ EntriesAreFound'
        /\ \A j \in Keys : Loaded(j) => libraries'[j] = libraries[j]
        /\ target' = target /\ FocusIsAsAsked'
    BY <1>1, <1>4, FailToResolveFacts DEF CallInv, FocusIsAsAsked
  <2>2. InUse' = InUse
    BY <1>1, <2>1 DEF InUse
  <2>3. \A c \in InUse' : CallOK(c)'
    BY <1>1, <2>1, <2>2, LoadingKeepsCalls DEF CallInv
  <2>4. CallVarsOK' /\ StatementOK' /\ OthersForget'
    BY <1>1, <2>1 DEF CallInv, CallVarsOK, StatementOK, OthersForget, Forgets
  <2> QED
    BY <1>2, <2>1, <2>3, <2>4 DEF CallInv
<1> QED
  BY <1>3, <1>4 DEF CallInCallback

\* A call keeps being in progress from its target's resolution to its return.
LEMMA NativeCodeKeepsInv ==
  ASSUME CallInv, NEW t \in Threads, EnterNative(t) \/ LeaveNative(t)
  PROVE  CallInv' /\ UNCHANGED registryVars
<1>1. /\ UNCHANGED <<registryVars, ffi, statement, declaredIn, asked>>
      /\ target \in [Threads -> Calls \cup {NoCall}] /\ inside \in [Threads -> Seq(Calls)]
  BY DEF EnterNative, LeaveNative, CallInv, CallVarsOK
<1>2. RegistryInv' /\ EntriesAreFound' /\ DeclaredOK' /\ FocusIsAsAsked'
  BY <1>1, RegistryStepKeepsInv
  DEF CallInv, EntriesAreFound, registryVars, Loaded, DeclaredOK, Remembers, FocusIsAsAsked
<1>3. /\ target' \in [Threads -> Calls \cup {NoCall}] /\ inside' \in [Threads -> Seq(Calls)]
      /\ \A u \in Threads \ {t} : target'[u] = target[u] /\ inside'[u] = inside[u]
      /\ target'[t] = NoCall
      /\ \A i \in DOMAIN inside'[t] : Uses(t, inside'[t][i])
  <2>1. CASE EnterNative(t)
    <3>1. /\ target[t] \in Calls /\ inside[t] \in Seq(Calls)
          /\ target' = [target EXCEPT ![t] = NoCall]
          /\ inside' = [inside EXCEPT ![t] = Append(inside[t], target[t])]
      BY <1>1, <2>1 DEF EnterNative
    <3>2. Append(inside[t], target[t]) \in Seq(Calls)
      BY <3>1
    <3>3. \A i \in DOMAIN Append(inside[t], target[t]) :
            Uses(t, Append(inside[t], target[t])[i])
      BY <2>1, <3>1 DEF Uses, EnterNative
    <3> QED
      BY <1>1, <3>1, <3>2, <3>3
  <2>2. CASE LeaveNative(t)
    <3> DEFINE rest == SubSeq(inside[t], 1, Len(inside[t]) - 1)
    <3>1. /\ target[t] = NoCall /\ inside[t] \in Seq(Calls) /\ inside[t] # <<>>
          /\ target' = target
          /\ inside' = [inside EXCEPT ![t] = rest]
      BY <1>1, <2>2 DEF LeaveNative
    <3>2. rest \in Seq(Calls) /\ \A i \in DOMAIN rest : i \in DOMAIN inside[t] /\ rest[i] = inside[t][i]
      BY <3>1
    <3> HIDE DEF rest
    <3> QED
      BY <1>1, <3>1, <3>2 DEF Uses
  <2> QED
    BY <2>1, <2>2
<1>4. CallVarsOK'
  BY <1>1, <1>3 DEF CallInv, CallVarsOK
<1>5. StatementOK'
  <2>1. t = Main => statement = NoCall
    BY DEF EnterNative, LeaveNative, CallInv, StatementOK
  <2> QED
    BY <1>1, <1>3, <2>1, MainIsThread DEF CallInv, StatementOK
<1>6. OthersForget'
  <2>1. ASSUME NEW u \in Threads \ {Main}, NEW c, Uses(u, c) PROVE ~c.remembered
    BY <2>1 DEF CallInv, OthersForget, Forgets, Uses
  <2>2. ASSUME NEW u \in Threads \ {Main}, NEW i \in DOMAIN inside'[u]
        PROVE  Uses(u, inside'[u][i])
    BY <1>3, <2>2 DEF Uses
  <2>3. ASSUME NEW u \in Threads \ {Main}, target'[u] # NoCall
        PROVE  Uses(u, target'[u])
    BY <1>3, <2>3 DEF Uses
  <2> QED
    BY <2>1, <2>2, <2>3 DEF OthersForget, Forgets
<1>7. ASSUME NEW c \in InUse' PROVE c \in InUse
  <2>1. PICK u \in Threads : Uses(u, c)'
    BY <1>7 DEF InUse, Uses
  <2>2. Uses(u, c)
    BY <1>3, <2>1 DEF Uses
  <2> QED
    BY <2>2, InUseMeans
<1>8. \A c \in InUse' : CallOK(c)'
  BY <1>1, <1>7 DEF CallInv, CallOK, Remembers, registryVars
<1> QED
  BY <1>1, <1>2, <1>4, <1>5, <1>6, <1>8 DEF CallInv

\* Dropping the entries of some keys marks the calls found through them, and
\* changes nothing else about the calls in progress.
LEMMA DropKeepsCalls ==
  ASSUME CallInv, NEW keys \in SUBSET Keys, DropCalls(keys),
         UNCHANGED <<ffi, statement, declaredIn>>,
         \A j \in Keys \ keys : libraries'[j] = libraries[j]
  PROVE  /\ CallVarsOK' /\ StatementOK' /\ DeclaredOK' /\ OthersForget'
         /\ \A c \in InUse' : CallOK(c)'
<1>1. /\ CallVarsOK /\ StatementOK /\ DeclaredOK /\ OthersForget
      /\ \A c \in InUse : c \in Calls /\ CallOK(c)
  BY CallsInUse DEF CallInv
<1>2. ASSUME NEW c \in Calls
      PROVE  /\ Dropped(c, keys) \in Calls
             /\ Dropped(c, keys).remembered = c.remembered
             /\ CallOK(c) => CallOK(Dropped(c, keys))'
  <2>1. CASE c.key \in keys
    <3>1. Dropped(c, keys) = [c EXCEPT !.freed = TRUE]
      BY <2>1 DEF Dropped
    <3> QED
      BY <3>1 DEF Calls, CallOK, Remembers
  <2>2. CASE c.key \notin keys
    BY <2>2 DEF Dropped, Calls, CallOK, Remembers
  <2> QED
    BY <2>1, <2>2
<1>3. ASSUME NEW t \in Threads
      PROVE  /\ target[t] = NoCall => target'[t] = NoCall
             /\ target[t] # NoCall => target'[t] = Dropped(target[t], keys)
             /\ DOMAIN inside'[t] = DOMAIN inside[t]
             /\ \A i \in DOMAIN inside[t] : inside'[t][i] = Dropped(inside[t][i], keys)
  BY DEF DropCalls
<1>4. ASSUME NEW t \in Threads PROVE inside'[t] \in Seq(Calls) /\ Len(inside'[t]) = Len(inside[t])
  <2>1. inside[t] \in Seq(Calls) /\ DOMAIN inside[t] = 1 .. Len(inside[t])
    BY <1>1 DEF CallVarsOK
  <2>2. inside'[t] = [i \in 1 .. Len(inside[t]) |-> Dropped(inside[t][i], keys)]
    BY <2>1 DEF DropCalls
  <2>3. \A i \in 1 .. Len(inside[t]) : Dropped(inside[t][i], keys) \in Calls
    BY <1>2, <2>1
  <2> QED
    BY <2>1, <2>2, <2>3
<1>5. CallVarsOK'
  <2>1. ASSUME NEW t \in Threads PROVE target'[t] \in Calls \cup {NoCall}
    BY <1>1, <1>2, <1>3 DEF CallVarsOK
  <2>2. target' = [t \in Threads |-> target'[t]] /\ inside' = [t \in Threads |-> inside'[t]]
    BY DEF DropCalls
  <2>3. target' \in [Threads -> Calls \cup {NoCall}] /\ inside' \in [Threads -> Seq(Calls)]
    BY <1>4, <2>1, <2>2
  <2> QED
    BY <1>1, <2>3 DEF CallVarsOK
<1>6. StatementOK'
  <2>1. inside[Main] = <<>> => inside'[Main] = <<>>
    BY <1>1, <1>4, MainIsThread DEF CallVarsOK
  <2> QED
    BY <1>1, <1>3, <2>1, MainIsThread DEF StatementOK
<1>7. ASSUME NEW t \in Threads, NEW c, Uses(t, c)'
      PROVE  \E b \in InUse : Uses(t, b) /\ c = Dropped(b, keys)
  <2>1. CASE target'[t] # NoCall /\ c = target'[t]
    BY <1>3, <2>1, InUseMeans DEF Uses
  <2>2. ASSUME NEW i \in DOMAIN inside'[t], c = inside'[t][i]
        PROVE  \E b \in InUse : Uses(t, b) /\ c = Dropped(b, keys)
    <3>1. Uses(t, inside[t][i]) /\ c = Dropped(inside[t][i], keys)
      BY <1>3, <2>2 DEF Uses
    <3> QED
      BY <3>1, InUseMeans
  <2> QED
    BY <1>7, <2>1, <2>2 DEF Uses
<1>8. OthersForget'
  <2>1. ASSUME NEW t \in Threads \ {Main}, NEW c, Uses(t, c)' PROVE ~c.remembered
    <3>1. PICK b \in InUse : Uses(t, b) /\ c = Dropped(b, keys)
      BY <1>7, <2>1
    <3>2. ~b.remembered
      BY <1>1, <3>1 DEF OthersForget, Forgets, Uses
    <3> QED
      BY <1>1, <1>2, <3>1, <3>2
  <2> QED
    BY <2>1 DEF OthersForget, Forgets, Uses
<1>9. ASSUME NEW c \in InUse' PROVE CallOK(c)'
  <2>1. PICK t \in Threads : Uses(t, c)'
    BY <1>9 DEF InUse, Uses
  <2>2. PICK b \in InUse : c = Dropped(b, keys)
    BY <1>7, <2>1
  <2> QED
    BY <1>1, <1>2, <2>2
<1>10. DeclaredOK'
  BY <1>1 DEF DeclaredOK, Remembers
<1> QED
  BY <1>5, <1>6, <1>8, <1>9, <1>10

\* Loading and focusing unload nothing; freeing drops the entry of one key.
LEMMA IntrinsicKeepsInv ==
  ASSUME CallInv, NEW t \in Threads, Intrinsic(t)
  PROVE  CallInv' /\ [RegistryNext]_registryVars
<1>1. UNCHANGED <<ffi, statement, declaredIn>>
  BY DEF Intrinsic
<1>2. ASSUME NEW p \in Paths, NEW b \in BOOLEAN, Load(p, b), UNCHANGED <<target, inside>>,
             asked' = IF b THEN Canonical[p] ELSE asked
      PROVE  CallInv' /\ [RegistryNext]_registryVars
  <2>1. [RegistryNext]_registryVars
    BY <1>2 DEF RegistryNext
  <2>2. Canonical[p] \in Keys /\ LoadLocked(Canonical[p]) /\ FocusIsAsAsked'
    BY <1>2 DEF Load, Keys, CallInv, FocusIsAsAsked
  <2>3. /\ RegistryInv' /\ EntriesAreFound'
        /\ \A j \in Keys : Loaded(j) => libraries'[j] = libraries[j]
    BY <2>1, <2>2, LoadingKeepsEntries, RegistryStepKeepsInv DEF CallInv
  <2>4. InUse' = InUse
    BY <1>2 DEF InUse
  <2>5. \A c \in InUse' : CallOK(c)'
    BY <1>1, <2>3, <2>4, LoadingKeepsCalls DEF CallInv
  <2>6. CallVarsOK' /\ StatementOK' /\ DeclaredOK' /\ OthersForget'
    BY <1>1, <1>2 DEF CallInv, CallVarsOK, StatementOK, DeclaredOK, Remembers, OthersForget, Forgets
  <2> QED
    BY <2>1, <2>2, <2>3, <2>5, <2>6 DEF CallInv
<1>3. ASSUME NEW p \in Paths, Free(p), DropCalls({Canonical[p]}),
             asked' = IF asked = Canonical[p] THEN NoKey ELSE asked
      PROVE  CallInv' /\ [RegistryNext]_registryVars
  <2>1. [RegistryNext]_registryVars
    BY <1>3 DEF RegistryNext
  <2>2. /\ Canonical[p] \in Keys /\ libraries' = [libraries EXCEPT ![Canonical[p]] = NoFile]
        /\ FocusIsAsAsked'
    BY <1>3 DEF Free, Keys, CallInv, FocusIsAsAsked
  <2>3. RegistryInv' /\ EntriesAreFound'
    BY <2>1, <2>2, RegistryStepKeepsInv
    DEF CallInv, EntriesAreFound, Loaded, RegistryInv, RegistryTypeOK
  <2>4. /\ CallVarsOK' /\ StatementOK' /\ DeclaredOK' /\ OthersForget'
        /\ \A c \in InUse' : CallOK(c)'
    <3>1. \A j \in Keys \ {Canonical[p]} : libraries'[j] = libraries[j]
      BY <2>2 DEF CallInv, RegistryInv, RegistryTypeOK
    <3> QED
      BY <1>1, <1>3, <2>2, <3>1, DropKeepsCalls
  <2> QED
    BY <2>1, <2>2, <2>3, <2>4 DEF CallInv
<1> QED
  BY <1>2, <1>3 DEF Intrinsic, Focus

\* The registry ends, and drops every entry.
LEMMA EndRuntimeKeepsInv ==
  ASSUME CallInv, EndRuntime
  PROVE  CallInv' /\ [RegistryNext]_registryVars
<1>1. UNCHANGED <<ffi, statement, declaredIn>> /\ DropCalls(Keys) /\ Shutdown /\ asked' = NoKey
  BY DEF EndRuntime
<1>2. [RegistryNext]_registryVars
  BY <1>1 DEF RegistryNext
<1>3. RegistryInv'
  BY <1>2, RegistryStepKeepsInv DEF CallInv
<1>4. /\ CallVarsOK' /\ StatementOK' /\ DeclaredOK' /\ OthersForget'
      /\ \A c \in InUse' : CallOK(c)'
  BY <1>1, DropKeepsCalls
<1>5. EntriesAreFound' /\ FocusIsAsAsked'
  BY <1>1 DEF Shutdown, EntriesAreFound, Loaded, FocusIsAsAsked
<1> QED
  BY <1>2, <1>3, <1>4, <1>5 DEF CallInv

\* CallInv is inductive, and every step is one of the registry or leaves it alone.
LEMMA NextKeepsCallInv == CallInv /\ [Next]_vars => CallInv' /\ [RegistryNext]_registryVars
<1> SUFFICES ASSUME CallInv, [Next]_vars PROVE CallInv' /\ [RegistryNext]_registryVars
  OBVIOUS
<1>1. CASE UNCHANGED vars
  <2>1. UNCHANGED registryVars /\ UNCHANGED <<ffi, statement, target, inside, declaredIn, asked>>
    BY <1>1 DEF vars, callVars
  <2>2. RegistryInv' /\ EntriesAreFound' /\ FocusIsAsAsked'
    BY <2>1, RegistryStepKeepsInv
    DEF CallInv, EntriesAreFound, registryVars, Loaded, FocusIsAsAsked
  <2>3. CallVarsOK' /\ StatementOK' /\ DeclaredOK' /\ OthersForget'
    BY <2>1 DEF CallInv, CallVarsOK, StatementOK, DeclaredOK, Remembers, OthersForget, Forgets
  <2>4. \A c \in InUse' : CallOK(c)'
    BY <2>1 DEF CallInv, InUse, CallOK, Remembers, registryVars
  <2> QED
    BY <2>1, <2>2, <2>3, <2>4 DEF CallInv
<1>2. CASE \E n \in Symbols, o \in Origins : CheckTypedCall(n, o)
  BY <1>2, CheckKeepsInv
<1>3. CASE \E n \in Symbols : CheckUntypedCall(n)
  <2>1. Focused \in Origins
    BY DEF Origins
  <2> QED
    BY <1>3, <2>1, CheckKeepsInv
<1>4. CASE ExecuteStatement
  BY <1>4, ExecuteStatementKeepsInv
<1>5. CASE \E t \in Threads : EnterNative(t) \/ LeaveNative(t) \/ Intrinsic(t)
  BY <1>5, NativeCodeKeepsInv, IntrinsicKeepsInv
<1>6. CASE \E t \in Threads, n \in Symbols, o \in Origins : CallInCallback(t, n, o)
  BY <1>6, CallInCallbackKeepsInv
<1>7. CASE EndRuntime
  BY <1>7, EndRuntimeKeepsInv
<1> QED
  BY <1>1, <1>2, <1>3, <1>4, <1>5, <1>6, <1>7 DEF Next, Ended

\* CallInv holds in every reachable state.
LEMMA CallInvHolds == Spec => []CallInv
BY InitGivesCallInv, NextKeepsCallInv, PTL DEF Spec

-----------------------------------------------------------------------------
(* The theorems.                                                             *)

\* Whatever threads call, load, focus and free, the registry they share is used
\* as RegistrySpec says (runtime.cpp 45-122), and so keeps its properties.
THEOREM CallsUseTheRegistry == Spec => RegistrySpec
<1>1. Init => RegistryInit
  BY DEF Init
<1> QED
  BY <1>1, CallInvHolds, NextKeepsCallInv, PTL DEF Spec, RegistrySpec

\* Every call that is resolved or running is in mapped code until a script frees
\* the very key through which it was found, or main ends (interpreter.cpp 558-568,
\* runtime.cpp 83-91): neither the registry's mutex, which is released before the
\* call, nor another spelling of the path is needed for that.
THEOREM CallsAlwaysRunMappedCode == Spec => []CallsRunMappedCode
<1>1. CallInv => CallsRunMappedCode
  <2> SUFFICES ASSUME CallInv, NEW c \in InUse, ~c.freed PROVE references[c.file] > 0
    BY DEF CallsRunMappedCode
  <2>1. c \in Calls /\ libraries[c.key] = c.file
    BY CallsInUse DEF CallInv, CallOK
  <2>2. c.key \in EntriesOf(c.file) /\ c.file \in Files
    BY <2>1 DEF Calls, EntriesOf
  <2>3. Cardinality(EntriesOf(c.file)) # 0
    BY <2>2, EntriesAreFinite, FS_EmptySet
  <2> QED
    BY <2>2, <2>3, EntriesAreFinite DEF CallInv, RegistryInv, EntriesHoldReferences
<1> QED
  BY <1>1, CallInvHolds, PTL

\* A name or an ordinal is called only in a file that exports it (symbol_locked,
\* runtime.cpp 59-68).
THEOREM SymbolsAreAlwaysExported == Spec => []SymbolsAreExported
<1>1. CallInv => SymbolsAreExported
  BY DEF CallInv, CallOK, SymbolsAreExported
<1> QED
  BY <1>1, CallInvHolds, PTL

\* A call remembered with a path reaches the file of its declaring call, through
\* any later loads, focuses and frees (checker.cpp 179-213, main.cpp 84-89).
THEOREM RememberedExternalsKeepTheirDll == Spec => []RememberedExternalKeepsDll
<1>1. CallInv => RememberedExternalKeepsDll
  <2> SUFFICES ASSUME CallInv, NEW c \in InUse, c.remembered, ffi[c.name].origin = "external",
                      declaredIn[c.name] # NoFile
               PROVE  c.file = declaredIn[c.name]
    BY DEF RememberedExternalKeepsDll
  <2>1. c.name \in Symbols /\ CallOK(c)
    BY CallsInUse DEF CallInv, Calls
  <2> QED
    BY <2>1 DEF CallInv, CallOK, Remembers, DeclaredOK
<1> QED
  BY <1>1, CallInvHolds, PTL

\* The focused DLL is the one scripts last asked to focus, on any thread
\* (runtime.cpp 70-99): loads without focus, external calls and frees of other
\* DLLs leave it alone.
THEOREM FocusIsAlwaysAsAsked == Spec => []FocusIsAsAsked
<1>1. CallInv => FocusIsAsAsked
  BY DEF CallInv
<1> QED
  BY <1>1, CallInvHolds, PTL
=============================================================================
