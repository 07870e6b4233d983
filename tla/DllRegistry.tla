----------------------------- MODULE DllRegistry -----------------------------
(***************************************************************************)
(* DllRegistry (runtime.hpp 43-59, runtime.cpp 45-122): the DLLs a script  *)
(* has loaded, and the focused one.  libraries_ is keyed by the canonical  *)
(* (lower-case) spelling of the path given, so two spellings that differ   *)
(* in more than case are two entries for one file, each with a reference   *)
(* of its own.  The OS loader is external: it counts the references to a   *)
(* file and keeps the file mapped while there are any.                     *)
(*                                                                         *)
(* Every operation runs from end to end under mutex_, so each is one       *)
(* action, with its throws as disjuncts.                                   *)
(***************************************************************************)
EXTENDS Integers, FiniteSets

CONSTANTS Paths,         \* spellings of DLL paths in a script
          Canonical,     \* path -> its lower-case spelling
          FileOf,        \* canonical path -> the file the OS loader finds
          Files,         \* DLL files
          Exports,       \* file -> the names and ordinals it exports
          OrdinalLimit,  \* largest ordinal, 0xFFFF in the code
          NoFile,        \* the loader finds no file; nothing is loaded
          NoKey          \* no DLL is focused

Keys == {Canonical[p] : p \in Paths}

ASSUME FileOfKeys == FileOf \in [Keys -> Files \cup {NoFile}]
ASSUME NoFileIsNoFile == NoFile \notin Files
ASSUME NoKeyIsNoKey == NoKey \notin Keys
ASSUME OrdinalLimitIsNat == OrdinalLimit \in Nat
ASSUME PathsAreFinite == IsFiniteSet(Paths)

VARIABLES libraries,   \* libraries_: canonical path -> file, or NoFile
          focused,     \* focused_
          references,  \* the OS loader's reference count of each file
          open         \* ~DllRegistry has not run

registryVars == <<libraries, focused, references, open>>

Loaded(k) == libraries[k] # NoFile

\* The entries of libraries_ that hold a handle of file f.
EntriesOf(f) == {k \in Keys : libraries[k] = f}

RegistryTypeOK ==
  /\ libraries \in [Keys -> Files \cup {NoFile}]
  /\ focused \in Keys \cup {NoKey}
  /\ references \in [Files -> Nat]
  /\ open \in BOOLEAN

RegistryInit ==
  /\ libraries = [k \in Keys |-> NoFile]
  /\ focused = NoKey
  /\ references = [f \in Files |-> 0]
  /\ open = TRUE

-----------------------------------------------------------------------------
(* load_locked: a known key is found in the map, otherwise the OS loader     *)
(* maps the file and the entry is made.  It throws, and changes nothing, if  *)
(* the loader finds no file.                                                 *)
CanLoad(k) == Loaded(k) \/ FileOf[k] # NoFile

\* Mutants of LoadLocked: a known key is loaded again; or a mapped file is not.
LoadLockedAgain(k) ==
  /\ FileOf[k] # NoFile
  /\ libraries' = [libraries EXCEPT ![k] = FileOf[k]]
  /\ references' = [references EXCEPT ![FileOf[k]] = @ + 1]

LoadLockedShared(k) ==
  /\ FileOf[k] # NoFile
  /\ libraries' = [libraries EXCEPT ![k] = FileOf[k]]
  /\ references' = [references EXCEPT ![FileOf[k]] = IF @ = 0 THEN 1 ELSE @]

LoadLocked(k) ==
  \/ /\ Loaded(k)
     /\ UNCHANGED <<libraries, references>>
  \/ /\ ~Loaded(k) /\ FileOf[k] # NoFile
     /\ libraries' = [libraries EXCEPT ![k] = FileOf[k]]
     /\ references' = [references EXCEPT ![FileOf[k]] = @ + 1]

\* load(path), with or without taking the focus.
Load(p, setFocus) ==
  LET k == Canonical[p]
  IN /\ open
     /\ LoadLocked(k)
     /\ focused' = IF setFocus THEN k ELSE focused
     /\ UNCHANGED open

\* focus(path): loads the DLL if necessary.
Focus(p) == Load(p, TRUE)

\* Mutant of Free: the focus is never cleared.
FreeKeepsFocus(p) ==
  /\ open /\ Loaded(Canonical[p])
  /\ references' = [references EXCEPT ![libraries[Canonical[p]]] = @ - 1]
  /\ libraries' = [libraries EXCEPT ![Canonical[p]] = NoFile]
  /\ UNCHANGED <<focused, open>>

\* free(path): throws if the DLL is not loaded; otherwise drops the entry, its
\* reference, and the focus if it had it.
Free(p) ==
  LET k == Canonical[p]
  IN /\ open
     /\ Loaded(k)
     /\ references' = [references EXCEPT ![libraries[k]] = @ - 1]
     /\ libraries' = [libraries EXCEPT ![k] = NoFile]
     /\ focused' = IF focused = k THEN NoKey ELSE focused
     /\ UNCHANGED open

\* Mutant of FindSymbol: without the bounds check on ordinals.
FindSymbolCut(f, symbol) ==
  IF symbol \in Nat THEN symbol % (OrdinalLimit + 1) \in Exports[f]
                    ELSE symbol \in Exports[f]

(* symbol_locked: "#n" is an ordinal if 1 <= n <= 0xFFFF, and any other      *)
(* symbol a name.  An ordinal is passed to the loader as a uint16.           *)
FindSymbol(f, symbol) ==
  \/ symbol \notin Nat /\ symbol \in Exports[f]
  \/ /\ symbol \in Nat
     /\ symbol # 0 /\ symbol <= OrdinalLimit
     /\ symbol % (OrdinalLimit + 1) \in Exports[f]

\* Mutant of ResolveExternal: the DLL takes the focus.
ResolveExternalFocusing(p) ==
  /\ open
  /\ LoadLocked(Canonical[p])
  /\ focused' = Canonical[p]
  /\ UNCHANGED open

\* resolve_external (and address): a missing symbol throws after the DLL has
\* been loaded, and leaves it loaded.
ResolveExternal(p) ==
  /\ open
  /\ LoadLocked(Canonical[p])
  /\ UNCHANGED <<focused, open>>

\* resolve_focused finds the symbol in the focused DLL.  It throws if there is
\* none, and also (line 105) if the focused key is not in libraries_.
CanResolveFocused == open /\ focused # NoKey /\ Loaded(focused)

\* ~DllRegistry: drops the reference of every entry.
Shutdown ==
  /\ open
  /\ open' = FALSE
  /\ references' = [f \in Files |->
                      references[f] - Cardinality(EntriesOf(f))]
  /\ libraries' = [k \in Keys |-> NoFile]
  /\ focused' = NoKey

RegistryNext ==
  \/ \E p \in Paths, b \in BOOLEAN : Load(p, b)
  \/ \E p \in Paths : Focus(p) \/ Free(p) \/ ResolveExternal(p)
  \/ Shutdown

RegistrySpec == RegistryInit /\ [][RegistryNext]_registryVars

-----------------------------------------------------------------------------
\* The focused DLL is loaded: "focused DLL is no longer loaded" (runtime.cpp
\* 105) is never thrown, whichever spelling loaded, focused or freed it.
FocusedIsLoaded == focused # NoKey => Loaded(focused)

\* Each entry of libraries_ holds exactly one of the loader's references to its
\* file: a file stays mapped while any spelling of it is loaded, no DLL is
\* freed twice, and none is leaked when the registry is destroyed.
EntriesHoldReferences ==
  \A f \in Files : references[f] = Cardinality(EntriesOf(f))

RegistryInv == RegistryTypeOK /\ FocusedIsLoaded /\ EntriesHoldReferences
=============================================================================
