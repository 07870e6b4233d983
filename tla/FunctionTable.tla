---------------------------- MODULE FunctionTable ----------------------------
(***************************************************************************)
(* The function table of the Runtime (runtime.hpp 61-71 and 124-127,       *)
(* runtime.cpp 193-234).  Every script function name owns one slot of      *)
(* function_slots_, for ever; slot i owns trampoline i, the address native *)
(* code calls.  Defining a name pushes a FunctionVersion and publishes it  *)
(* in the slot's atomic "current"; older versions are never freed, because *)
(* a thread may still be running them.                                     *)
(*                                                                         *)
(* install_function holds metadata_mutex_ throughout, but it becomes       *)
(* visible in two steps: function_names_ first, "current" last, and        *)
(* function_version reads "current" without the mutex.  The two steps are  *)
(* two actions here; "installing" is the mutex together with what          *)
(* install_function has in its local variables.                            *)
(***************************************************************************)
EXTENDS Integers, Sequences, FiniteSets

CONSTANTS Names,        \* names a script gives to its functions
          Arities,      \* parameter counts: the part of a signature callers see
          SlotLimit,    \* function_slots_.size(), 256 in the code
          MaxVersions,  \* bound: definitions executed in one behaviour
          NoName,       \* the empty name of an unused slot
          Idle          \* nobody is inside install_function

ASSUME SlotLimitIsNat == SlotLimit \in Nat
ASSUME MaxVersionsIsNat == MaxVersions \in Nat
ASSUME AritiesAreNat == Arities \subseteq Nat
ASSUME NoNameIsNoName == NoName \notin Names

VARIABLES functionNames,     \* function_names_: name -> slot, or NoSlot
          functionCount,     \* function_count_
          slotName,          \* function_slots_[i].name
          current,           \* function_slots_[i].current, an index of functionVersions
          functionVersions,  \* function_versions_
          trampolines,       \* slots whose address function_address has returned
          installing         \* metadata_mutex_ and install_function's locals

tableVars == <<functionNames, functionCount, slotName, current,
               functionVersions, trampolines, installing>>

Slots == 0 .. SlotLimit - 1
NoSlot == -1
NoVersion == 0

Version == [name : Names, arity : Arities]
Installation == [slot : Slots, version : Version]

ASSUME IdleIsNoInstallation == Idle \notin Installation

\* function_names_.find(name)
HasSlot(n) == functionNames[n] # NoSlot

TableTypeOK ==
  /\ functionNames \in [Names -> Slots \cup {NoSlot}]
  /\ functionCount \in 0 .. SlotLimit
  /\ slotName \in [Slots -> Names \cup {NoName}]
  /\ functionVersions \in Seq(Version)
  /\ current \in [Slots -> 0 .. Len(functionVersions)]
  /\ trampolines \subseteq Slots
  /\ installing \in Installation \cup {Idle}

TableInit ==
  /\ functionNames = [n \in Names |-> NoSlot]
  /\ functionCount = 0
  /\ slotName = [s \in Slots |-> NoName]
  /\ current = [s \in Slots |-> NoVersion]
  /\ functionVersions = <<>>
  /\ trampolines = {}
  /\ installing = Idle

-----------------------------------------------------------------------------
\* Mutant of ReserveSlot: a redefinition takes a new slot.
ReserveSlotAnew(n, k) ==
  /\ installing = Idle
  /\ functionCount < SlotLimit /\ Len(functionVersions) < MaxVersions
  /\ installing' = [slot |-> functionCount, version |-> [name |-> n, arity |-> k]]
  /\ functionNames' = [functionNames EXCEPT ![n] = functionCount]
  /\ slotName' = [slotName EXCEPT ![functionCount] = n]
  /\ functionCount' = functionCount + 1
  /\ UNCHANGED <<current, functionVersions, trampolines>>

\* Mutant of ReserveSlot: when all slots are taken, the first ones are used again.
ReserveSlotAround(n, k) ==
  /\ installing = Idle
  /\ Len(functionVersions) < MaxVersions
  /\ LET s == IF HasSlot(n) THEN functionNames[n] ELSE functionCount % SlotLimit
     IN /\ installing' = [slot |-> s, version |-> [name |-> n, arity |-> k]]
        /\ functionNames' = [functionNames EXCEPT ![n] = s]
        /\ slotName' = [slotName EXCEPT ![s] = n]
        /\ functionCount' = IF HasSlot(n) THEN functionCount ELSE functionCount + 1
  /\ UNCHANGED <<current, functionVersions, trampolines>>

(* install_function, up to the push_back (lines 194-212): a known name       *)
(* keeps its slot, a new one takes the next slot.                            *)
ReserveSlot(n, k) ==
  /\ installing = Idle
  /\ Len(functionVersions) < MaxVersions
  /\ \/ /\ HasSlot(n)
        /\ installing' = [slot |-> functionNames[n], version |-> [name |-> n, arity |-> k]]
        /\ UNCHANGED <<functionNames, functionCount, slotName>>
     \/ /\ ~HasSlot(n)
        /\ functionCount < SlotLimit
        /\ installing' = [slot |-> functionCount, version |-> [name |-> n, arity |-> k]]
        /\ functionNames' = [functionNames EXCEPT ![n] = functionCount]
        /\ slotName' = [slotName EXCEPT ![functionCount] = n]
        /\ functionCount' = functionCount + 1
  /\ UNCHANGED <<current, functionVersions, trampolines>>

(* The throw of line 207: a new name when every slot is taken.  Nothing has  *)
(* been changed yet.                                                         *)
TableFull(n) == installing = Idle /\ ~HasSlot(n) /\ functionCount >= SlotLimit

(* The end of install_function (lines 213-214): push the version, publish    *)
(* it, and leave the mutex.                                                  *)
PublishVersion ==
  /\ installing # Idle
  /\ functionVersions' = Append(functionVersions, installing.version)
  /\ current' = [current EXCEPT ![installing.slot] = Len(functionVersions) + 1]
  /\ installing' = Idle
  /\ UNCHANGED <<functionNames, functionCount, slotName, trampolines>>

\* Mutant of FunctionAddress: without taking the mutex.
FunctionAddressUnlocked(n) ==
  /\ HasSlot(n)
  /\ trampolines' = trampolines \cup {functionNames[n]}
  /\ UNCHANGED <<functionNames, functionCount, slotName, current,
                 functionVersions, installing>>

(* function_address: under the mutex, and for a name that has a slot.  From  *)
(* here on native code may call the trampoline at any time.                  *)
FunctionAddress(n) ==
  /\ installing = Idle
  /\ HasSlot(n)
  /\ trampolines' = trampolines \cup {functionNames[n]}
  /\ UNCHANGED <<functionNames, functionCount, slotName, current,
                 functionVersions, installing>>

TableNext ==
  \/ \E n \in Names, k \in Arities : ReserveSlot(n, k)
  \/ PublishVersion
  \/ \E n \in Names : FunctionAddress(n)

TableSpec == TableInit /\ [][TableNext]_tableVars

-----------------------------------------------------------------------------
\* A call through any address that native code holds finds a version: the
\* "trampoline has no installed function" exit of dispatch_script_callback
\* (runtime.cpp 282) is never taken, although "current" is read without the
\* mutex and is the last thing install_function writes.
TrampolinesHaveVersions == \A s \in trampolines : current[s] # NoVersion

\* The slots in use are 0 .. functionCount - 1, each belongs to the one name
\* that function_names_ maps to it, and the name printed by fatal_callback
\* (slot.name) is that name.
SlotsBelongToOneName ==
  /\ \A n \in Names : HasSlot(n) =>
       functionNames[n] < functionCount /\ slotName[functionNames[n]] = n
  /\ \A s \in Slots : s < functionCount => \E n \in Names : functionNames[n] = s

\* The version a slot publishes is a definition of the slot's own name: a
\* callback can never run another function's body.
SlotsPublishOwnFunction ==
  \A s \in Slots : current[s] # NoVersion =>
    functionVersions[current[s]].name = slotName[s]

\* "Redefining a function does not change its memory position" (README.md
\* 79, main.cpp 196): once a name has a slot, and so a trampoline address, no
\* step changes it.
AddressesNeverChange ==
  [][\A n \in Names : HasSlot(n) => functionNames'[n] = functionNames[n]]_tableVars

\* A version that some thread may be running stays where it is: no step
\* removes or overwrites an entry of function_versions_.
VersionsAreKept ==
  [][/\ Len(functionVersions') >= Len(functionVersions)
     /\ \A i \in 1 .. Len(functionVersions) :
          functionVersions'[i] = functionVersions[i]]_tableVars

(* The strengthening that makes the three invariants above inductive. *)

\* Every named slot has a version, except the one being installed.
NamedSlotsAreReady ==
  \A n \in Names : HasSlot(n) =>
    \/ current[functionNames[n]] # NoVersion
    \/ installing # Idle /\ installing.slot = functionNames[n]

\* What is being installed is a definition of its slot's name.
InstallingOwnSlot ==
  installing # Idle => functionNames[installing.version.name] = installing.slot

\* Slots that were never given out are empty.
FreeSlotsAreEmpty == \A s \in Slots : s >= functionCount => current[s] = NoVersion

TableInv ==
  /\ TableTypeOK
  /\ SlotsBelongToOneName
  /\ NamedSlotsAreReady
  /\ InstallingOwnSlot
  /\ FreeSlotsAreEmpty
  /\ SlotsPublishOwnFunction
  /\ TrampolinesHaveVersions

-----------------------------------------------------------------------------
(* The refinement mapping: a name is defined, and has its address, from the  *)
(* moment its first version is published.                                    *)
Published(n) == HasSlot(n) /\ current[functionNames[n]] # NoVersion

definitionBar ==
  [n \in Names |-> IF Published(n) THEN functionVersions[current[functionNames[n]]].arity
                                   ELSE -1]
addressBar == [n \in Names |-> IF Published(n) THEN functionNames[n] ELSE NoSlot]

Abstract == INSTANCE NamedFunctions
              WITH Definitions <- Arities, Addresses <- Slots, Undefined <- -1,
                   NoAddress <- NoSlot, definition <- definitionBar,
                   address <- addressBar

\* The table implements the abstract map of named functions: every step
\* defines one name, with a fresh address the first time, or changes nothing
\* that a caller can see.
ImplementsNamedFunctions == Abstract!Spec
=============================================================================
