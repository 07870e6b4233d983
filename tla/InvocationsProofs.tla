------------------------- MODULE InvocationsProofs -------------------------
(***************************************************************************)
(* The function table keeps its promises, for any number of names, slots   *)
(* and definitions; and stacks of script and native frames stay in order,  *)
(* on any number of threads, however deep: through callbacks, exceptions   *)
(* and redefinitions.                                                      *)
(***************************************************************************)
EXTENDS Invocations, FiniteSetTheorems, SequenceTheorems, TLAPS

USE SlotLimitIsNat, MaxVersionsIsNat, AritiesAreNat, NoNameIsNoName, IdleIsNoInstallation

-----------------------------------------------------------------------------
\* The empty table of a new Runtime satisfies the invariant.
LEMMA InitEstablishesTableInv == TableInit => TableInv
<1> SUFFICES ASSUME TableInit PROVE TableInv
  OBVIOUS
<1>1. TableTypeOK
  BY DEF TableInit, TableTypeOK, Slots, NoSlot, NoVersion, Version, Installation
<1>2. SlotsBelongToOneName /\ NamedSlotsAreReady /\ InstallingOwnSlot
  BY DEF TableInit, SlotsBelongToOneName, NamedSlotsAreReady, InstallingOwnSlot,
         HasSlot, Slots, NoSlot
<1>3. FreeSlotsAreEmpty /\ SlotsPublishOwnFunction /\ TrampolinesHaveVersions
  BY DEF TableInit, FreeSlotsAreEmpty, SlotsPublishOwnFunction,
         TrampolinesHaveVersions, NoVersion
<1> QED
  BY <1>1, <1>2, <1>3 DEF TableInv

\* Reserving a slot, for a known name or a new one, keeps the invariant.
LEMMA ReserveSlotKeepsTableInv ==
  ASSUME TableInv, NEW n \in Names, NEW k \in Arities, ReserveSlot(n, k)
  PROVE  TableInv'
<1> DEFINE v == [name |-> n, arity |-> k]
<1>0. v \in Version
  BY DEF Version
<1> USE DEF TableInv, HasSlot
<1>1. CASE HasSlot(n)
  <2>1. /\ installing' = [slot |-> functionNames[n], version |-> v]
        /\ UNCHANGED <<functionNames, functionCount, slotName, current,
                       functionVersions, trampolines>>
    BY <1>1 DEF ReserveSlot
  <2>2. functionNames[n] \in Slots
    BY <1>1 DEF TableTypeOK
  <2>3. installing' \in Installation
    BY <2>1, <2>2, <1>0 DEF Installation
  <2>4. installing' # Idle /\ installing'.slot = functionNames[n] /\ installing'.version.name = n
    BY <2>1, <2>3
  <2>5. TableTypeOK'
    BY <2>1, <2>3 DEF TableTypeOK
  <2>6. installing = Idle
    BY DEF ReserveSlot
  <2>7. NamedSlotsAreReady'
    BY <2>1, <2>6 DEF NamedSlotsAreReady
  <2> QED
    BY <2>1, <2>4, <2>5, <2>7 DEF SlotsBelongToOneName, InstallingOwnSlot,
       FreeSlotsAreEmpty, SlotsPublishOwnFunction, TrampolinesHaveVersions
<1>2. CASE ~HasSlot(n)
  <2>1. /\ functionCount < SlotLimit
        /\ installing' = [slot |-> functionCount, version |-> v]
        /\ functionNames' = [functionNames EXCEPT ![n] = functionCount]
        /\ slotName' = [slotName EXCEPT ![functionCount] = n]
        /\ functionCount' = functionCount + 1
        /\ UNCHANGED <<current, functionVersions, trampolines>>
        /\ installing = Idle
    BY <1>2 DEF ReserveSlot
  <2>2. functionCount \in Slots
    BY <2>1 DEF TableTypeOK, Slots
  <2>3. installing' \in Installation
    BY <2>1, <2>2, <1>0 DEF Installation
  <2>4. installing' # Idle /\ installing'.slot = functionCount /\ installing'.version.name = n
    BY <2>1, <2>3
  <2>5. TableTypeOK'
    BY <2>1, <2>2, <2>3 DEF TableTypeOK, Slots
  <2>6. /\ functionNames'[n] = functionCount
        /\ \A m \in Names \ {n} : functionNames'[m] = functionNames[m]
        /\ slotName'[functionCount] = n
        /\ \A s \in Slots \ {functionCount} : slotName'[s] = slotName[s]
    BY <2>1, <2>2 DEF TableTypeOK
  <2>7. SlotsBelongToOneName'
    <3>1. ASSUME NEW m \in Names, functionNames'[m] # NoSlot
          PROVE  functionNames'[m] < functionCount' /\ slotName'[functionNames'[m]] = m
      BY <3>1, <2>1, <2>2, <2>6 DEF SlotsBelongToOneName, TableTypeOK, Slots, NoSlot
    <3>2. ASSUME NEW s \in Slots, s < functionCount'
          PROVE  \E m \in Names : functionNames'[m] = s
      <4>1. CASE s = functionCount
        BY <4>1, <2>6
      <4>2. CASE s < functionCount
        <5>1. PICK m \in Names : functionNames[m] = s
          BY <4>2 DEF SlotsBelongToOneName
        <5>2. m # n
          BY <5>1, <1>2 DEF Slots, NoSlot
        <5> QED
          BY <5>1, <5>2, <2>6
      <4> QED
        BY <3>2, <4>1, <4>2, <2>1 DEF Slots, TableTypeOK
    <3> QED
      BY <3>1, <3>2 DEF SlotsBelongToOneName
  <2>8. NamedSlotsAreReady'
    BY <2>1, <2>4, <2>6 DEF NamedSlotsAreReady
  <2>9. InstallingOwnSlot'
    BY <2>4, <2>6 DEF InstallingOwnSlot
  <2>10. FreeSlotsAreEmpty'
    BY <2>1, <2>2 DEF FreeSlotsAreEmpty, TableTypeOK, Slots
  <2>11. current[functionCount] = NoVersion
    BY <2>2 DEF FreeSlotsAreEmpty, Slots
  <2>12. SlotsPublishOwnFunction'
    BY <2>1, <2>6, <2>11 DEF SlotsPublishOwnFunction
  <2> QED
    BY <2>1, <2>5, <2>7, <2>8, <2>9, <2>10, <2>12 DEF TrampolinesHaveVersions
<1> QED
  BY <1>1, <1>2

\* Publishing the version that is being installed keeps the invariant.
LEMMA PublishVersionKeepsTableInv == TableInv /\ PublishVersion => TableInv'
<1> SUFFICES ASSUME TableInv, PublishVersion PROVE TableInv'
  OBVIOUS
<1> DEFINE i == installing.slot
           v == installing.version
           last == Len(functionVersions) + 1
<1> USE DEF TableInv, HasSlot
<1>1. /\ installing \in Installation
      /\ i \in Slots
      /\ v \in Version
  BY DEF PublishVersion, TableTypeOK, Installation
<1>2. /\ functionVersions' = Append(functionVersions, v)
      /\ current' = [current EXCEPT ![i] = last]
      /\ installing' = Idle
      /\ UNCHANGED <<functionNames, functionCount, slotName, trampolines>>
  BY DEF PublishVersion
<1>3. /\ functionVersions' \in Seq(Version)
      /\ Len(functionVersions') = last
      /\ last \in Nat \ {0}
      /\ functionVersions'[last] = v
      /\ \A j \in 1 .. Len(functionVersions) : functionVersions'[j] = functionVersions[j]
  BY <1>1, <1>2 DEF TableTypeOK
<1>4. /\ current'[i] = last
      /\ \A s \in Slots \ {i} : current'[s] = current[s]
  BY <1>1, <1>2 DEF TableTypeOK
<1>5. TableTypeOK'
  <2>1. current' \in [Slots -> 0 .. Len(functionVersions')]
    BY <1>1, <1>2, <1>3 DEF TableTypeOK
  <2> QED
    BY <2>1, <1>2, <1>3 DEF TableTypeOK
<1>6. v.name \in Names /\ functionNames[v.name] = i /\ i # NoSlot
  BY <1>1 DEF InstallingOwnSlot, PublishVersion, Version, Slots, NoSlot
<1>7. slotName[i] = v.name /\ i < functionCount
  BY <1>6 DEF SlotsBelongToOneName
<1>8. NamedSlotsAreReady'
  BY <1>2, <1>3, <1>4 DEF NamedSlotsAreReady, NoVersion, TableTypeOK
<1>9. FreeSlotsAreEmpty'
  BY <1>1, <1>2, <1>4, <1>7 DEF FreeSlotsAreEmpty, TableTypeOK, Slots
<1>10. SlotsPublishOwnFunction'
  BY <1>2, <1>3, <1>4, <1>7 DEF SlotsPublishOwnFunction, NoVersion, TableTypeOK
<1>11. TrampolinesHaveVersions'
  BY <1>2, <1>3, <1>4 DEF TrampolinesHaveVersions, NoVersion, TableTypeOK
<1>12. SlotsBelongToOneName' /\ InstallingOwnSlot'
  BY <1>2 DEF SlotsBelongToOneName, InstallingOwnSlot
<1> QED
  BY <1>5, <1>8, <1>9, <1>10, <1>11, <1>12

\* Giving out a trampoline address keeps the invariant: the mutex is free, so
\* the slot's version is published.
LEMMA FunctionAddressKeepsTableInv ==
  ASSUME TableInv, NEW n \in Names, FunctionAddress(n)
  PROVE  TableInv'
<1>1. /\ functionNames[n] \in Slots
      /\ current[functionNames[n]] # NoVersion
  BY DEF TableInv, TableTypeOK, FunctionAddress, HasSlot, NamedSlotsAreReady
<1>2. TableTypeOK'
  BY <1>1 DEF TableInv, TableTypeOK, FunctionAddress
<1>3. TrampolinesHaveVersions'
  BY <1>1 DEF TableInv, TrampolinesHaveVersions, FunctionAddress
<1> QED
  BY <1>2, <1>3 DEF TableInv, FunctionAddress, SlotsBelongToOneName, HasSlot,
     NamedSlotsAreReady, InstallingOwnSlot, FreeSlotsAreEmpty, SlotsPublishOwnFunction

\* TableInv is inductive, so every reachable table satisfies it.
THEOREM TableInvariance == TableSpec => []TableInv
<1>1. TableInv /\ [TableNext]_tableVars => TableInv'
  <2> SUFFICES ASSUME TableInv, [TableNext]_tableVars PROVE TableInv'
    OBVIOUS
  <2>1. ASSUME NEW n \in Names, NEW k \in Arities, ReserveSlot(n, k) PROVE TableInv'
    BY <2>1, ReserveSlotKeepsTableInv
  <2>2. CASE PublishVersion
    BY <2>2, PublishVersionKeepsTableInv
  <2>3. ASSUME NEW n \in Names, FunctionAddress(n) PROVE TableInv'
    BY <2>3, FunctionAddressKeepsTableInv
  <2>4. CASE UNCHANGED tableVars
    BY <2>4 DEF tableVars, TableInv, TableTypeOK, SlotsBelongToOneName, HasSlot,
       NamedSlotsAreReady, InstallingOwnSlot, FreeSlotsAreEmpty,
       SlotsPublishOwnFunction, TrampolinesHaveVersions
  <2> QED
    BY <2>1, <2>2, <2>3, <2>4 DEF TableNext
<1> QED
  BY <1>1, InitEstablishesTableInv, PTL DEF TableSpec

\* Every variable of the table keeps its type.
THEOREM TableTypeCorrect == TableSpec => []TableTypeOK
<1>1. TableInv => TableTypeOK
  BY DEF TableInv
<1> QED
  BY <1>1, TableInvariance, PTL

\* Native code that calls a trampoline always finds an installed version: exit
\* 70 with "trampoline has no installed function" cannot happen.
THEOREM TrampolinesAlwaysHaveVersions == TableSpec => []TrampolinesHaveVersions
<1>1. TableInv => TrampolinesHaveVersions
  BY DEF TableInv
<1> QED
  BY <1>1, TableInvariance, PTL

\* A slot belongs to one name and publishes definitions of that name only.
THEOREM SlotsAlwaysServeTheirName ==
  TableSpec => [](SlotsBelongToOneName /\ SlotsPublishOwnFunction)
<1>1. TableInv => SlotsBelongToOneName /\ SlotsPublishOwnFunction
  BY DEF TableInv
<1> QED
  BY <1>1, TableInvariance, PTL

\* Redefinition never moves a function: a slot, once given, is kept.
THEOREM AddressesAreStable == TableSpec => AddressesNeverChange
<1> DEFINE Kept == \A n \in Names : HasSlot(n) => functionNames'[n] = functionNames[n]
<1>1. TableInv /\ [TableNext]_tableVars => [Kept]_tableVars
  <2> SUFFICES ASSUME TableInv, TableNext, NEW n \in Names, HasSlot(n)
               PROVE  functionNames'[n] = functionNames[n]
    OBVIOUS
  <2>1. ASSUME NEW m \in Names, NEW k \in Arities, ReserveSlot(m, k)
        PROVE  functionNames'[n] = functionNames[n]
    BY <2>1 DEF ReserveSlot, HasSlot, TableInv, TableTypeOK
  <2> QED
    BY <2>1 DEF TableNext, PublishVersion, FunctionAddress
<1> QED
  BY <1>1, TableInvariance, PTL DEF TableSpec, AddressesNeverChange

\* A version that was ever published stays readable for ever.
THEOREM VersionsAreNeverFreed == TableSpec => VersionsAreKept
<1> DEFINE Kept == /\ Len(functionVersions') >= Len(functionVersions)
                   /\ \A i \in 1 .. Len(functionVersions) :
                        functionVersions'[i] = functionVersions[i]
<1>1. TableInv /\ [TableNext]_tableVars => [Kept]_tableVars
  <2> SUFFICES ASSUME TableInv, TableNext PROVE Kept
    OBVIOUS
  <2>1. functionVersions \in Seq(Version)
    BY DEF TableInv, TableTypeOK
  <2>2. CASE PublishVersion
    <3>1. installing.version \in Version
      BY <2>2 DEF PublishVersion, TableInv, TableTypeOK, Installation
    <3> QED
      BY <2>1, <2>2, <3>1 DEF PublishVersion
  <2>3. CASE UNCHANGED functionVersions
    BY <2>1, <2>3
  <2> QED
    BY <2>2, <2>3 DEF TableNext, ReserveSlot, FunctionAddress
<1> QED
  BY <1>1, TableInvariance, PTL DEF TableSpec, VersionsAreKept

-----------------------------------------------------------------------------
(* The table implements NamedFunctions.                                      *)

\* The empty table is the map without definitions.
LEMMA InitRefines == TableInit => Abstract!Init
  BY DEF TableInit, Abstract!Init, definitionBar, addressBar, Published, HasSlot, NoSlot

\* Reserving a slot is invisible: a known name keeps its version until the
\* new one is published, and a new name's slot is still empty.
LEMMA ReserveSlotRefines ==
  ASSUME TableInv, NEW n \in Names, NEW k \in Arities, ReserveSlot(n, k)
  PROVE  UNCHANGED Abstract!vars
<1> SUFFICES definitionBar' = definitionBar /\ addressBar' = addressBar
  BY DEF Abstract!vars
<1>1. UNCHANGED <<current, functionVersions>>
  BY DEF ReserveSlot
<1>2. ASSUME NEW m \in Names
      PROVE  /\ Published(m)' <=> Published(m)
             /\ Published(m) => functionNames'[m] = functionNames[m]
  <2>1. CASE HasSlot(n)
    BY <2>1, <1>1 DEF ReserveSlot, Published, HasSlot
  <2>2. CASE ~HasSlot(n)
    <3>1. /\ functionCount \in Slots
          /\ current[functionCount] = NoVersion
      BY <2>2 DEF ReserveSlot, TableInv, TableTypeOK, FreeSlotsAreEmpty, Slots
    <3>2. functionNames' = [functionNames EXCEPT ![n] = functionCount]
      BY <2>2 DEF ReserveSlot
    <3>3. functionNames \in [Names -> Slots \cup {NoSlot}]
      BY DEF TableInv, TableTypeOK
    <3>4. CASE m = n
      BY <3>1, <3>2, <3>3, <3>4, <2>2, <1>1 DEF Published, HasSlot
    <3>5. CASE m # n
      BY <3>2, <3>3, <3>5, <1>1 DEF Published, HasSlot
    <3> QED
      BY <3>4, <3>5
  <2> QED
    BY <2>1, <2>2
<1> QED
  BY <1>1, <1>2 DEF definitionBar, addressBar

\* Publishing a version is the abstract definition of its name.
LEMMA PublishVersionRefines == TableInv /\ PublishVersion => Abstract!Next
<1> SUFFICES ASSUME TableInv, PublishVersion PROVE Abstract!Next
  OBVIOUS
<1>0. PICK i \in Slots, n \in Names, k \in Arities :
        installing = [slot |-> i, version |-> [name |-> n, arity |-> k]]
  BY DEF PublishVersion, TableInv, TableTypeOK, Installation, Version
<1> DEFINE v == [name |-> n, arity |-> k]
           last == Len(functionVersions) + 1
<1>1. v \in Version
  BY DEF Version
<1>2. /\ functionVersions' = Append(functionVersions, v)
      /\ current' = [current EXCEPT ![i] = last]
      /\ UNCHANGED functionNames
  BY <1>0 DEF PublishVersion
<1>3. /\ functionVersions'[last] = v
      /\ last \in Nat \ {0}
      /\ \A j \in 1 .. Len(functionVersions) : functionVersions'[j] = functionVersions[j]
  BY <1>1, <1>2 DEF TableInv, TableTypeOK
<1>4. current'[i] = last /\ \A s \in Slots \ {i} : current'[s] = current[s]
  BY <1>1, <1>2 DEF TableInv, TableTypeOK
<1>5. functionNames[n] = i
  BY <1>0 DEF TableInv, InstallingOwnSlot, PublishVersion
<1>6. \A m \in Names \ {n} : functionNames[m] # i
  BY <1>1, <1>5 DEF TableInv, SlotsBelongToOneName, HasSlot, Slots, NoSlot
<1>7. Published(n)' /\ HasSlot(n)
  BY <1>1, <1>2, <1>3, <1>4, <1>5 DEF Published, HasSlot, NoVersion, Slots, NoSlot
<1>8. \A m \in Names \ {n} : Published(m)' <=> Published(m)
  BY <1>2, <1>4, <1>6 DEF Published, HasSlot, TableInv, TableTypeOK
<1>9. definitionBar' = [definitionBar EXCEPT ![n] = k]
  <2>1. definitionBar'[n] = k
    BY <1>1, <1>2, <1>3, <1>4, <1>5, <1>7 DEF definitionBar
  <2>2. ASSUME NEW m \in Names \ {n} PROVE definitionBar'[m] = definitionBar[m]
    <3>1. CASE Published(m)
      <4>1. functionNames[m] \in Slots \ {i}
        BY <1>6, <3>1 DEF Published, HasSlot, TableInv, TableTypeOK
      <4>2. current[functionNames[m]] \in 1 .. Len(functionVersions)
        BY <4>1, <3>1 DEF Published, NoVersion, TableInv, TableTypeOK
      <4> QED
        BY <4>1, <4>2, <3>1, <1>2, <1>3, <1>4, <1>8 DEF definitionBar
    <3>2. CASE ~Published(m)
      BY <3>2, <1>8 DEF definitionBar
    <3> QED
      BY <3>1, <3>2
  <2> QED
    BY <2>1, <2>2, <1>1 DEF definitionBar
<1>10. addressBar'[n] = i /\ \A m \in Names \ {n} : addressBar'[m] = addressBar[m]
  BY <1>1, <1>2, <1>5, <1>7, <1>8 DEF addressBar
<1>11. \/ addressBar[n] # NoSlot /\ addressBar' = addressBar
       \/ /\ addressBar[n] = NoSlot
          /\ i \in Slots \ {addressBar[m] : m \in Names}
          /\ addressBar' = [addressBar EXCEPT ![n] = i]
  <2>1. CASE Published(n)
    BY <2>1, <1>1, <1>5, <1>10 DEF addressBar, Slots, NoSlot
  <2>2. CASE ~Published(n)
    <3>1. addressBar[n] = NoSlot
      BY <2>2, <1>1 DEF addressBar
    <3>2. \A m \in Names : addressBar[m] # i
      BY <3>1, <1>1, <1>6 DEF addressBar, Slots, NoSlot
    <3>3. addressBar' = [addressBar EXCEPT ![n] = i]
      BY <1>1, <1>10 DEF addressBar
    <3> QED
      BY <3>1, <3>2, <3>3, <1>1
  <2> QED
    BY <2>1, <2>2
<1>12. Abstract!Define(n, k)
  BY <1>9, <1>11 DEF Abstract!Define, Abstract!Unused
<1> QED
  BY <1>1, <1>12 DEF Abstract!Next

\* FunctionTable implements NamedFunctions: seen through published versions,
\* the two-step install is one atomic definition, its address fresh the first
\* time and the same ever after.
THEOREM TableImplementsNamedFunctions == TableSpec => ImplementsNamedFunctions
<1>1. TableInv /\ [TableNext]_tableVars => [Abstract!Next]_(Abstract!vars)
  <2> SUFFICES ASSUME TableInv, [TableNext]_tableVars
               PROVE  Abstract!Next \/ UNCHANGED Abstract!vars
    OBVIOUS
  <2>1. ASSUME NEW n \in Names, NEW k \in Arities, ReserveSlot(n, k)
        PROVE  UNCHANGED Abstract!vars
    BY <2>1, ReserveSlotRefines
  <2>2. CASE PublishVersion
    BY <2>2, PublishVersionRefines
  <2>3. CASE UNCHANGED <<functionNames, current, functionVersions>>
    BY <2>3 DEF Abstract!vars, definitionBar, addressBar, Published, HasSlot
  <2> QED
    BY <2>1, <2>2, <2>3 DEF TableNext, FunctionAddress, tableVars
<1> QED
  BY <1>1, InitRefines, TableInvariance, PTL
     DEF TableSpec, ImplementsNamedFunctions, Abstract!Spec

-----------------------------------------------------------------------------
(* The inductive invariant.                                                  *)

Kinds == {"module", "script", "callback", "native"}
FrameType == [kind : Kinds, slot : Slots \cup {NoSlot}, version : Nat, args : Nat, catches : BOOLEAN]
LookupType == [via : {"script", "callback"}, slot : Slots, args : Nat]
FlightType == {"none", "fault", "error", "raw"}

ThreadVarsOK ==
  /\ stack \in [Threads -> Seq(FrameType)]
  /\ lookup \in [Threads -> LookupType \cup {NoLookup}]
  /\ flight \in [Threads -> FlightType]
  /\ depth \in [Threads -> Int]
  /\ active \in BOOLEAN /\ alive \in BOOLEAN

\* A stack starts with a module, or with the native code of a thread; and on
\* native code, and nowhere else, lie callbacks.
Bottom(t) == IF t = Main THEN "module" ELSE "native"
Upper == {"script", "callback", "native"}
Shape(s, bottom) ==
  \A i \in 1 .. Len(s) :
    IF i = 1 THEN s[i].kind = bottom
             ELSE s[i].kind \in Upper /\ (s[i].kind = "callback" <=> s[i - 1].kind = "native")

ScriptFrames(s) == {i \in 1 .. Len(s) : RunsScript(s[i])}

\* An invocation's frame: its slot is in use, so that it keeps its name.
FrameOK(f) ==
  f.kind \in {"script", "callback"} =>
    /\ f.slot \in Slots /\ f.slot < functionCount
    /\ f.version \in 1 .. Len(functionVersions)
    /\ functionVersions[f.version].name = slotName[f.slot]
    /\ functionVersions[f.version].arity = f.args

FramesOK(s) == \A i \in 1 .. Len(s) : FrameOK(s[i])

\* An exception is in script code.
FlightOK(s, kind) == kind # "none" => s # <<>> /\ RunsScript(Last(s))

\* A thread that has found a slot is where it can call it: in native code if
\* it is a callback, and otherwise in script code.
LookupOK(s, kind, l) ==
  l # NoLookup =>
    kind = "none" /\ s # <<>> /\ (l.via = "callback" <=> Last(s).kind = "native")

ThreadOK(t) ==
  /\ Shape(stack[t], Bottom(t))
  /\ FramesOK(stack[t])
  /\ depth[t] = Cardinality(ScriptFrames(stack[t]))
  /\ FlightOK(stack[t], flight[t])
  /\ LookupOK(stack[t], flight[t], lookup[t])

InvocationInv ==
  /\ TableInv /\ ThreadVarsOK
  /\ \A t \in Threads : ThreadOK(t)

-----------------------------------------------------------------------------
(* Stacks.                                                                   *)

\* The script frames of a stack can be counted.
LEMMA ScriptFramesAreFinite ==
  ASSUME NEW s \in Seq(FrameType)
  PROVE  IsFiniteSet(ScriptFrames(s)) /\ Cardinality(ScriptFrames(s)) \in Nat
<1>1. IsFiniteSet(1 .. Len(s))
  BY FS_Interval
<1>2. IsFiniteSet(ScriptFrames(s))
  BY <1>1, FS_Subset DEF ScriptFrames
<1> QED
  BY <1>2, FS_CardinalityType

\* A frame is pushed.
LEMMA PushFacts ==
  ASSUME NEW s \in Seq(FrameType), NEW f \in FrameType, NEW bottom,
         Shape(s, bottom), FramesOK(s), FrameOK(f),
         s = <<>> => f.kind = bottom,
         s # <<>> => f.kind \in Upper /\ (f.kind = "callback" <=> Last(s).kind = "native")
  PROVE  /\ Append(s, f) \in Seq(FrameType) /\ Append(s, f) # <<>> /\ Last(Append(s, f)) = f
         /\ Shape(Append(s, f), bottom)
         /\ FramesOK(Append(s, f))
         /\ Cardinality(ScriptFrames(Append(s, f)))
              = Cardinality(ScriptFrames(s)) + (IF RunsScript(f) THEN 1 ELSE 0)
<1>1. PICK r \in Seq(FrameType) : r = Append(s, f)
  BY AppendProperties
<1>2. /\ Len(r) = Len(s) + 1 /\ Len(s) \in Nat /\ r[Len(s) + 1] = f
      /\ \A i \in 1 .. Len(s) : r[i] = s[i]
  BY <1>1, AppendProperties
<1>3. r # <<>> /\ Last(r) = f
  BY <1>2 DEF Last
<1>4. Shape(r, bottom)
  <2> SUFFICES ASSUME NEW i \in 1 .. Len(r)
               PROVE  IF i = 1 THEN r[i].kind = bottom
                      ELSE r[i].kind \in Upper /\ (r[i].kind = "callback" <=> r[i - 1].kind = "native")
    BY DEF Shape
  <2>1. CASE i \in 1 .. Len(s)
    <3>1. r[i] = s[i] /\ (i # 1 => i - 1 \in 1 .. Len(s) /\ r[i - 1] = s[i - 1])
      BY <1>2, <2>1
    <3>2. IF i = 1 THEN s[i].kind = bottom
          ELSE s[i].kind \in Upper /\ (s[i].kind = "callback" <=> s[i - 1].kind = "native")
      BY <2>1 DEF Shape
    <3> QED
      BY <3>1, <3>2
  <2>2. CASE i = Len(s) + 1
    <3>1. CASE s = <<>>
      BY <1>2, <2>2, <3>1
    <3>2. CASE s # <<>>
      <4>1. i # 1 /\ i - 1 = Len(s) /\ Len(s) \in 1 .. Len(s)
        BY <1>2, <2>2, <3>2
      <4>2. r[i] = f /\ r[i - 1] = Last(s)
        BY <1>2, <2>2, <4>1 DEF Last
      <4> QED
        BY <3>2, <4>1, <4>2
    <3> QED
      BY <3>1, <3>2
  <2> QED
    BY <1>2, <2>1, <2>2
<1>5. FramesOK(r)
  BY <1>2 DEF FramesOK
<1>6. Cardinality(ScriptFrames(r)) = Cardinality(ScriptFrames(s)) + (IF RunsScript(f) THEN 1 ELSE 0)
  <2>1. CASE RunsScript(f)
    <3>1. ScriptFrames(r) = ScriptFrames(s) \cup {Len(s) + 1} /\ Len(s) + 1 \notin ScriptFrames(s)
      BY <1>2, <2>1 DEF ScriptFrames
    <3> QED
      BY <2>1, <3>1, ScriptFramesAreFinite, FS_AddElement
  <2>2. CASE ~RunsScript(f)
    <3>1. ScriptFrames(r) = ScriptFrames(s)
      BY <1>2, <2>2 DEF ScriptFrames
    <3> QED
      BY <2>2, <3>1, ScriptFramesAreFinite
  <2> QED
    BY <2>1, <2>2
<1> QED
  BY <1>1, <1>3, <1>4, <1>5, <1>6

\* A stack without its last frame.
LEMMA FrontFacts ==
  ASSUME NEW S, NEW s \in Seq(S), s # <<>>
  PROVE  /\ Front(s) \in Seq(S) /\ Len(Front(s)) = Len(s) - 1
         /\ Len(s) \in Nat \ {0} /\ Len(s) \in 1 .. Len(s)
         /\ \A i \in 1 .. Len(s) - 1 : Front(s)[i] = s[i]
<1>1. Len(s) \in Nat \ {0} /\ \A i \in 1 .. Len(s) : s[i] \in S
  OBVIOUS
<1>2. \A i \in 1 .. Len(s) - 1 : s[i] \in S
  BY <1>1
<1> DEFINE n == Len(s) - 1
<1>3. n \in Nat
  BY <1>1
<1> HIDE DEF n
<1>4. /\ n \in Int /\ 1 \in Int /\ n - 1 + 1 = n /\ (IF 1 <= n THEN n - 1 + 1 ELSE 0) = n
      /\ \A i \in 1 .. n : 1 + i - 1 = i
  BY <1>3
<1>5. /\ SubSeq(s, 1, n) \in Seq(S) /\ Len(SubSeq(s, 1, n)) = n
      /\ \A i \in 1 .. n : SubSeq(s, 1, n)[i] = s[i]
  <2>1. \A i \in 1 .. n : s[i] \in S
    BY <1>2 DEF n
  <2>2. /\ SubSeq(s, 1, n) \in Seq(S)
        /\ Len(SubSeq(s, 1, n)) = IF 1 <= n THEN n - 1 + 1 ELSE 0
        /\ \A i \in 1 .. n - 1 + 1 : SubSeq(s, 1, n)[i] = s[1 + i - 1]
    BY <1>4, <2>1, SubSeqProperties
  <2> QED
    BY <1>4, <2>2
<1> QED
  BY <1>1, <1>5 DEF Front, n

\* A frame is popped; what lies below a frame that is no callback runs script.
LEMMA PopFacts ==
  ASSUME NEW s \in Seq(FrameType), s # <<>>, NEW bottom, Shape(s, bottom), FramesOK(s)
  PROVE  /\ Front(s) \in Seq(FrameType)
         /\ Shape(Front(s), bottom)
         /\ FramesOK(Front(s))
         /\ Cardinality(ScriptFrames(Front(s)))
              = Cardinality(ScriptFrames(s)) - (IF RunsScript(Last(s)) THEN 1 ELSE 0)
         /\ Last(s).kind # "callback" /\ Len(s) > 1 =>
              Front(s) # <<>> /\ RunsScript(Last(Front(s)))
<1>1. PICK r \in Seq(FrameType) : r = Front(s)
  BY FrontFacts
<1>2. /\ Len(r) = Len(s) - 1 /\ Len(s) \in Nat \ {0}
      /\ \A i \in 1 .. Len(r) : r[i] = s[i]
  BY <1>1, FrontFacts
<1>3. Shape(r, bottom) /\ FramesOK(r)
  BY <1>2 DEF Shape, FramesOK
<1>4. Cardinality(ScriptFrames(r))
        = Cardinality(ScriptFrames(s)) - (IF RunsScript(Last(s)) THEN 1 ELSE 0)
  <2>1. CASE RunsScript(Last(s))
    <3>1. ScriptFrames(r) = ScriptFrames(s) \ {Len(s)} /\ Len(s) \in ScriptFrames(s)
      BY <1>2, <2>1 DEF ScriptFrames, Last
    <3> QED
      BY <2>1, <3>1, ScriptFramesAreFinite, FS_RemoveElement
  <2>2. CASE ~RunsScript(Last(s))
    <3>1. ScriptFrames(r) = ScriptFrames(s)
      BY <1>2, <2>2 DEF ScriptFrames, Last
    <3> QED
      BY <2>2, <3>1, ScriptFramesAreFinite
  <2> QED
    BY <2>1, <2>2
<1>5. ASSUME Last(s).kind # "callback", Len(s) > 1
      PROVE  r # <<>> /\ RunsScript(Last(r))
  <2>1. r # <<>> /\ Last(r) = s[Len(s) - 1]
    BY <1>2, <1>5 DEF Last
  <2>2. s[Len(s) - 1].kind # "native"
    BY <1>2, <1>5 DEF Shape, Last
  <2> QED
    BY <2>1, <2>2 DEF RunsScript
<1> QED
  BY <1>1, <1>3, <1>4, <1>5

\* A try is entered or left: only "catches" of the last frame changes.
LEMMA MarkFacts ==
  ASSUME NEW s \in Seq(FrameType), s # <<>>, NEW bottom, Shape(s, bottom), FramesOK(s),
         NEW b \in BOOLEAN
  PROVE  LET r == [s EXCEPT ![Len(s)].catches = b]
         IN /\ r \in Seq(FrameType) /\ r # <<>> /\ Last(r).kind = Last(s).kind
            /\ Shape(r, bottom)
            /\ FramesOK(r)
            /\ ScriptFrames(r) = ScriptFrames(s)
<1>1. PICK r : r = [s EXCEPT ![Len(s)].catches = b]
  OBVIOUS
<1>2. /\ DOMAIN r = 1 .. Len(s) /\ Len(s) \in Nat \ {0}
      /\ r[Len(s)] = [s[Len(s)] EXCEPT !.catches = b]
      /\ \A i \in 1 .. Len(s) : i # Len(s) => r[i] = s[i]
  BY <1>1
<1>3. \A i \in 1 .. Len(s) : s[i] \in FrameType
  OBVIOUS
<1>4. /\ r[Len(s)] \in FrameType
      /\ r[Len(s)].kind = s[Len(s)].kind /\ r[Len(s)].slot = s[Len(s)].slot
      /\ r[Len(s)].version = s[Len(s)].version /\ r[Len(s)].args = s[Len(s)].args
  <2>1. s[Len(s)] \in FrameType
    BY <1>2, <1>3
  <2> QED
    BY <1>2, <2>1 DEF FrameType
<1>5. \A i \in 1 .. Len(s) :
        /\ r[i] \in FrameType
        /\ r[i].kind = s[i].kind /\ r[i].slot = s[i].slot
        /\ r[i].version = s[i].version /\ r[i].args = s[i].args
  BY <1>2, <1>3, <1>4
<1>6. r \in Seq(FrameType) /\ Len(r) = Len(s)
  <2>1. r \in [1 .. Len(s) -> FrameType]
    BY <1>1, <1>5
  <2> QED
    BY <1>2, <2>1
<1>7. r # <<>> /\ Last(r).kind = Last(s).kind
  BY <1>2, <1>5, <1>6 DEF Last
<1>8. Shape(r, bottom)
  <2> SUFFICES ASSUME NEW i \in 1 .. Len(s)
               PROVE  IF i = 1 THEN r[i].kind = bottom
                      ELSE r[i].kind \in Upper /\ (r[i].kind = "callback" <=> r[i - 1].kind = "native")
    BY <1>6 DEF Shape
  <2>1. i # 1 => i - 1 \in 1 .. Len(s)
    BY <1>2
  <2> QED
    BY <1>5, <2>1 DEF Shape
<1>9. FramesOK(r)
  BY <1>5, <1>6 DEF FramesOK, FrameOK
<1>10. ScriptFrames(r) = ScriptFrames(s)
  BY <1>5, <1>6 DEF ScriptFrames, RunsScript
<1> QED
  BY <1>1, <1>6, <1>7, <1>8, <1>9, <1>10

-----------------------------------------------------------------------------
(* Steps of the table, and of one thread.                                    *)

\* The table's invariant, for steps of the table among others.
LEMMA TableStepKeepsInv == TableInv /\ [TableNext]_tableVars => TableInv'
<1> SUFFICES ASSUME TableInv, [TableNext]_tableVars PROVE TableInv'
  OBVIOUS
<1>1. CASE UNCHANGED tableVars
  BY <1>1 DEF tableVars, TableInv, TableTypeOK, SlotsBelongToOneName, HasSlot,
     NamedSlotsAreReady, InstallingOwnSlot, FreeSlotsAreEmpty,
     SlotsPublishOwnFunction, TrampolinesHaveVersions
<1> QED
  BY <1>1, ReserveSlotKeepsTableInv, PublishVersionKeepsTableInv, FunctionAddressKeepsTableInv
  DEF TableNext

\* What a frame runs is neither moved nor renamed.
LEMMA FramesStay ==
  ASSUME TableInv, [TableNext]_tableVars, NEW s, FramesOK(s)
  PROVE  FramesOK(s)'
<1>1. functionVersions \in Seq(Version) /\ functionCount \in 0 .. SlotLimit
  BY DEF TableInv, TableTypeOK
<1>2. /\ Len(functionVersions') >= Len(functionVersions) /\ Len(functionVersions') \in Nat
      /\ \A i \in 1 .. Len(functionVersions) : functionVersions'[i] = functionVersions[i]
  <2>1. CASE PublishVersion
    <3>1. installing.version \in Version
      BY <2>1 DEF PublishVersion, TableInv, TableTypeOK, Installation
    <3> QED
      BY <1>1, <2>1, <3>1, AppendProperties DEF PublishVersion
  <2>2. CASE UNCHANGED functionVersions
    BY <1>1, <2>2
  <2> QED
    BY <2>1, <2>2 DEF TableNext, ReserveSlot, FunctionAddress, tableVars
<1>3. /\ functionCount' >= functionCount
      /\ \A i \in Slots : i < functionCount => slotName'[i] = slotName[i]
  <2>1. ASSUME NEW n \in Names, NEW k \in Arities, ReserveSlot(n, k), ~HasSlot(n)
        PROVE  /\ functionCount' >= functionCount
               /\ \A i \in Slots : i < functionCount => slotName'[i] = slotName[i]
    BY <1>1, <2>1, SlotLimitIsNat DEF ReserveSlot, TableInv, TableTypeOK, Slots
  <2>2. CASE UNCHANGED <<functionCount, slotName>>
    BY <1>1, <2>2, SlotLimitIsNat
  <2> QED
    BY <2>1, <2>2 DEF TableNext, ReserveSlot, PublishVersion, FunctionAddress, tableVars
<1>4. ASSUME NEW f, FrameOK(f) PROVE FrameOK(f)'
  <2> SUFFICES ASSUME f.kind \in {"script", "callback"} PROVE FrameOK(f)'
    BY DEF FrameOK
  <2>1. /\ f.slot \in Slots /\ f.slot < functionCount
        /\ f.version \in 1 .. Len(functionVersions)
        /\ functionVersions[f.version].name = slotName[f.slot]
        /\ functionVersions[f.version].arity = f.args
    BY <1>4 DEF FrameOK
  <2>2. f.slot < functionCount' /\ f.version \in 1 .. Len(functionVersions')
    <3>1. functionCount' \in Nat /\ f.slot \in Nat
      BY <2>1, TableStepKeepsInv, SlotLimitIsNat DEF TableInv, TableTypeOK, Slots
    <3> QED
      BY <1>1, <1>2, <1>3, <2>1, <3>1, SlotLimitIsNat
  <2> QED
    BY <1>2, <1>3, <2>1, <2>2 DEF FrameOK
<1> QED
  BY <1>4 DEF FramesOK

\* One thread goes on, beside steps of the table.
LEMMA ThreadStep ==
  ASSUME InvocationInv, [TableNext]_tableVars, NEW t \in Threads,
         NEW s \in Seq(FrameType), NEW k \in FlightType, NEW l \in LookupType \cup {NoLookup},
         NEW d \in Int,
         stack' = [stack EXCEPT ![t] = s], flight' = [flight EXCEPT ![t] = k],
         lookup' = [lookup EXCEPT ![t] = l], depth' = [depth EXCEPT ![t] = d],
         Shape(s, Bottom(t)), FramesOK(s), d = Cardinality(ScriptFrames(s)),
         FlightOK(s, k), LookupOK(s, k, l),
         UNCHANGED <<active, alive>>
  PROVE  InvocationInv'
<1>1. /\ TableInv /\ ThreadVarsOK
      /\ \A u \in Threads : ThreadOK(u)
  BY DEF InvocationInv
<1>2. TableInv'
  BY <1>1, TableStepKeepsInv
<1>3. ThreadVarsOK'
  BY <1>1 DEF ThreadVarsOK
<1>4. /\ stack'[t] = s /\ flight'[t] = k /\ lookup'[t] = l /\ depth'[t] = d
      /\ \A u \in Threads \ {t} : /\ stack'[u] = stack[u] /\ flight'[u] = flight[u]
                                  /\ lookup'[u] = lookup[u] /\ depth'[u] = depth[u]
  BY <1>1 DEF ThreadVarsOK
<1>5. ASSUME NEW u \in Threads PROVE ThreadOK(u)'
  <2>1. PICK r : r = stack'[u]
    OBVIOUS
  <2>2. /\ Shape(r, Bottom(u)) /\ FramesOK(r)
        /\ depth'[u] = Cardinality(ScriptFrames(r))
        /\ FlightOK(r, flight'[u]) /\ LookupOK(r, flight'[u], lookup'[u])
    <3>1. CASE u = t
      BY <1>4, <2>1, <3>1
    <3>2. CASE u # t
      <4>1. ThreadOK(u)
        BY <1>1
      <4> QED
        BY <1>4, <2>1, <3>2, <4>1 DEF ThreadOK
    <3> QED
      BY <3>1, <3>2
  <2>3. FramesOK(r)'
    BY <1>1, <2>2, FramesStay
  <2>4. FramesOK(stack[u])'
    BY <2>1, <2>3 DEF FramesOK, FrameOK
  <2> QED
    BY <2>1, <2>2, <2>4 DEF ThreadOK, Shape, ScriptFrames, RunsScript, FlightOK, LookupOK, Bottom
<1> QED
  BY <1>2, <1>3, <1>5 DEF InvocationInv

\* No thread goes on.
LEMMA TableStep ==
  ASSUME InvocationInv, [TableNext]_tableVars, UNCHANGED threadVars,
         active' \in BOOLEAN, alive' \in BOOLEAN
  PROVE  InvocationInv'
<1>1. /\ TableInv /\ ThreadVarsOK
      /\ \A u \in Threads : ThreadOK(u)
  BY DEF InvocationInv
<1>2. TableInv'
  BY <1>1, TableStepKeepsInv
<1>3. ThreadVarsOK'
  BY <1>1 DEF ThreadVarsOK, threadVars
<1>4. ASSUME NEW u \in Threads PROVE ThreadOK(u)'
  <2>1. PICK r : r = stack[u]
    OBVIOUS
  <2>2. ThreadOK(u) /\ FramesOK(r)
    BY <1>1, <2>1 DEF ThreadOK
  <2>3. FramesOK(r)'
    BY <1>1, <2>2, FramesStay
  <2>4. FramesOK(stack[u])'
    BY <2>1, <2>3 DEF FramesOK, FrameOK, threadVars
  <2> QED
    BY <2>2, <2>4
    DEF ThreadOK, Shape, ScriptFrames, RunsScript, FlightOK, LookupOK, Bottom, threadVars
<1> QED
  BY <1>2, <1>3, <1>4 DEF InvocationInv

-----------------------------------------------------------------------------
(* The actions.                                                              *)

\* What is known of a thread before it goes on.
LEMMA ThreadFacts ==
  ASSUME InvocationInv, NEW t \in Threads
  PROVE  /\ stack[t] \in Seq(FrameType) /\ flight[t] \in FlightType /\ depth[t] \in Int
         /\ lookup[t] \in LookupType \cup {NoLookup}
         /\ Shape(stack[t], Bottom(t)) /\ FramesOK(stack[t])
         /\ depth[t] = Cardinality(ScriptFrames(stack[t]))
         /\ FlightOK(stack[t], flight[t]) /\ LookupOK(stack[t], flight[t], lookup[t])
         /\ stack[t] # <<>> => Last(stack[t]) \in FrameType
         /\ flight = [flight EXCEPT ![t] = flight[t]]
         /\ lookup = [lookup EXCEPT ![t] = lookup[t]]
         /\ stack = [stack EXCEPT ![t] = stack[t]]
         /\ depth = [depth EXCEPT ![t] = depth[t]]
<1>1. stack[t] # <<>> => Last(stack[t]) \in FrameType
  BY FrontFacts DEF InvocationInv, ThreadVarsOK, Last
<1> QED
  BY <1>1 DEF InvocationInv, ThreadVarsOK, ThreadOK

\* Frames of modules and of native code run no function.
LEMMA PlainFrames ==
  \A kind \in {"module", "native"} :
    Plain(kind) \in FrameType /\ Plain(kind).kind = kind /\ FrameOK(Plain(kind))
BY DEF Plain, FrameType, Kinds, FrameOK, NoVersion

\* A thread pushes a frame, in script code or in native code.
LEMMA PushStep ==
  ASSUME InvocationInv, [TableNext]_tableVars, NEW t \in Threads, NEW f \in FrameType, FrameOK(f),
         stack[t] = <<>> => f.kind = Bottom(t),
         stack[t] # <<>> =>
           f.kind \in Upper /\ (f.kind = "callback" <=> Last(stack[t]).kind = "native"),
         flight[t] = "none",
         Push(t, f), IF RunsScript(f) THEN Attach(t) ELSE UNCHANGED depth,
         lookup' = [lookup EXCEPT ![t] = NoLookup],
         UNCHANGED <<flight, active, alive>>
  PROVE  InvocationInv'
<1> DEFINE s == Append(stack[t], f)
           d == depth[t] + (IF RunsScript(f) THEN 1 ELSE 0)
<1>1. /\ s \in Seq(FrameType) /\ s # <<>> /\ Last(s) = f
      /\ Shape(s, Bottom(t)) /\ FramesOK(s)
      /\ Cardinality(ScriptFrames(s))
           = Cardinality(ScriptFrames(stack[t])) + (IF RunsScript(f) THEN 1 ELSE 0)
  BY ThreadFacts, PushFacts
<1>2. d \in Int /\ d = Cardinality(ScriptFrames(s))
  BY <1>1, ThreadFacts
<1>3. stack' = [stack EXCEPT ![t] = s] /\ flight' = [flight EXCEPT ![t] = "none"]
  BY ThreadFacts DEF Push
<1>4. depth' = [depth EXCEPT ![t] = d]
  BY ThreadFacts DEF Attach
<1>5. FlightOK(s, "none") /\ LookupOK(s, "none", NoLookup)
  BY DEF FlightOK, LookupOK
<1> HIDE DEF s, d
<1> QED
  BY <1>1, <1>2, <1>3, <1>4, <1>5, ThreadStep DEF FlightType

\* A thread pops a frame.
LEMMA PopStep ==
  ASSUME InvocationInv, UNCHANGED tableVars, NEW t \in Threads, stack[t] # <<>>,
         NEW k \in FlightType, flight' = [flight EXCEPT ![t] = k],
         k # "none" => Last(stack[t]).kind # "callback" /\ Len(stack[t]) > 1,
         Pop(t), IF RunsScript(Last(stack[t])) THEN Detach(t) ELSE UNCHANGED depth,
         lookup[t] = NoLookup, UNCHANGED <<lookup, active, alive>>
  PROVE  InvocationInv'
<1> DEFINE s == Front(stack[t])
           d == depth[t] - (IF RunsScript(Last(stack[t])) THEN 1 ELSE 0)
<1>1. /\ s \in Seq(FrameType)
      /\ Shape(s, Bottom(t)) /\ FramesOK(s)
      /\ Cardinality(ScriptFrames(s))
           = Cardinality(ScriptFrames(stack[t])) - (IF RunsScript(Last(stack[t])) THEN 1 ELSE 0)
      /\ k # "none" => s # <<>> /\ RunsScript(Last(s))
  BY ThreadFacts, PopFacts
<1>2. d \in Int /\ d = Cardinality(ScriptFrames(s))
  BY <1>1, ThreadFacts
<1>3. stack' = [stack EXCEPT ![t] = s] /\ lookup' = [lookup EXCEPT ![t] = NoLookup]
  BY ThreadFacts DEF Pop
<1>4. depth' = [depth EXCEPT ![t] = d]
  BY ThreadFacts DEF Detach
<1>5. FlightOK(s, k) /\ LookupOK(s, k, NoLookup)
  BY <1>1 DEF FlightOK, LookupOK
<1> HIDE DEF s, d
<1> QED
  BY <1>1, <1>2, <1>3, <1>4, <1>5, ThreadStep

\* A thread finds a slot, raises or catches an exception, where it is.
LEMMA StayStep ==
  ASSUME InvocationInv, [TableNext]_tableVars, NEW t \in Threads, stack[t] # <<>>,
         NEW k \in FlightType, NEW l \in LookupType \cup {NoLookup},
         flight' = [flight EXCEPT ![t] = k], lookup' = [lookup EXCEPT ![t] = l],
         FlightOK(stack[t], k), LookupOK(stack[t], k, l),
         UNCHANGED <<stack, depth, active, alive>>
  PROVE  InvocationInv'
BY ThreadFacts, ThreadStep

\* A thread enters or leaves a try, or catches.
LEMMA MarkStep ==
  ASSUME InvocationInv, UNCHANGED tableVars, NEW t \in Threads, stack[t] # <<>>,
         NEW b \in BOOLEAN, stack' = [stack EXCEPT ![t][Len(stack[t])].catches = b],
         flight' = [flight EXCEPT ![t] = "none"],
         lookup[t] = NoLookup, UNCHANGED <<lookup, depth, active, alive>>
  PROVE  InvocationInv'
<1> DEFINE s == [stack[t] EXCEPT ![Len(stack[t])].catches = b]
<1>1. /\ s \in Seq(FrameType)
      /\ Shape(s, Bottom(t)) /\ FramesOK(s) /\ ScriptFrames(s) = ScriptFrames(stack[t])
  BY ThreadFacts, MarkFacts
<1>2. stack' = [stack EXCEPT ![t] = s]
  OBVIOUS
<1>3. FlightOK(s, "none") /\ LookupOK(s, "none", NoLookup)
  BY DEF FlightOK, LookupOK
<1>4. depth[t] = Cardinality(ScriptFrames(s)) /\ depth[t] \in Int
  BY <1>1, ThreadFacts
<1> HIDE DEF s
<1> QED
  BY <1>1, <1>2, <1>3, <1>4, ThreadFacts, ThreadStep DEF FlightType

\* A thread in script code, or in native code that a script called.
LEMMA InScriptFacts ==
  ASSUME InvocationInv, NEW t \in Threads, InScript(t)
  PROVE  /\ stack[t] # <<>> /\ RunsScript(Last(stack[t])) /\ Last(stack[t]) = Top(t)
         /\ flight[t] = "none" /\ lookup[t] = NoLookup
BY DEF InScript, Top

\* Native code on the main thread was called by a script.
LEMMA InNativeFacts ==
  ASSUME InvocationInv, NEW t \in Threads, InNative(t)
  PROVE  /\ stack[t] # <<>> /\ Last(stack[t]) = Top(t)
         /\ Last(stack[t]).kind = "native" /\ ~RunsScript(Last(stack[t]))
         /\ flight[t] = "none" /\ lookup[t] = NoLookup
         /\ t = Main => Len(stack[t]) > 1
<1>1. /\ stack[t] # <<>> /\ Last(stack[t]) = Top(t)
      /\ Last(stack[t]).kind = "native" /\ lookup[t] = NoLookup
  BY DEF InNative, Top
<1>2. ~RunsScript(Last(stack[t]))
  BY <1>1 DEF RunsScript
<1>3. flight[t] = "none"
  BY <1>1, <1>2, ThreadFacts DEF FlightOK
<1>4. ASSUME t = Main PROVE Len(stack[t]) > 1
  <2>1. Len(stack[t]) \in Nat \ {0} /\ 1 \in 1 .. Len(stack[t])
    BY <1>1, ThreadFacts, FrontFacts
  <2>2. stack[t][1].kind = "module"
    BY <1>4, <2>1, ThreadFacts DEF Shape, Bottom
  <2> QED
    BY <1>1, <2>1, <2>2 DEF Last
<1> QED
  BY <1>1, <1>2, <1>3, <1>4

\* The frame of a call of slot s, whose version is current.
LEMMA InvocationFrames ==
  ASSUME InvocationInv, NEW kind \in {"script", "callback"}, NEW s \in Slots, NEW args \in Nat,
         current[s] # NoVersion, functionVersions[current[s]].arity = args
  PROVE  /\ Invocation(kind, s, args) \in FrameType /\ Invocation(kind, s, args).kind = kind
         /\ FrameOK(Invocation(kind, s, args))
<1>1. TableInv /\ current[s] \in 1 .. Len(functionVersions)
  BY DEF InvocationInv, TableInv, TableTypeOK, NoVersion
<1>2. functionVersions[current[s]].name = slotName[s] /\ s < functionCount
  BY <1>1, SlotLimitIsNat
  DEF TableInv, TableTypeOK, SlotsPublishOwnFunction, FreeSlotsAreEmpty, Slots
<1> QED
  BY <1>1, <1>2 DEF Invocation, FrameType, Kinds, FrameOK

\* Modules, definitions and the end of main.
LEMMA MainKeepsInv ==
  ASSUME InvocationInv, MainNext
  PROVE  InvocationInv' /\ [TableNext]_tableVars
<1> USE MainIsThread
<1>1. CASE StartModule
  <2>1. stack[Main] = <<>> /\ active /\ UNCHANGED tableVars
    BY <1>1 DEF StartModule
  <2>2. flight[Main] = "none" /\ lookup[Main] = NoLookup
    BY <2>1, ThreadFacts DEF FlightOK, LookupOK
  <2>3. lookup' = [lookup EXCEPT ![Main] = NoLookup]
    BY <1>1, <2>2, ThreadFacts DEF StartModule
  <2> QED
    BY <1>1, <2>1, <2>2, <2>3, PlainFrames, PushStep
    DEF StartModule, RunsScript, Bottom, processVars
<1>2. ASSUME NEW n \in Names, NEW a \in Arities, DefineFunction(n, a)
      PROVE  InvocationInv' /\ [TableNext]_tableVars
  <2>1. /\ InScript(Main) /\ UNCHANGED <<stack, lookup, depth, active, alive>>
        /\ [TableNext]_tableVars
        /\ \/ flight' = [flight EXCEPT ![Main] = "none"]
           \/ flight' = [flight EXCEPT ![Main] = "error"]
    BY <1>2, InScriptFacts, ThreadFacts DEF DefineFunction, Raise, TableNext, processVars
  <2>2. /\ lookup' = [lookup EXCEPT ![Main] = NoLookup]
        /\ \A k : FlightOK(stack[Main], k) /\ LookupOK(stack[Main], k, NoLookup)
    BY <2>1, InScriptFacts, ThreadFacts DEF FlightOK, LookupOK
  <2> QED
    BY <2>1, <2>2, InScriptFacts, StayStep DEF FlightType
<1>3. CASE FinishDefinition
  <2>1. UNCHANGED <<active, alive>> /\ UNCHANGED threadVars /\ [TableNext]_tableVars
    BY <1>3 DEF FinishDefinition, TableNext, processVars
  <2> QED
    BY <2>1, TableStep DEF InvocationInv, ThreadVarsOK, threadVars
<1>4. CASE ClearActive \/ DestroyRuntime \/ ReturnFromMain
  <2>1. /\ UNCHANGED tableVars /\ UNCHANGED threadVars
        /\ active' \in BOOLEAN /\ alive' \in BOOLEAN
    BY <1>4 DEF ClearActive, DestroyRuntime, ReturnFromMain, InvocationInv, ThreadVarsOK
  <2> QED
    BY <2>1, TableStep
<1> QED
  BY <1>1, <1>2, <1>3, <1>4 DEF MainNext

\* Script code: calls, returns, tries and exceptions.
LEMMA ScriptKeepsInv ==
  ASSUME InvocationInv, NEW t \in Threads, ScriptNext(t)
  PROVE  InvocationInv' /\ [TableNext]_tableVars
<1> DEFINE Kept == InvocationInv' /\ [TableNext]_tableVars
<1>1. CASE Return(t)
  <2>1. InScript(t) /\ UNCHANGED tableVars
    BY <1>1 DEF Return
  <2>2. flight' = [flight EXCEPT ![t] = "none"]
    BY <1>1, <2>1, InScriptFacts, ThreadFacts DEF Return
  <2> QED
    BY <1>1, <2>1, <2>2, InScriptFacts, PopStep DEF Return, FlightType, processVars
<1>2. CASE CallVersion(t)
  <2> DEFINE s == lookup[t].slot
             args == lookup[t].args
  <2>1. /\ UNCHANGED <<tableVars, active, alive>>
        /\ lookup[t] # NoLookup /\ lookup[t].via = "script"
        /\ lookup' = [lookup EXCEPT ![t] = NoLookup]
    BY <1>2 DEF CallVersion, processVars
  <2>2. /\ s \in Slots /\ args \in Nat
        /\ flight[t] = "none" /\ stack[t] # <<>> /\ Last(stack[t]).kind # "native"
    BY <2>1, ThreadFacts DEF LookupType, LookupOK
  <2>3. CASE /\ current[s] # NoVersion /\ functionVersions[current[s]].arity = args
             /\ Push(t, Invocation("script", s, args)) /\ Attach(t) /\ UNCHANGED flight
    BY <2>1, <2>2, <2>3, InvocationFrames, PushStep DEF Upper, RunsScript
  <2>4. CASE Raise(t, "error") /\ UNCHANGED <<stack, depth>>
    <3>1. FlightOK(stack[t], "error") /\ LookupOK(stack[t], "error", NoLookup)
      BY <2>2 DEF FlightOK, LookupOK, RunsScript
    <3> QED
      BY <2>1, <2>2, <2>4, <3>1, StayStep DEF Raise, FlightType
  <2> QED
    BY <1>2, <2>3, <2>4 DEF CallVersion
<1>3. CASE EnterTry(t) \/ LeaveTry(t)
  <2>1. /\ InScript(t) /\ UNCHANGED <<tableVars, lookup, depth, active, alive>>
        /\ \E b \in BOOLEAN : stack' = [stack EXCEPT ![t][Len(stack[t])].catches = b]
        /\ flight' = flight
    BY <1>3 DEF EnterTry, LeaveTry, processVars
  <2>2. flight' = [flight EXCEPT ![t] = "none"]
    BY <2>1, InScriptFacts, ThreadFacts
  <2> QED
    BY <2>1, <2>2, InScriptFacts, MarkStep
<1>4. CASE RaiseException(t)
  <2>1. InScript(t) /\ UNCHANGED <<tableVars, stack, lookup, depth, active, alive>>
    BY <1>4 DEF RaiseException, processVars
  <2>2. PICK k \in {"fault", "error", "raw"} : flight' = [flight EXCEPT ![t] = k]
    BY <1>4 DEF RaiseException, Raise
  <2>3. /\ lookup' = [lookup EXCEPT ![t] = NoLookup]
        /\ FlightOK(stack[t], k) /\ LookupOK(stack[t], k, NoLookup)
    BY <2>1, InScriptFacts, ThreadFacts DEF FlightOK, LookupOK
  <2> QED
    BY <2>1, <2>2, <2>3, InScriptFacts, StayStep DEF FlightType
<1>5. CASE Quit(t)
  <2>1. UNCHANGED <<active, alive>> /\ UNCHANGED threadVars /\ UNCHANGED tableVars
    BY <1>5 DEF Quit
  <2> QED
    BY <2>1, TableStep DEF InvocationInv, ThreadVarsOK, threadVars
<1>6. CASE CallNative(t)
  <2>1. InScript(t) /\ UNCHANGED tableVars /\ Last(stack[t]).kind # "native"
    BY <1>6, InScriptFacts DEF CallNative, RunsScript
  <2>2. lookup' = [lookup EXCEPT ![t] = NoLookup]
    BY <1>6, <2>1, InScriptFacts, ThreadFacts DEF CallNative
  <2> QED
    BY <1>6, <2>1, <2>2, InScriptFacts, PlainFrames, PushStep
    DEF CallNative, Upper, RunsScript, processVars
<1>7. ASSUME NEW n \in Names, TakeAddress(t, n) PROVE Kept
  <2>1. UNCHANGED <<active, alive>> /\ UNCHANGED threadVars /\ [TableNext]_tableVars
    BY <1>7 DEF TakeAddress, TableNext, processVars
  <2> QED
    BY <2>1, TableStep DEF InvocationInv, ThreadVarsOK, threadVars
<1>8. ASSUME NEW n \in Names, FindSlot(t, n) PROVE Kept
  <2>1. /\ InScript(t) /\ HasSlot(n)
        /\ UNCHANGED <<tableVars, stack, flight, depth, active, alive>>
    BY <1>8 DEF FindSlot, processVars
  <2>2. PICK i \in 1 .. Len(functionVersions) :
          lookup' = [lookup EXCEPT ![t] = [via |-> "script", slot |-> functionNames[n],
                                           args |-> functionVersions[i].arity]]
    BY <1>8 DEF FindSlot
  <2>3. functionNames[n] \in Slots /\ functionVersions[i].arity \in Nat
    <3>1. functionVersions \in Seq(Version) /\ functionNames[n] \in Slots
      BY <2>1 DEF InvocationInv, TableInv, TableTypeOK, HasSlot
    <3>2. functionVersions[i] \in Version
      BY <3>1
    <3> QED
      BY <3>1, <3>2, AritiesAreNat DEF Version
  <2>4. PICK l \in LookupType : /\ l.via = "script"
                                /\ lookup' = [lookup EXCEPT ![t] = l]
    BY <2>2, <2>3 DEF LookupType
  <2>5. /\ flight' = [flight EXCEPT ![t] = "none"]
        /\ FlightOK(stack[t], "none") /\ LookupOK(stack[t], "none", l)
    BY <2>1, <2>4, InScriptFacts, ThreadFacts DEF FlightOK, LookupOK, RunsScript
  <2> QED
    BY <2>1, <2>4, <2>5, InScriptFacts, StayStep DEF FlightType
<1> QED
  BY <1>1, <1>2, <1>3, <1>4, <1>5, <1>6, <1>7, <1>8 DEF ScriptNext

\* Native code: returns, faults, threads and callbacks.
LEMMA NativeKeepsInv ==
  ASSUME InvocationInv, NEW t \in Threads, NativeNext(t)
  PROVE  InvocationInv' /\ [TableNext]_tableVars
<1> DEFINE Kept == InvocationInv' /\ [TableNext]_tableVars
<1>1. CASE NativeReturn(t)
  <2>1. InNative(t) /\ UNCHANGED tableVars
    BY <1>1 DEF NativeReturn
  <2>2. flight' = [flight EXCEPT ![t] = "none"]
    BY <1>1, <2>1, InNativeFacts, ThreadFacts DEF NativeReturn
  <2> QED
    BY <1>1, <2>1, <2>2, InNativeFacts, PopStep DEF NativeReturn, FlightType, processVars
<1>2. CASE NativeFaults(t)
  <2>1. InNative(t) /\ UNCHANGED tableVars
    BY <1>2 DEF NativeFaults
  <2>2. Len(stack[t]) > 1
    BY <1>2, <2>1, InNativeFacts DEF NativeFaults
  <2> QED
    BY <1>2, <2>1, <2>2, InNativeFacts, PopStep DEF NativeFaults, Raise, FlightType, processVars
<1>3. CASE StartThread(t)
  <2>1. t # Main /\ stack[t] = <<>> /\ UNCHANGED tableVars
    BY <1>3 DEF StartThread
  <2>2. PICK u \in Threads \ {t} : InNative(u)
    BY <1>3 DEF StartThread
  <2>3. stack[u] # <<>>
    BY <2>2 DEF InNative
  <2>4. flight[t] = "none" /\ lookup[t] = NoLookup
    BY <2>1, ThreadFacts DEF FlightOK, LookupOK
  <2>5. lookup' = [lookup EXCEPT ![t] = NoLookup]
    BY <1>3, <2>4, ThreadFacts DEF StartThread
  <2> QED
    BY <1>3, <2>1, <2>3, <2>4, <2>5, PlainFrames, PushStep
    DEF StartThread, RunsScript, Bottom, processVars
<1>4. CASE EndThread(t)
  <2>1. /\ InNative(t) /\ Len(stack[t]) = 1 /\ stack' = [stack EXCEPT ![t] = <<>>]
        /\ UNCHANGED <<tableVars, lookup, flight, depth, active, alive>>
    BY <1>4 DEF EndThread, processVars
  <2>2. ScriptFrames(stack[t]) = {} /\ ScriptFrames(<<>>) = {}
    BY <2>1, InNativeFacts DEF ScriptFrames, Last
  <2>3. depth[t] = Cardinality(ScriptFrames(<<>>)) /\ depth[t] \in Int
    BY <2>2, ThreadFacts
  <2>4. /\ flight' = [flight EXCEPT ![t] = "none"]
        /\ lookup' = [lookup EXCEPT ![t] = NoLookup]
        /\ depth' = [depth EXCEPT ![t] = depth[t]]
    BY <2>1, InNativeFacts, ThreadFacts
  <2>5. /\ <<>> \in Seq(FrameType) /\ Shape(<<>>, Bottom(t)) /\ FramesOK(<<>>)
        /\ FlightOK(<<>>, "none") /\ LookupOK(<<>>, "none", NoLookup)
    BY DEF Shape, FramesOK, FlightOK, LookupOK
  <2> QED
    BY <2>1, <2>3, <2>4, <2>5, InNativeFacts, ThreadStep DEF FlightType
<1>5. ASSUME NEW s \in Slots, EnterCallback(t, s) PROVE Kept
  <2>1. /\ InNative(t) /\ s \in trampolines
        /\ UNCHANGED <<tableVars, stack, flight, depth, active, alive>>
    BY <1>5 DEF EnterCallback
  <2>2. PICK l \in LookupType \cup {NoLookup} :
          /\ l = NoLookup \/ l.via = "callback"
          /\ lookup' = [lookup EXCEPT ![t] = l]
    <3>1. CASE UNCHANGED lookup
      BY <2>1, <3>1, InNativeFacts, ThreadFacts
    <3>2. CASE lookup' = [lookup EXCEPT ![t] = [via |-> "callback", slot |-> s, args |-> 0]]
      BY <3>2 DEF LookupType
    <3> QED
      BY <1>5, <3>1, <3>2 DEF EnterCallback
  <2>3. /\ flight' = [flight EXCEPT ![t] = "none"]
        /\ FlightOK(stack[t], "none") /\ LookupOK(stack[t], "none", l)
    BY <2>1, <2>2, InNativeFacts, ThreadFacts DEF FlightOK, LookupOK
  <2> QED
    BY <2>1, <2>2, <2>3, InNativeFacts, StayStep DEF FlightType
<1>6. CASE DispatchCallback(t)
  <2> DEFINE s == lookup[t].slot
             args == functionVersions[current[s]].arity
  <2>1. /\ UNCHANGED <<tableVars, flight, active, alive>>
        /\ lookup[t] # NoLookup /\ lookup[t].via = "callback"
        /\ lookup' = [lookup EXCEPT ![t] = NoLookup]
    BY <1>6 DEF DispatchCallback
  <2>2. /\ s \in Slots
        /\ flight[t] = "none" /\ stack[t] # <<>> /\ Last(stack[t]).kind = "native"
    BY <2>1, ThreadFacts DEF LookupType, LookupOK
  <2>3. CASE /\ current[s] # NoVersion
             /\ Push(t, Invocation("callback", s, args)) /\ Attach(t)
    <3>1. args \in Nat
      <4>1. functionVersions \in Seq(Version) /\ current[s] \in 1 .. Len(functionVersions)
        BY <2>2, <2>3 DEF InvocationInv, TableInv, TableTypeOK, NoVersion
      <4>2. functionVersions[current[s]] \in Version
        BY <4>1
      <4> QED
        BY <4>2, AritiesAreNat DEF Version
    <3> HIDE DEF args
    <3>2. args = functionVersions[current[s]].arity
      BY DEF args
    <3> QED
      BY <2>1, <2>2, <2>3, <3>1, <3>2, InvocationFrames, PushStep DEF Upper, RunsScript
  <2>4. CASE UNCHANGED <<stack, depth>>
    <3>1. FlightOK(stack[t], "none") /\ LookupOK(stack[t], "none", NoLookup)
      BY DEF FlightOK, LookupOK
    <3>2. flight' = [flight EXCEPT ![t] = "none"]
      BY <2>1, <2>2, ThreadFacts
    <3> QED
      BY <2>1, <2>2, <2>4, <3>1, <3>2, StayStep DEF FlightType
  <2> QED
    BY <1>6, <2>3, <2>4 DEF DispatchCallback
<1> QED
  BY <1>1, <1>2, <1>3, <1>4, <1>5, <1>6 DEF NativeNext

\* Exceptions: caught in a try, or propagated one frame further.
LEMMA UnwindKeepsInv ==
  ASSUME InvocationInv, NEW t \in Threads, Unwind(t)
  PROVE  InvocationInv' /\ [TableNext]_tableVars
<1>1. /\ flight[t] # "none" /\ UNCHANGED <<tableVars, lookup, active, alive>>
  BY DEF Unwind, Catch, UnwindScript, UnwindModule, UnwindCallback, Uncaught, CanUnwind, processVars
<1>2. /\ stack[t] # <<>> /\ RunsScript(Last(stack[t])) /\ Last(stack[t]) = Top(t)
      /\ lookup[t] = NoLookup
  BY <1>1, ThreadFacts DEF FlightOK, LookupOK, Top
<1>3. CASE Catch(t)
  BY <1>1, <1>2, <1>3, MarkStep DEF Catch, Raise
<1>4. CASE UnwindScript(t)
  <2>1. Last(stack[t]).kind = "script"
    BY <1>2, <1>4 DEF UnwindScript
  <2>2. Len(stack[t]) > 1
    <3>1. Len(stack[t]) \in Nat \ {0} /\ Len(stack[t]) \in 1 .. Len(stack[t])
      BY <1>2, ThreadFacts, FrontFacts
    <3>2. 1 \in 1 .. Len(stack[t]) /\ stack[t][1].kind = Bottom(t)
      <4>1. 1 \in 1 .. Len(stack[t]) /\ Shape(stack[t], Bottom(t))
        BY <3>1, ThreadFacts
      <4> QED
        BY <4>1 DEF Shape
    <3>3. Len(stack[t]) # 1
      <4>1. stack[t][1].kind # "script"
        BY <3>2 DEF Bottom
      <4>2. stack[t][Len(stack[t])].kind = "script"
        BY <2>1 DEF Last
      <4> QED
        BY <4>1, <4>2
    <3>4. \A n \in Nat \ {0} : n # 1 => n > 1
      OBVIOUS
    <3> QED
      BY <3>1, <3>3, <3>4
  <2>3. flight' = [flight EXCEPT ![t] = flight[t]] /\ flight[t] \in FlightType
    BY <1>4, ThreadFacts DEF UnwindScript
  <2> QED
    BY <1>1, <1>2, <1>4, <2>1, <2>2, <2>3, PopStep DEF UnwindScript
<1>5. CASE UnwindModule(t) \/ UnwindCallback(t)
  BY <1>1, <1>2, <1>5, PopStep DEF UnwindModule, UnwindCallback, Raise, FlightType
<1> QED
  BY <1>3, <1>4, <1>5 DEF Unwind

\* InvocationInv is inductive, and every step is one of the table or leaves it alone.
LEMMA NextKeepsInvocationInv ==
  InvocationInv /\ [Next]_vars => InvocationInv' /\ [TableNext]_tableVars
<1> SUFFICES ASSUME InvocationInv, [Next]_vars PROVE InvocationInv' /\ [TableNext]_tableVars
  OBVIOUS
<1>1. CASE UNCHANGED vars
  <2>1. UNCHANGED <<active, alive>> /\ UNCHANGED threadVars /\ UNCHANGED tableVars
    BY <1>1 DEF vars, processVars
  <2> QED
    BY <2>1, TableStep DEF InvocationInv, ThreadVarsOK, threadVars
<1> QED
  BY <1>1, MainKeepsInv, ScriptKeepsInv, NativeKeepsInv, UnwindKeepsInv DEF Next, Exited

\* At first every stack is empty.
LEMMA InitGivesInvocationInv == Init => InvocationInv
<1> SUFFICES ASSUME Init PROVE InvocationInv
  OBVIOUS
<1>1. TableInv
  BY InitEstablishesTableInv DEF Init
<1>2. ThreadVarsOK
  BY DEF Init, ThreadVarsOK, FlightType
<1>3. ASSUME NEW t \in Threads PROVE ThreadOK(t)
  <2>1. stack[t] = <<>> /\ depth[t] = 0 /\ flight[t] = "none" /\ lookup[t] = NoLookup
    BY DEF Init
  <2>2. ScriptFrames(<<>>) = {}
    BY DEF ScriptFrames
  <2>3. Cardinality(ScriptFrames(stack[t])) = 0
    BY <2>1, <2>2, FS_EmptySet
  <2> QED
    BY <2>1, <2>3 DEF ThreadOK, Shape, FramesOK, FlightOK, LookupOK
<1> QED
  BY <1>1, <1>2, <1>3 DEF InvocationInv

\* InvocationInv holds in every reachable state.
LEMMA InvocationInvHolds == Spec => []InvocationInv
BY InitGivesInvocationInv, NextKeepsInvocationInv, PTL DEF Spec

-----------------------------------------------------------------------------
(* The theorems.                                                             *)

\* The steps of the threads are steps of the table they share, or leave it alone.
LEMMA InvocationsUseTheTable == Spec => TableSpec
<1>1. Init => TableInit
  BY DEF Init
<1> QED
  BY <1>1, InvocationInvHolds, NextKeepsInvocationInv, PTL DEF Spec, TableSpec

\* Whatever threads and callbacks do, the function table they share implements the
\* abstract map of named functions: a definition takes effect at once, and an
\* address never changes (runtime.cpp 193-234).
THEOREM InvocationsImplementNamedFunctions == Spec => ImplementsNamedFunctions
BY InvocationsUseTheTable, TableImplementsNamedFunctions

\* invocation_depth counts the script frames of its thread (interpreter.cpp
\* 33-47, ThreadInvocationScope): exceptions, callbacks and faults in native code do
\* not make it drift, however deep they nest.
THEOREM DepthsAlwaysCountFrames == Spec => []DepthCountsFrames
<1>1. InvocationInv => DepthCountsFrames
  <2> SUFFICES ASSUME InvocationInv, NEW t \in Threads
               PROVE  depth[t] = Cardinality({i \in DOMAIN stack[t] : RunsScript(stack[t][i])})
    BY DEF DepthCountsFrames
  <2>1. DOMAIN stack[t] = 1 .. Len(stack[t])
    BY ThreadFacts
  <2> QED
    BY <2>1, ThreadFacts DEF ScriptFrames
<1> QED
  BY <1>1, InvocationInvHolds, PTL

\* No exception is propagated into native code: a fault of native code is
\* raised in the script that called it, and what leaves a callback ends the
\* process (runtime.cpp 278-304).
THEOREM FaultsAlwaysStopAtNativeCode == Spec => []FaultsStopAtNativeCode
<1>1. InvocationInv => FaultsStopAtNativeCode
  BY ThreadFacts DEF FaultsStopAtNativeCode, FlightOK, Top
<1> QED
  BY <1>1, InvocationInvHolds, PTL

\* A running function keeps its body, name and parameters, whatever is redefined
\* meanwhile, on whichever thread (runtime.cpp 193-215, interpreter.cpp 551-555).
THEOREM FramesAlwaysRunTheirFunction == Spec => []FramesRunTheirFunction
<1>1. InvocationInv => FramesRunTheirFunction
  <2> SUFFICES ASSUME InvocationInv, NEW t \in Threads, NEW f \in Invoked(t)
               PROVE  /\ f.version \in 1 .. Len(functionVersions)
                      /\ functionVersions[f.version].name = slotName[f.slot]
                      /\ functionVersions[f.version].arity = f.args
    BY DEF FramesRunTheirFunction
  <2>1. PICK i \in 1 .. Len(stack[t]) : f = stack[t][i]
    BY ThreadFacts DEF Invoked, Frames, ToSet
  <2>2. FrameOK(f)
    BY <2>1, ThreadFacts DEF FramesOK
  <2> QED
    BY <2>2 DEF FrameOK, Invoked
<1> QED
  BY <1>1, InvocationInvHolds, PTL
=============================================================================
