---------------------------- MODULE TypeRegistry ----------------------------
(***************************************************************************)
(* TypeRegistry (types.hpp 43-70, types.cpp 105-191): the types of a       *)
(* Runtime.  An array type is made once for each element type and extent;  *)
(* aggregates are laid out in 32-bit arithmetic and are always new.        *)
(*                                                                         *)
(* make_array and make_runtime_array look the type up under mutex_, build  *)
(* it without, and look it up again before they add it: array extents are  *)
(* evaluated when the code runs (materialize_type), on any thread.         *)
(* make_aggregate is called by the checker, so on the main thread; its     *)
(* loop takes the mutex for one field at a time.                           *)
(*                                                                         *)
(* Names are left out: a type is its number, its place in types_.          *)
(***************************************************************************)
EXTENDS Integers, Sequences

CONSTANTS Threads,     \* OS threads
          Main,        \* the thread that checks modules
          Primitives,  \* the primitive types, which the constructor adds
          Extents,     \* array extents in scripts
          Packs,       \* pack values: 1, 2, 4, 8 and 16 in the code
          MaxWord,     \* largest size, 2^32 - 1 in the code
          MaxTypes,    \* bound: types
          MaxFields,   \* bound: fields of an aggregate
          Idle         \* no type is being made

ASSUME MainIsThread == Main \in Threads
ASSUME WordHoldsAlignments == MaxWord \in Nat /\ MaxWord >= 15
ASSUME BoundsAreNat == MaxTypes \in Nat /\ MaxFields \in Nat
ASSUME ExtentsAreNat == Extents \subseteq Nat
ASSUME PacksArePowers == Packs \subseteq {1, 2, 4, 8, 16}

Field == [type : Nat, offset : 0 .. MaxWord, size : 0 .. MaxWord, align : {1, 2, 4, 8, 16}]
Layout == [size : 0 .. MaxWord, align : {1, 2, 4, 8, 16}, fields : Seq(Field), exact : BOOLEAN]
TypeInfo == [kind : {"primitive", "array", "struct", "union"}, layout : Layout,
             element : Nat, count : Nat, sized : BOOLEAN]

Plain(size, align) == [size |-> size, align |-> align, fields |-> <<>>, exact |-> TRUE]
NoType == 0

ASSUME PrimitivesAreTypes ==
  /\ Primitives \in Seq(TypeInfo) /\ Len(Primitives) <= MaxTypes
  /\ \A i \in DOMAIN Primitives :
       /\ Primitives[i].kind = "primitive"
       /\ Primitives[i].layout.size % Primitives[i].layout.align = 0
ASSUME IdleIsNothing == Idle \notin Nat \X Nat

VARIABLES types,    \* types_
          arrays,   \* arrays_, and runtime_arrays_ as extent 0
          making,   \* thread -> the array type it did not find
          building  \* the aggregate that make_aggregate is laying out

typesVars == <<types, arrays, making, building>>

Ids == 1 .. MaxTypes
RuntimeSized == 0   \* make_array refuses extent 0
Counts == Extents \cup {RuntimeSized}
Keys == Ids \X Counts

TypeInfosOK ==
  /\ types \in Seq(TypeInfo) /\ Len(types) <= MaxTypes
  /\ arrays \in [Keys -> 0 .. Len(types)]
  /\ making \in [Threads -> Keys \cup {Idle}]
  /\ building # Idle => building \in [kind : {"struct", "union"}, pack : Packs, layout : Layout]

TypesInit ==
  /\ types = Primitives
  /\ arrays = [k \in Keys |-> NoType]
  /\ making = [t \in Threads |-> Idle]
  /\ building = Idle

-----------------------------------------------------------------------------
(* Arrays.                                                                   *)
MayMake(t) == making[t] = Idle /\ (t = Main => building = Idle)

\* "array type is too large".
TooLarge(e, n) ==
  types[e].sized /\ types[e].layout.size # 0 /\ n > MaxWord \div types[e].layout.size

\* make_array, or make_runtime_array for extent 0, up to the second lock.  A
\* type that is found is returned; one that is too large is an error.
LookUpArray(t, e, n) ==
  /\ MayMake(t) /\ Len(types) < MaxTypes
  /\ t # Main => n # RuntimeSized /\ types[e].sized
  /\ arrays[e, n] = NoType /\ ~TooLarge(e, n)
  /\ making' = [making EXCEPT ![t] = <<e, n>>]
  /\ UNCHANGED <<types, arrays, building>>

ArrayOf(e, n) ==
  LET sized == n # RuntimeSized /\ types[e].sized
  IN [kind |-> "array", element |-> e, count |-> n, sized |-> sized,
      layout |-> Plain(IF sized THEN types[e].layout.size * n ELSE 0, types[e].layout.align)]

\* Mutant of AddArray: the type is not looked up again.
AddArrayAnyway(t) ==
  /\ making[t] # Idle /\ Len(types) < MaxTypes
  /\ types' = Append(types, ArrayOf(making[t][1], making[t][2]))
  /\ arrays' = [arrays EXCEPT ![making[t]] = Len(types) + 1]
  /\ making' = [making EXCEPT ![t] = Idle]
  /\ UNCHANGED building

\* The rest: another thread may have added the type meanwhile.
AddArray(t) ==
  /\ making[t] # Idle
  /\ \/ arrays[making[t]] # NoType /\ UNCHANGED <<types, arrays>>
     \/ /\ arrays[making[t]] = NoType /\ Len(types) < MaxTypes
        /\ types' = Append(types, ArrayOf(making[t][1], making[t][2]))
        /\ arrays' = [arrays EXCEPT ![making[t]] = Len(types) + 1]
  /\ making' = [making EXCEPT ![t] = Idle]
  /\ UNCHANGED building

-----------------------------------------------------------------------------
(* Aggregates.                                                               *)
Smaller(a, b) == IF a < b THEN a ELSE b
Larger(a, b) == IF a < b THEN b ELSE a

\* Mutant of AlignUp: the sum is not cut.
AlignUpUncut(v, a) == (v + (a - 1)) - ((v + (a - 1)) % a)

\* align_up, for a power of two, with the sum of two words cut to a word.
AlignUp(v, a) ==
  LET sum == v + (a - 1)
      cut == IF sum > MaxWord THEN sum - MaxWord - 1 ELSE sum
  IN cut - (cut % a)

BeginAggregate(kind, pack) ==
  /\ making[Main] = Idle /\ building = Idle /\ Len(types) < MaxTypes
  /\ building' = [kind |-> kind, pack |-> pack, layout |-> Plain(0, 1)]
  /\ UNCHANGED <<types, arrays, making>>

\* The layout b with one more field, of type f at an offset.  exact is history:
\* no offset or size has been cut.
WithField(b, f, offset, size) ==
  LET align == Smaller(types[f].layout.align, b.pack)
  IN [b EXCEPT !.layout =
        [size |-> size, align |-> Larger(@.align, align),
         fields |-> Append(@.fields, [type |-> f, offset |-> offset,
                                      size |-> types[f].layout.size, align |-> align]),
         exact |-> @.exact /\ (b.kind = "struct" => @.size <= offset)]]

\* Mutant of StructOffset: the field's own alignment, whatever the pack value.
StructOffsetUnpacked(b, f) == AlignUp(b.layout.size, types[f].layout.align)

StructOffset(b, f) == AlignUp(b.layout.size, Smaller(types[f].layout.align, b.pack))

\* One round of the loop.  The checker refuses runtime-sized fields; a struct
\* that would end beyond the last word is "too large".
AddField(f) ==
  LET size == types[f].layout.size
      offset == StructOffset(building, f)
  IN /\ building # Idle /\ Len(building.layout.fields) < MaxFields
     /\ types[f].sized
     /\ \/ /\ building.kind = "union"
           /\ building' = WithField(building, f, 0, Larger(building.layout.size, size))
        \/ /\ building.kind = "struct" /\ size <= MaxWord - offset
           /\ building' = WithField(building, f, offset, offset + size)
        \/ /\ building.kind = "struct" /\ size > MaxWord - offset
           /\ building' = Idle
     /\ UNCHANGED <<types, arrays, making>>

\* The padding at the end.
Padded(l) == [l EXCEPT !.size = AlignUp(l.size, l.align),
                       !.exact = @ /\ l.size <= AlignUp(l.size, l.align)]

FinishAggregate ==
  /\ building # Idle /\ Len(types) < MaxTypes
  /\ types' = Append(types, [kind |-> building.kind, layout |-> Padded(building.layout),
                             element |-> NoType, count |-> 0, sized |-> TRUE])
  /\ building' = Idle
  /\ UNCHANGED <<arrays, making>>

\* The registry is full.
Full == Len(types) = MaxTypes /\ UNCHANGED typesVars

TypesNext ==
  \/ \E t \in Threads, e \in DOMAIN types, n \in Counts : LookUpArray(t, e, n)
  \/ \E t \in Threads : AddArray(t)
  \/ \E kind \in {"struct", "union"}, pack \in Packs : BeginAggregate(kind, pack)
  \/ \E f \in DOMAIN types : AddField(f)
  \/ FinishAggregate
  \/ Full

TypesSpec == TypesInit /\ [][TypesNext]_typesVars

-----------------------------------------------------------------------------
\* Types are compared by number, so an array type must have one: no two threads
\* that make the same array type at the same time get two.
ArraysAreInterned ==
  \A i, j \in DOMAIN types :
    /\ types[i].kind = "array" /\ types[j].kind = "array"
    /\ types[i].element = types[j].element /\ types[i].count = types[j].count
    => i = j

\* Fields lie one after the other, each as soon after the previous one as its
\* alignment allows, and the type ends with the last, up to its own alignment.
End(l, i) == IF i = 0 THEN 0 ELSE l.fields[i].offset + l.fields[i].size
FieldsAreSound(l) ==
  \A i \in DOMAIN l.fields :
    /\ l.fields[i].offset % l.fields[i].align = 0
    /\ End(l, i - 1) <= l.fields[i].offset
    /\ l.fields[i].offset < End(l, i - 1) + l.fields[i].align

SoundStruct(l) ==
  LET end == End(l, Len(l.fields))
  IN FieldsAreSound(l) /\ end <= l.size /\ l.size < end + l.align

SoundUnion(l) ==
  \A i \in DOMAIN l.fields : l.fields[i].offset = 0 /\ l.fields[i].size <= l.size

Sound(t) ==
  /\ t.kind = "struct" => SoundStruct(t.layout)
  /\ t.kind = "union" => SoundUnion(t.layout)

\* Every struct and union is laid out as C does it, with the pack value as the
\* limit of its fields' alignments, if no offset or size was cut to 32 bits.
LayoutsAreSound == \A i \in DOMAIN types : types[i].layout.exact => Sound(types[i])

\* Every element of an array, and every field's own fields, are aligned like
\* the first: sizes are multiples of alignments.
SizesAreAligned == \A i \in DOMAIN types : types[i].layout.size % types[i].layout.align = 0
=============================================================================
