----------------------------- MODULE FrameArena -----------------------------
(***************************************************************************)
(* FrameArena (runtime.cpp): blocks are handed out one behind the other in *)
(* chunks of heap memory, and all memory of an arena is freed with it.     *)
(* The Runtime has one arena, for global variables and records of          *)
(* exceptions, which metadata_mutex_ guards; each Executor has one.        *)
(***************************************************************************)
EXTENDS Integers, Sequences

CONSTANTS Arenas,     \* the arenas
          ChunkSize,  \* the capacity of a chunk; 64K in the code
          Addresses,  \* where the heap may have room for a chunk
          HeapPlaces(_)  \* operator new[]: which of the places with room it may take

ASSUME ArenaAssumption ==
  /\ ChunkSize \in Nat /\ Addresses \subseteq Nat
  /\ \A S \in SUBSET Addresses : HeapPlaces(S) \subseteq S

VARIABLES chunks,  \* chunks_ of each arena
          blocks   \* history: the blocks that each arena has handed out

arenaVars == <<chunks, blocks>>

Alignments == {0, 1, 2, 4, 8, 16}   \* of a type under any pack value
Larger(a, b) == IF a < b THEN b ELSE a

ArenaInit == chunks = [a \in Arenas |-> <<>>] /\ blocks = [a \in Arenas |-> <<>>]

-----------------------------------------------------------------------------
\* (current + alignment - 1) & ~(alignment - 1), for a power of two.
AlignUp(current, alignment) == (current + (alignment - 1)) - ((current + (alignment - 1)) % alignment)

\* try_chunk: where the block starts, and `used' after it.
Aligned(chunk, alignment) == AlignUp(chunk.base + chunk.used, Larger(alignment, 1))
UsedAfter(chunk, size, alignment) == (Aligned(chunk, alignment) - chunk.base) + Larger(size, 1)
HasRoom(chunk, size, alignment) == UsedAfter(chunk, size, alignment) <= chunk.capacity

\* Mutant of NewCapacity: the alignment is forgotten.
NewCapacityTight(size, alignment) == Larger(ChunkSize, Larger(size, 1))

NewCapacity(size, alignment) == Larger(ChunkSize, Larger(size, 1) + Larger(alignment, 1))

\* operator new[]: memory of the capacity that no chunk lies in.
Free(base, capacity) ==
  \A a \in Arenas : \A i \in 1..Len(chunks[a]) :
    LET c == chunks[a][i] IN base + capacity <= c.base \/ c.base + c.capacity <= base
NewChunk(base, size, alignment) == [base |-> base, used |-> 0, capacity |-> NewCapacity(size, alignment)]

\* allocate: where the block goes; in the last chunk, or else in a new one, which has
\* room (bad_alloc is not reached: FreshChunksHaveRoom).
Place(n, chunk, alignment) == [n |-> n, chunk |-> chunk, address |-> Aligned(chunk, alignment)]
Places(arena, size, alignment) ==
  LET n == Len(chunks[arena]) IN
  IF n > 0 /\ HasRoom(chunks[arena][n], size, alignment)
  THEN {Place(n, chunks[arena][n], alignment)}
  ELSE {Place(n + 1, NewChunk(base, size, alignment), alignment) :
          base \in HeapPlaces({b \in Addresses : Free(b, NewCapacity(size, alignment))})}

Allocate(arena, size, alignment, place) ==
  /\ LET grown == [place.chunk EXCEPT !.used = UsedAfter(place.chunk, size, alignment)]
     IN chunks' = [chunks EXCEPT ![arena] = [i \in 1..place.n |-> IF i = place.n THEN grown ELSE @[i]]]
  /\ blocks' = [blocks EXCEPT ![arena] =
       Append(@, [address |-> place.address, size |-> Larger(size, 1), alignment |-> Larger(alignment, 1)])]

\* The destructor of chunks_.
FreeAll(arena) ==
  /\ chunks' = [chunks EXCEPT ![arena] = <<>>]
  /\ blocks' = [blocks EXCEPT ![arena] = <<>>]

ArenaNext ==
  \E arena \in Arenas :
    \/ \E size \in Nat, alignment \in Alignments :
         \E place \in Places(arena, size, alignment) : Allocate(arena, size, alignment, place)
    \/ FreeAll(arena)

ArenaSpec == ArenaInit /\ [][ArenaNext]_arenaVars

-----------------------------------------------------------------------------
\* A block that is in use is aligned, lies within a chunk of its arena that was not
\* freed, and shares no byte with another one: no value is written into another one,
\* whatever sizes and alignments were asked for in whatever order.
Within(b, c) == c.base <= b.address /\ b.address + b.size <= c.base + c.used
BlockOK(a, i) ==
  LET b == blocks[a][i] IN
  /\ b.address % b.alignment = 0
  /\ \E k \in 1..Len(chunks[a]) : Within(b, chunks[a][k]) /\ chunks[a][k].used <= chunks[a][k].capacity
Apart(s, t) == s.address + s.size <= t.address \/ t.address + t.size <= s.address
BlocksAreApart ==
  \A a \in Arenas : \A i \in 1..Len(blocks[a]) :
    /\ BlockOK(a, i)
    /\ \A d \in Arenas : \A j \in 1..Len(blocks[d]) :
         a # d \/ i # j => Apart(blocks[a][i], blocks[d][j])
=============================================================================
