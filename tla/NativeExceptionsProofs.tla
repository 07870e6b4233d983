----------------------- MODULE NativeExceptionsProofs ------------------------
(***************************************************************************)
(* Blocks of the arenas never overlap, for every number of arenas, every   *)
(* chunk size and every heap; and the chains of records behind exception   *)
(* values stay whole, for chains of any length and any number of frames.   *)
(***************************************************************************)
EXTENDS NativeExceptions, WellFoundedInduction, TLAPS

-----------------------------------------------------------------------------
(* The arenas.                                                               *)

\* The first aligned address at or after another one.
LEMMA AlignUpFacts ==
  ASSUME NEW v \in Nat, NEW a \in {1, 2, 4, 8, 16}
  PROVE  AlignUp(v, a) \in Nat /\ AlignUp(v, a) % a = 0 /\ v <= AlignUp(v, a) /\ AlignUp(v, a) < v + a
BY Z3 DEF AlignUp

LEMMA LargerIsLarger ==
  ASSUME NEW x \in Nat, NEW y \in Nat
  PROVE  Larger(x, y) \in Nat /\ y <= Larger(x, y)
BY DEF Larger

LEMMA LargerFacts ==
  /\ \A size \in Nat : Larger(size, 1) \in Nat \ {0}
  /\ \A alignment \in Alignments : Larger(alignment, 1) \in {1, 2, 4, 8, 16}
BY DEF Larger, Alignments

-----------------------------------------------------------------------------
(* The inductive invariant: besides the blocks, the chunks are apart.        *)

Chunk == [base : Nat, used : Nat, capacity : Nat]
Block == [address : Nat, size : Nat \ {0}, alignment : {1, 2, 4, 8, 16}]

ArenaTypeOK ==
  /\ chunks \in [Arenas -> Seq(Chunk)]
  /\ blocks \in [Arenas -> Seq(Block)]

ChunksHoldTheirBlocks ==
  \A a \in Arenas : \A i \in 1..Len(chunks[a]) : chunks[a][i].used <= chunks[a][i].capacity

Disjoint(c, d) == c.base + c.capacity <= d.base \/ d.base + d.capacity <= c.base
ChunksAreApart ==
  \A a, d \in Arenas : \A i \in 1..Len(chunks[a]), j \in 1..Len(chunks[d]) :
    a # d \/ i # j => Disjoint(chunks[a][i], chunks[d][j])

ArenaInv == ArenaTypeOK /\ ChunksHoldTheirBlocks /\ ChunksAreApart /\ BlocksAreApart

-----------------------------------------------------------------------------
\* What a block takes from the chunk that it goes in.
LEMMA PlacedBlock ==
  ASSUME NEW c \in Chunk, NEW size \in Nat, NEW alignment \in Alignments
  PROVE  /\ Aligned(c, alignment) \in Nat /\ UsedAfter(c, size, alignment) \in Nat
         /\ Aligned(c, alignment) % Larger(alignment, 1) = 0
         /\ c.base + c.used <= Aligned(c, alignment)
         /\ Aligned(c, alignment) < (c.base + c.used) + Larger(alignment, 1)
         /\ Aligned(c, alignment) + Larger(size, 1) = c.base + UsedAfter(c, size, alignment)
<1> DEFINE v == c.base + c.used
           al == Larger(alignment, 1)
           b == Larger(size, 1)
<1>1. v \in Nat /\ c.base <= v /\ c.base \in Nat /\ c.used \in Nat /\ al \in {1, 2, 4, 8, 16} /\ b \in Nat
  BY LargerFacts DEF Chunk
<1>2. Aligned(c, alignment) = AlignUp(v, al)
  BY DEF Aligned
<1>3. UsedAfter(c, size, alignment) = (Aligned(c, alignment) - c.base) + b
  BY DEF UsedAfter
<1> HIDE DEF al, b, v
<1>4. /\ AlignUp(v, al) \in Nat /\ AlignUp(v, al) % al = 0
      /\ v <= AlignUp(v, al) /\ AlignUp(v, al) < v + al
  BY <1>1, AlignUpFacts
<1>5. /\ Aligned(c, alignment) \in Nat /\ UsedAfter(c, size, alignment) \in Nat
      /\ v <= Aligned(c, alignment) /\ Aligned(c, alignment) < v + al
      /\ Aligned(c, alignment) + b = c.base + UsedAfter(c, size, alignment)
  BY <1>1, <1>2, <1>3, <1>4
<1>6. Aligned(c, alignment) % al = 0
  BY <1>2, <1>4
<1> QED
  BY <1>5, <1>6 DEF al, b, v

\* A new chunk has room for the block that it is made for: allocate throws no bad_alloc.
LEMMA FreshChunksHaveRoom ==
  ASSUME NEW base \in Nat, NEW size \in Nat, NEW alignment \in Alignments, ChunkSize \in Nat
  PROVE  /\ NewChunk(base, size, alignment) \in Chunk
         /\ HasRoom(NewChunk(base, size, alignment), size, alignment)
<1> DEFINE c == NewChunk(base, size, alignment)
<1>1. /\ NewCapacity(size, alignment) \in Nat
      /\ Larger(size, 1) + Larger(alignment, 1) <= NewCapacity(size, alignment)
  <2>1. Larger(size, 1) \in Nat /\ Larger(alignment, 1) \in Nat
    BY LargerFacts
  <2> DEFINE sum == Larger(size, 1) + Larger(alignment, 1)
  <2>2. sum \in Nat
    BY <2>1
  <2>3. NewCapacity(size, alignment) = Larger(ChunkSize, sum)
    BY DEF NewCapacity
  <2> HIDE DEF sum
  <2>4. Larger(ChunkSize, sum) \in Nat /\ sum <= Larger(ChunkSize, sum)
    BY <2>2, LargerIsLarger
  <2> QED
    BY <2>3, <2>4 DEF sum
<1>2. c \in Chunk /\ c.base = base /\ c.used = 0 /\ c.capacity = NewCapacity(size, alignment)
  BY <1>1 DEF NewChunk, Chunk
<1> HIDE DEF c
<1>3. Larger(size, 1) \in Nat /\ Larger(alignment, 1) \in Nat
  BY LargerFacts
<1>4. UsedAfter(c, size, alignment) <= c.capacity
  BY <1>1, <1>2, <1>3, PlacedBlock
<1> QED
  BY <1>2, <1>4 DEF HasRoom, c

\* The chunk of a place is the last one of the arena, or a new one behind it.
LEMMA PlaceFacts ==
  ASSUME ArenaInv, NEW arena \in Arenas, NEW size \in Nat, NEW alignment \in Alignments,
         NEW place \in Places(arena, size, alignment)
  PROVE  LET n == place.n  c == place.chunk  m == Len(chunks[arena]) IN
         /\ m \in Nat /\ n \in {m, m + 1} /\ 1 <= n
         /\ c \in Chunk /\ HasRoom(c, size, alignment) /\ c.used <= c.capacity
         /\ place.address = Aligned(c, alignment)
         /\ n <= m => c = chunks[arena][n]
         /\ \A a \in Arenas : \A i \in 1..Len(chunks[a]) :
              a # arena \/ i # n => Disjoint(c, chunks[a][i])
<1> DEFINE n == place.n
           c == place.chunk
           m == Len(chunks[arena])
           old == chunks[arena][m]
<1>1. chunks[arena] \in Seq(Chunk) /\ m \in Nat
  BY DEF ArenaInv, ArenaTypeOK
<1>2. CASE m > 0 /\ HasRoom(old, size, alignment)
  <2>1. place = Place(m, old, alignment)
    BY <1>2 DEF Places
  <2>2. n = m /\ c = old /\ place.address = Aligned(c, alignment)
    BY <2>1 DEF Place
  <2>3. m \in 1..m /\ old \in Chunk
    BY <1>1, <1>2
  <2>4. c.used <= c.capacity
    BY <2>2, <2>3 DEF ArenaInv, ChunksHoldTheirBlocks
  <2>5. \A a \in Arenas : \A i \in 1..Len(chunks[a]) : a # arena \/ i # m => Disjoint(old, chunks[a][i])
    BY <2>3 DEF ArenaInv, ChunksAreApart
  <2> QED
    BY <1>1, <1>2, <2>2, <2>3, <2>4, <2>5
<1>3. CASE ~(m > 0 /\ HasRoom(old, size, alignment))
  <2> DEFINE room == {b \in Addresses : Free(b, NewCapacity(size, alignment))}
  <2>1. PICK base \in HeapPlaces(room) : place = Place(m + 1, NewChunk(base, size, alignment), alignment)
    BY <1>3 DEF Places
  <2>2. base \in room
    BY <2>1, ArenaAssumption
  <2>3. base \in Nat /\ Free(base, NewCapacity(size, alignment)) /\ ChunkSize \in Nat
    BY <2>2, ArenaAssumption
  <2>4. n = m + 1 /\ c = NewChunk(base, size, alignment) /\ place.address = Aligned(c, alignment)
    BY <2>1 DEF Place
  <2>5. c \in Chunk /\ HasRoom(c, size, alignment)
    BY <2>3, <2>4, FreshChunksHaveRoom
  <2>6. c.base = base /\ c.used = 0 /\ c.capacity = NewCapacity(size, alignment)
    BY <2>4 DEF NewChunk
  <2>7. \A a \in Arenas : \A i \in 1..Len(chunks[a]) : Disjoint(c, chunks[a][i])
    BY <2>3, <2>6 DEF Free, Disjoint
  <2>8. c.used <= c.capacity
    BY <2>5, <2>6 DEF Chunk
  <2> QED
    BY <1>1, <2>4, <2>5, <2>7, <2>8
<1> QED
  BY <1>2, <1>3

\* Only the end of the chunk moves, and the block lies between its old and its new end.
LEMMA AllocateKeepsInv ==
  ASSUME ArenaInv, NEW arena \in Arenas, NEW size \in Nat, NEW alignment \in Alignments,
         NEW place \in Places(arena, size, alignment), Allocate(arena, size, alignment, place)
  PROVE  ArenaInv'
<1> DEFINE n == place.n
           c == place.chunk
           m == Len(chunks[arena])
           new == [address |-> place.address, size |-> Larger(size, 1), alignment |-> Larger(alignment, 1)]
           grown == [c EXCEPT !.used = UsedAfter(c, size, alignment)]
           list == [i \in 1..n |-> IF i = n THEN grown ELSE chunks[arena][i]]
           l == Len(blocks[arena])
<1>1. /\ m \in Nat /\ n \in {m, m + 1} /\ 1 <= n
      /\ c \in Chunk /\ UsedAfter(c, size, alignment) <= c.capacity /\ c.used <= c.capacity
      /\ place.address = Aligned(c, alignment)
      /\ n <= m => c = chunks[arena][n]
  BY PlaceFacts DEF HasRoom
<1>2. \A a \in Arenas : \A i \in 1..Len(chunks[a]) : a # arena \/ i # n => Disjoint(c, chunks[a][i])
  BY PlaceFacts
<1>3. /\ place.address \in Nat /\ UsedAfter(c, size, alignment) \in Nat
      /\ place.address % Larger(alignment, 1) = 0
      /\ c.base + c.used <= place.address
      /\ place.address + Larger(size, 1) = c.base + UsedAfter(c, size, alignment)
  BY <1>1, PlacedBlock
<1>4. new \in Block
  BY <1>3, LargerFacts DEF Block
<1>5. /\ new.address = place.address /\ new.address % new.alignment = 0
      /\ new.size \in Nat /\ new.address \in Nat
      /\ c.base + c.used <= new.address /\ new.address + new.size = c.base + grown.used
  BY <1>1, <1>3, LargerFacts DEF Chunk
<1>6. /\ grown \in Chunk /\ grown.base = c.base /\ grown.capacity = c.capacity
      /\ grown.used <= grown.capacity /\ c.used <= grown.used
  <2>1. /\ grown \in Chunk /\ grown.base = c.base /\ grown.capacity = c.capacity
        /\ grown.used = UsedAfter(c, size, alignment)
    BY <1>1, <1>3 DEF Chunk
  <2>2. c.base \in Nat /\ c.used \in Nat
    BY <1>1 DEF Chunk
  <2>3. Larger(size, 1) \in Nat
    BY LargerFacts
  <2> HIDE DEF grown
  <2> QED
    BY <1>1, <1>3, <2>1, <2>2, <2>3
<1>7. /\ chunks \in [Arenas -> Seq(Chunk)] /\ blocks \in [Arenas -> Seq(Block)]
      /\ ChunksHoldTheirBlocks /\ ChunksAreApart /\ BlocksAreApart
  BY DEF ArenaInv, ArenaTypeOK
<1>8. /\ chunks' = [chunks EXCEPT ![arena] = list]
      /\ blocks' = [blocks EXCEPT ![arena] = Append(blocks[arena], new)]
  BY DEF Allocate
<1> HIDE DEF new, grown, c
<1>9. list \in Seq(Chunk) /\ Len(list) = n /\ \A i \in 1..n : list[i] = IF i = n THEN grown ELSE chunks[arena][i]
  <2>1. \A i \in 1..n : (IF i = n THEN grown ELSE chunks[arena][i]) \in Chunk
    <3>1. chunks[arena] \in Seq(Chunk) /\ grown \in Chunk
      BY <1>6, <1>7
    <3> HIDE DEF n
    <3>2. ASSUME NEW i \in 1..n, i # n PROVE chunks[arena][i] \in Chunk
      <4>1. i \in 1..m
        BY <1>1, <3>2
      <4> QED
        BY <3>1, <4>1
    <3> QED
      BY <3>1, <3>2
  <2>2. list \in [1..n -> Chunk] /\ n \in Nat
    BY <1>1, <2>1
  <2>3. list \in Seq(Chunk) /\ Len(list) = n
    BY <2>2
  <2> QED
    BY <2>3
<1> HIDE DEF list
<1>10. chunks' \in [Arenas -> Seq(Chunk)] /\ blocks' \in [Arenas -> Seq(Block)]
  BY <1>4, <1>7, <1>8, <1>9
<1>11. /\ chunks'[arena] = list /\ \A a \in Arenas : a # arena => chunks'[a] = chunks[a]
       /\ blocks'[arena] = Append(blocks[arena], new)
       /\ \A a \in Arenas : a # arena => blocks'[a] = blocks[a]
  BY <1>7, <1>8
<1>12. /\ l \in Nat /\ Len(blocks'[arena]) = l + 1 /\ blocks'[arena][l + 1] = new
       /\ \A i \in 1..l : blocks'[arena][i] = blocks[arena][i]
  <2>1. blocks[arena] \in Seq(Block)
    BY <1>7
  <2> QED
    BY <1>4, <1>11, <2>1
\* What the new chunks and blocks are, one by one.
<1>13. ASSUME NEW a \in Arenas, NEW i \in 1..Len(chunks'[a])
       PROVE  IF a = arena /\ i = n
              THEN chunks'[a][i] = grown
              ELSE i \in 1..Len(chunks[a]) /\ chunks'[a][i] = chunks[a][i]
  <2>1. CASE a = arena
    BY <1>1, <1>9, <1>11, <1>13, <2>1
  <2>2. CASE a # arena
    BY <1>11, <1>13, <2>2
  <2> QED
    BY <2>1, <2>2
<1>14. ASSUME NEW a \in Arenas, NEW i \in 1..Len(blocks'[a])
       PROVE  IF a = arena /\ i = l + 1
              THEN blocks'[a][i] = new
              ELSE i \in 1..Len(blocks[a]) /\ blocks'[a][i] = blocks[a][i]
  <2>1. CASE a = arena
    BY <1>12, <1>14, <2>1
  <2>2. CASE a # arena
    BY <1>11, <1>14, <2>2
  <2> QED
    BY <2>1, <2>2
<1>15. ChunksHoldTheirBlocks'
  BY <1>6, <1>7, <1>13 DEF ChunksHoldTheirBlocks
<1>16. ChunksAreApart'
  <2> SUFFICES ASSUME NEW a \in Arenas, NEW d \in Arenas, NEW i \in 1..Len(chunks'[a]),
                      NEW j \in 1..Len(chunks'[d]), a # d \/ i # j
               PROVE  Disjoint(chunks'[a][i], chunks'[d][j])
    BY DEF ChunksAreApart, Disjoint
  <2>1. CASE a = arena /\ i = n
    BY <1>2, <1>6, <1>13, <2>1 DEF Disjoint
  <2>2. CASE d = arena /\ j = n
    BY <1>2, <1>6, <1>13, <2>2 DEF Disjoint
  <2>3. CASE ~(a = arena /\ i = n) /\ ~(d = arena /\ j = n)
    BY <1>7, <1>13, <2>3 DEF ChunksAreApart
  <2> QED
    BY <2>1, <2>2, <2>3
\* A block stays within its chunk, and the new one is in the grown chunk.
<1>17. ASSUME NEW a \in Arenas, NEW i \in 1..Len(blocks'[a])
       PROVE  BlockOK(a, i)'
  <2>1. CASE a = arena /\ i = l + 1
    <3>1. n \in 1..Len(chunks'[arena]) /\ chunks'[arena][n] = grown
      BY <1>1, <1>9, <1>11
    <3>2. Within(new, grown)
      <4>1. c.base \in Nat /\ c.used \in Nat
        BY <1>1 DEF Chunk
      <4> QED
        BY <4>1, <1>5, <1>6 DEF Within
    <3>3. blocks'[a][i] = new
      BY <1>14, <2>1
    <3> QED
      BY <2>1, <3>1, <3>2, <3>3, <1>5, <1>6 DEF BlockOK
  <2>2. CASE ~(a = arena /\ i = l + 1)
    <3>1. i \in 1..Len(blocks[a]) /\ blocks'[a][i] = blocks[a][i]
      BY <1>14, <2>2
    <3>2. PICK k \in 1..Len(chunks[a]) :
            Within(blocks[a][i], chunks[a][k]) /\ chunks[a][k].used <= chunks[a][k].capacity
      BY <1>7, <3>1 DEF BlocksAreApart, BlockOK
    <3>3. blocks[a][i].address % blocks[a][i].alignment = 0
      BY <1>7, <3>1 DEF BlocksAreApart, BlockOK
    <3>4. k \in 1..Len(chunks'[a])
      BY <1>1, <1>9, <1>11, <3>2
    <3>5. Within(blocks[a][i], chunks'[a][k]) /\ chunks'[a][k].used <= chunks'[a][k].capacity
      <4>1. CASE a = arena /\ k = n
        <5>1. chunks[a][k] = c /\ chunks'[a][k] = grown
          BY <1>1, <1>13, <3>2, <3>4, <4>1
        <5>2. c \in Chunk /\ blocks[a][i] \in Block
          BY <1>1, <1>7, <3>1
        <5> QED
          BY <1>6, <3>2, <5>1, <5>2 DEF Within, Chunk, Block
      <4>2. CASE ~(a = arena /\ k = n)
        BY <1>13, <3>2, <3>4, <4>2
      <4> QED
        BY <4>1, <4>2
    <3> QED
      BY <3>1, <3>3, <3>4, <3>5 DEF BlockOK
  <2> QED
    BY <2>1, <2>2
\* The other blocks end where the used part of their chunk does.
<1>18. ASSUME NEW a \in Arenas, NEW i \in 1..Len(blocks[a])
       PROVE  Apart(blocks[a][i], new) /\ Apart(new, blocks[a][i])
  <2>1. PICK k \in 1..Len(chunks[a]) :
          Within(blocks[a][i], chunks[a][k]) /\ chunks[a][k].used <= chunks[a][k].capacity
    BY <1>7 DEF BlocksAreApart, BlockOK
  <2>2. chunks[a][k] \in Chunk /\ blocks[a][i] \in Block /\ c \in Chunk
    BY <1>1, <1>7
  <2>3. CASE a = arena /\ k = n
    <3>1. chunks[a][k] = c
      BY <1>1, <2>1, <2>3
    <3> QED
      BY <1>5, <2>1, <2>2, <3>1 DEF Within, Apart, Chunk, Block
  <2>4. CASE ~(a = arena /\ k = n)
    <3>1. Disjoint(c, chunks[a][k])
      BY <1>2, <2>1, <2>4
    <3>2. new.address + new.size <= c.base + c.capacity
      BY <1>5, <1>6, <2>2 DEF Chunk
    <3> DEFINE d == chunks[a][k]
               b == blocks[a][i]
    <3>3. /\ b.address \in Nat /\ b.size \in Nat /\ d.base \in Nat /\ d.used \in Nat /\ d.capacity \in Nat
          /\ c.base \in Nat /\ c.used \in Nat /\ c.capacity \in Nat
      BY <2>2 DEF Chunk, Block
    <3>4. d.base <= b.address /\ b.address + b.size <= d.base + d.used /\ d.used <= d.capacity
      BY <2>1 DEF Within
    <3>5. /\ new.size \in Nat /\ new.address \in Nat /\ c.base + c.used <= new.address
      BY <1>5
    <3>6. c.base + c.capacity <= d.base \/ d.base + d.capacity <= c.base
      BY <3>1 DEF Disjoint
    <3> HIDE DEF d, b
    <3>7. b.address + b.size <= new.address \/ new.address + new.size <= b.address
      <4>1. \A x, y \in Nat : x + y \in Nat
        OBVIOUS
      <4>2. CASE c.base + c.capacity <= d.base
        <5>1. new.address + new.size \in Nat
          BY <3>5
        <5>2. c.base + c.capacity \in Nat /\ d.base \in Nat
          BY <3>3
        <5>3. \A x, y, z \in Nat : x <= y /\ y <= z => x <= z
          OBVIOUS
        <5>4. new.address + new.size <= d.base
          BY <3>2, <4>2, <5>1, <5>2, <5>3
        <5> QED
          BY <3>3, <3>4, <3>5, <4>1, <5>4
      <4>3. CASE d.base + d.capacity <= c.base
        <5>1. d.base + d.used <= c.base
          BY <3>3, <3>4, <4>1, <4>3
        <5>2. b.address + b.size <= c.base
          BY <3>3, <3>4, <4>1, <5>1
        <5>3. c.base <= new.address
          BY <3>3, <3>5
        <5> QED
          BY <3>3, <3>5, <4>1, <5>2, <5>3
      <4> QED
        BY <3>6, <4>2, <4>3
    <3> QED
      BY <3>7 DEF Apart, b
  <2> QED
    BY <2>3, <2>4
<1>19. BlocksAreApart'
  <2> SUFFICES ASSUME NEW a \in Arenas, NEW i \in 1..Len(blocks'[a]),
                      NEW d \in Arenas, NEW j \in 1..Len(blocks'[d]), a # d \/ i # j
               PROVE  Apart(blocks'[a][i], blocks'[d][j])
    BY <1>17 DEF BlocksAreApart, Apart
  <2>1. CASE a = arena /\ i = l + 1
    BY <1>14, <1>18, <2>1
  <2>2. CASE d = arena /\ j = l + 1
    BY <1>14, <1>18, <2>2
  <2>3. CASE ~(a = arena /\ i = l + 1) /\ ~(d = arena /\ j = l + 1)
    BY <1>7, <1>14, <2>3 DEF BlocksAreApart
  <2> QED
    BY <2>1, <2>2, <2>3
<1> QED
  BY <1>10, <1>15, <1>16, <1>19 DEF ArenaInv, ArenaTypeOK

\* An arena that is freed loses its chunks together with its blocks.
LEMMA FreeAllKeepsInv ==
  ASSUME ArenaInv, NEW arena \in Arenas, FreeAll(arena)
  PROVE  ArenaInv'
<1>1. /\ chunks \in [Arenas -> Seq(Chunk)] /\ blocks \in [Arenas -> Seq(Block)]
      /\ ChunksHoldTheirBlocks /\ ChunksAreApart /\ BlocksAreApart
  BY DEF ArenaInv, ArenaTypeOK
<1>2. /\ chunks' = [chunks EXCEPT ![arena] = <<>>] /\ blocks' = [blocks EXCEPT ![arena] = <<>>]
  BY DEF FreeAll
<1>3. /\ chunks' \in [Arenas -> Seq(Chunk)] /\ blocks' \in [Arenas -> Seq(Block)]
      /\ Len(chunks'[arena]) = 0 /\ Len(blocks'[arena]) = 0
      /\ \A a \in Arenas : a # arena => chunks'[a] = chunks[a] /\ blocks'[a] = blocks[a]
  BY <1>1, <1>2
<1>4. /\ \A a \in Arenas : \A i \in 1..Len(chunks'[a]) : i \in 1..Len(chunks[a]) /\ chunks'[a] = chunks[a]
      /\ \A a \in Arenas : \A i \in 1..Len(blocks'[a]) :
           i \in 1..Len(blocks[a]) /\ blocks'[a] = blocks[a] /\ chunks'[a] = chunks[a]
  BY <1>3
<1>5. ChunksHoldTheirBlocks'
  BY <1>1, <1>4 DEF ChunksHoldTheirBlocks
<1>6. ChunksAreApart'
  BY <1>1, <1>4 DEF ChunksAreApart, Disjoint
<1>7. ASSUME NEW a \in Arenas, NEW i \in 1..Len(blocks'[a])
      PROVE  BlockOK(a, i)'
  BY <1>1, <1>4, <1>7 DEF BlocksAreApart, BlockOK, Within
<1>8. ASSUME NEW a \in Arenas, NEW i \in 1..Len(blocks'[a]), NEW d \in Arenas, NEW j \in 1..Len(blocks'[d]),
             a # d \/ i # j
      PROVE  Apart(blocks[a][i], blocks[d][j]) /\ blocks'[a] = blocks[a] /\ blocks'[d] = blocks[d]
  BY <1>1, <1>4, <1>8 DEF BlocksAreApart
<1>9. BlocksAreApart'
  BY <1>7, <1>8 DEF BlocksAreApart, Apart
<1> QED
  BY <1>3, <1>5, <1>6, <1>9 DEF ArenaInv, ArenaTypeOK

-----------------------------------------------------------------------------
LEMMA ArenaInitImpliesInv == ArenaInit => ArenaInv
<1> SUFFICES ASSUME ArenaInit PROVE ArenaInv
  OBVIOUS
<1>1. \A a \in Arenas : Len(chunks[a]) = 0 /\ Len(blocks[a]) = 0
  BY DEF ArenaInit
<1>2. ArenaTypeOK
  BY DEF ArenaInit, ArenaTypeOK
<1> QED
  BY <1>1, <1>2 DEF ArenaInv, ChunksHoldTheirBlocks, ChunksAreApart, BlocksAreApart

\* Blocks of all arenas are aligned, within their arena's memory, and apart: no
\* variable, exception record or array element overwrites another one.
THEOREM BlocksAreAlwaysApart == ArenaSpec => []BlocksAreApart
<1>1. ArenaInit => ArenaInv
  BY ArenaInitImpliesInv
<1>2. ArenaInv /\ [ArenaNext]_arenaVars => ArenaInv'
  <2> SUFFICES ASSUME ArenaInv, [ArenaNext]_arenaVars PROVE ArenaInv'
    OBVIOUS
  <2>1. ASSUME NEW arena \in Arenas, NEW size \in Nat, NEW alignment \in Alignments,
               NEW place \in Places(arena, size, alignment), Allocate(arena, size, alignment, place)
        PROVE  ArenaInv'
    BY <2>1, AllocateKeepsInv
  <2>2. ASSUME NEW arena \in Arenas, FreeAll(arena)
        PROVE  ArenaInv'
    BY <2>2, FreeAllKeepsInv
  <2>3. CASE UNCHANGED arenaVars
    BY <2>3 DEF arenaVars, ArenaInv, ArenaTypeOK, ChunksHoldTheirBlocks, ChunksAreApart, BlocksAreApart, BlockOK
  <2> QED
    BY <2>1, <2>2, <2>3 DEF ArenaNext
<1>3. ArenaInv => BlocksAreApart
  BY DEF ArenaInv
<1> QED
  BY <1>1, <1>2, <1>3, PTL DEF ArenaSpec
-----------------------------------------------------------------------------
(* Exceptions in the arenas.  The inductive invariant: every variable has a  *)
(* block of its own, and behind a value that was not edited lie records that *)
(* are blocks of the Runtime's arena and are written no more.                *)

\* A block of an arena that is in use.
Holds(arena, p, size) ==
  \E i \in 1..Len(blocks[arena]) : blocks[arena][i].address = p /\ blocks[arena][i].size = size
Record(p) == Holds(Global, p, RecordSize)
InMemory(p, size) == \A w \in p..(p + size - 1) : w \in DOMAIN memory

NotNull == \A a \in Arenas : \A i \in 1..Len(chunks[a]) : chunks[a][i].base # Null

\* The records of a value that is in the making; the first is in the value.
BeingMade(p) == work.kind = "exception" /\ \E i \in 2..Len(work.records) : work.records[i] = p

\* The records after the first one of a value.
Chain(v, s) ==
  /\ Word(Count(v)) = Len(s) + 1 \/ (Word(Count(v)) = 0 /\ Len(s) = 0)
  /\ \A i \in 1..Len(s) : Record(s[i]) /\ ~BeingMade(s[i])
  /\ \A i, j \in 1..Len(s) : s[i] = s[j] => i = j
  /\ Word(Link(v)) = (IF Len(s) = 0 THEN Null ELSE s[1])
  /\ \A i \in 1..Len(s) : Word(Link(s[i])) = (IF i = Len(s) THEN Null ELSE s[i + 1])

\* What was raised is what they hold.
Copied(v, s, chain) ==
  /\ Word(Count(v)) = Smaller(Len(chain), MaxRecords)
  /\ Word(Count(v)) > 0 => Word(v) = chain[1]
  /\ \A i \in 1..Len(s) : Word(s[i]) = chain[i + 1]
  /\ Word(Truncated(v)) = (IF Len(chain) > MaxRecords THEN 1 ELSE 0)

ValueOK(v) ==
  /\ v \in DOMAIN origin
  /\ InMemory(v, ExceptionSize)
  /\ Word(Count(v)) \in Nat
  /\ IF origin[v].whole
     THEN \E s \in Seq(Nat) : Chain(v, s) /\ (origin[v].of # Unknown => Copied(v, s, origin[v].of))
     ELSE origin[v].of = Unknown

\* The variables of the Runtime, and of each frame.
IsVariable(arena, v) ==
  \/ arena = Global /\ v = global /\ v # Null
  \/ arena \in 1..Len(frames) /\ \E i \in 1..Len(frames[arena]) : frames[arena][i] = v /\ v # Try
VariablesOK ==
  \A arena \in 0..Len(frames), v \in Int :
    IsVariable(arena, v) => v \in Nat /\ Holds(arena, v, ExceptionSize) /\ ValueOK(v)

FaultOK(fault) ==
  /\ fault \in [kind : {"fault"}, records : Seq(Int), truncated : BOOLEAN, of : Seq(Int)]
  /\ fault.of # Unknown =>
       /\ Len(fault.records) = Smaller(Len(fault.of), MaxRecords)
       /\ \A i \in 1..Len(fault.records) : fault.records[i] = fault.of[i]
       /\ fault.truncated = (Len(fault.of) > MaxRecords)

LiteralOK == \A w \in work.value..(work.value + 3) : Word(w) = Zero
MakingOK ==
  /\ work = [kind |-> "exception", fault |-> work.fault, records |-> work.records]
  /\ work.records \in Seq(Nat)
  /\ Len(work.records) >= 1
  /\ Len(work.records) > 1 => Len(work.records) <= Len(work.fault.records)
  /\ FaultOK(work.fault)
  /\ \A i, j \in 1..Len(work.records) : work.records[i] = work.records[j] => i = j
  /\ \A i \in 2..Len(work.records) : Record(work.records[i]) /\ InMemory(work.records[i], RecordSize)
  /\ Holds(Executor, work.records[1], ExceptionSize) /\ InMemory(work.records[1], ExceptionSize)
  /\ \A arena \in 0..Len(frames) : ~IsVariable(arena, work.records[1])
WorkOK ==
  \/ work = None
  \/ flight = None /\ work.kind = "literal" /\ work.value \in Nat /\ LiteralOK
  \/ flight = None /\ work.kind = "exception" /\ MakingOK

\* Memory, and words to be written there.
IsMemory(m) == DOMAIN m \subseteq Nat /\ m \in [DOMAIN m -> Int]
AreWords(words, size) == words \in [0..(size - 1) -> Int]

ExceptionTypeOK ==
  /\ IsMemory(memory)
  /\ frames \in Seq(Seq(Int)) /\ Len(frames) \in 1..MaxFrames
  /\ global \in Nat
  /\ origin \in [DOMAIN origin -> [of : Seq(Int), whole : BOOLEAN]]
  /\ flight = None \/ FaultOK(flight)

ExceptionsInv == ArenaInv /\ NotNull /\ ExceptionTypeOK /\ VariablesOK /\ WorkOK

-----------------------------------------------------------------------------
(* Memory.                                                                   *)

\* What a read of some memory gives.
At(m, w) == IF w \in DOMAIN m THEN m[w] ELSE Bad

\* Words that are overwritten, and all others.
IsFilled(f, m, to, size, words) ==
  /\ IsMemory(f) /\ DOMAIN f = DOMAIN m \cup to..(to + size - 1)
  /\ \A w \in Int : w < to \/ to + size <= w => At(f, w) = At(m, w)
  /\ \A i \in 0..(size - 1) : At(f, to + i) = words[i]

LEMMA FilledFacts ==
  ASSUME NEW m, IsMemory(m), NEW to \in Nat, NEW size \in Nat, NEW words, AreWords(words, size)
  PROVE  IsFilled(Filled(m, to, words), m, to, size, words)
<1> DEFINE f == Filled(m, to, words)
<1> DEFINE new == {to + i : i \in DOMAIN words}
<1>1. DOMAIN words = 0..(size - 1) /\ \A i \in 0..(size - 1) : words[i] \in Int
  BY DEF AreWords
<1>2. new = to..(to + size - 1)
  <2>1. \A w \in to..(to + size - 1) : w - to \in 0..(size - 1) /\ w = to + (w - to)
    OBVIOUS
  <2>2. \A i \in 0..(size - 1) : to + i \in to..(to + size - 1)
    OBVIOUS
  <2> QED
    BY <1>1, <2>1, <2>2
<1>3. /\ DOMAIN f = DOMAIN m \cup new
      /\ \A a \in DOMAIN m \cup new : f[a] = IF a - to \in 0..(size - 1) THEN words[a - to] ELSE m[a]
      /\ f = [a \in DOMAIN f |-> f[a]]
  BY <1>1 DEF Filled
<1> HIDE DEF new, f
<1>4. DOMAIN f \subseteq Nat /\ \A a \in DOMAIN m : m[a] \in Int
  BY <1>2, <1>3 DEF IsMemory
<1>5. \A a \in DOMAIN f : f[a] \in Int
  <2> SUFFICES ASSUME NEW a \in DOMAIN f PROVE f[a] \in Int
    OBVIOUS
  <2>1. CASE a - to \in 0..(size - 1)
    BY <1>1, <1>3, <2>1
  <2>2. CASE a - to \notin 0..(size - 1)
    <3>1. a \in DOMAIN m
      BY <1>2, <1>3, <1>4, <2>2
    <3> QED
      BY <1>3, <1>4, <2>2, <3>1
  <2> QED
    BY <2>1, <2>2
<1>6. ASSUME NEW w \in Int, w < to \/ to + size <= w PROVE At(f, w) = At(m, w)
  <2>1. w \notin new /\ w - to \notin 0..(size - 1)
    BY <1>2, <1>6
  <2> QED
    BY <1>3, <2>1 DEF At
<1>7. ASSUME NEW i \in 0..(size - 1) PROVE At(f, to + i) = words[i]
  <2>1. to + i \in new /\ (to + i) - to = i
    BY <1>2
  <2> QED
    BY <1>3, <2>1 DEF At
<1>8. IsMemory(f)
  BY <1>3, <1>4, <1>5 DEF IsMemory
<1> QED
  BY <1>2, <1>3, <1>6, <1>7, <1>8 DEF f, IsFilled

LEMMA WordIsAt ==
  /\ \A w : Word(w) = At(memory, w)
  /\ \A w : Word(w)' = At(memory', w)
BY DEF Word, At

LEMMA WordIsInt ==
  ASSUME IsMemory(memory), NEW w
  PROVE  Word(w) \in Int
BY DEF IsMemory, Word, Bad

\* Different blocks share no byte; a block has one size.
LEMMA HoldsApart ==
  ASSUME ArenaInv, NEW a \in Arenas, NEW b \in Arenas, NEW p \in Nat, NEW q \in Nat,
         NEW s \in Nat, NEW t \in Nat, Holds(a, p, s), Holds(b, q, t)
  PROVE  (a = b /\ p = q /\ s = t) \/ p + s <= q \/ q + t <= p
<1>1. PICK i \in 1..Len(blocks[a]) : blocks[a][i].address = p /\ blocks[a][i].size = s
  BY DEF Holds
<1>2. PICK j \in 1..Len(blocks[b]) : blocks[b][j].address = q /\ blocks[b][j].size = t
  BY DEF Holds
<1>3. CASE a = b /\ i = j
  BY <1>1, <1>2, <1>3
<1>4. CASE a # b \/ i # j
  BY <1>1, <1>2, <1>4 DEF ArenaInv, BlocksAreApart, Apart
<1> QED
  BY <1>3, <1>4

\* A block is at no null address, and has memory of its arena only.
LEMMA HoldsFacts ==
  ASSUME ArenaInv, NotNull, NEW a \in Arenas, NEW p, NEW s, Holds(a, p, s)
  PROVE  /\ p \in Nat /\ p # Null /\ s \in Nat \ {0}
         /\ \A d \in Arenas : d # a => \A k \in 1..Len(chunks[d]) :
              LET c == chunks[d][k] IN p + s <= c.base \/ c.base + c.capacity <= p
<1>1. PICK i \in 1..Len(blocks[a]) : blocks[a][i].address = p /\ blocks[a][i].size = s
  BY DEF Holds
<1>2. p \in Nat /\ s \in Nat \ {0}
  <2>1. blocks[a][i] \in Block
    BY DEF ArenaInv, ArenaTypeOK
  <2> QED
    BY <1>1, <2>1 DEF Block
<1>3. PICK k \in 1..Len(chunks[a]) : Within(blocks[a][i], chunks[a][k]) /\ chunks[a][k].used <= chunks[a][k].capacity
  BY <1>1 DEF ArenaInv, BlocksAreApart, BlockOK
<1> DEFINE e == chunks[a][k]
<1>4. e \in Chunk /\ e.base # Null
  BY DEF ArenaInv, ArenaTypeOK, NotNull
<1>5. e.base <= p /\ p + s <= e.base + e.used /\ e.used <= e.capacity
  BY <1>1, <1>3 DEF Within
<1>6. /\ e.base \in Nat \ {0} /\ e.used \in Nat /\ e.capacity \in Nat
  BY <1>4 DEF Chunk, Null
<1>7. ASSUME NEW d \in Arenas, d # a, NEW l \in 1..Len(chunks[d])
      PROVE  LET c == chunks[d][l] IN p + s <= c.base \/ c.base + c.capacity <= p
  <2> DEFINE c == chunks[d][l]
  <2>1. Disjoint(e, c)
    BY <1>7 DEF ArenaInv, ChunksAreApart
  <2>2. c \in Chunk
    BY DEF ArenaInv, ArenaTypeOK
  <2>3. c.base \in Nat /\ c.capacity \in Nat
    BY <2>2 DEF Chunk
  <2>4. e.base + e.capacity <= c.base \/ c.base + c.capacity <= e.base
    BY <2>1 DEF Disjoint
  <2> HIDE DEF e, c
  <2>5. p + s <= c.base \/ c.base + c.capacity <= p
    <3>1. \A x, y \in Nat : x + y \in Nat
      OBVIOUS
    <3>2. \A x, y, z \in Nat : x <= y /\ y <= z => x <= z
      OBVIOUS
    <3>3. p + s \in Nat /\ e.base + e.used \in Nat /\ e.base + e.capacity \in Nat /\ c.base + c.capacity \in Nat
      BY <1>2, <1>6, <2>3, <3>1
    <3>4. e.base + e.used <= e.base + e.capacity
      BY <1>5, <1>6
    <3>5. p + s <= e.base + e.capacity
      BY <1>5, <3>2, <3>3, <3>4
    <3>6. CASE e.base + e.capacity <= c.base
      BY <2>3, <3>2, <3>3, <3>5, <3>6
    <3>7. CASE c.base + c.capacity <= e.base
      BY <1>2, <1>5, <1>6, <3>2, <3>3, <3>7
    <3> QED
      BY <2>4, <3>6, <3>7
  <2> QED
    BY <2>5 DEF c
<1>8. p # Null
  <2> HIDE DEF e
  <2> QED
    BY <1>2, <1>5, <1>6 DEF Null
<1> QED
  BY <1>2, <1>7, <1>8

\* A block that is allocated is a new one, apart from the others, which stay.
LEMMA AllocatedBlock ==
  ASSUME ArenaInv, NotNull, NEW arena \in Arenas, NEW size \in Nat, NEW alignment \in Alignments,
         NEW place \in Places(arena, size, alignment), Allocate(arena, size, alignment, place)
  PROVE  /\ ArenaInv' /\ NotNull'
         /\ place.address \in Nat /\ place.address # Null
         /\ Holds(arena, place.address, Larger(size, 1))'
         /\ \A a \in Arenas : \A p, s : Holds(a, p, s) =>
              Holds(a, p, s)' /\ (p + s <= place.address \/ place.address + Larger(size, 1) <= p)
<1> DEFINE n == place.n
           c == place.chunk
           m == Len(chunks[arena])
           new == [address |-> place.address, size |-> Larger(size, 1), alignment |-> Larger(alignment, 1)]
           grown == [c EXCEPT !.used = UsedAfter(c, size, alignment)]
           l == Len(blocks[arena])
<1>1. ArenaInv'
  BY AllocateKeepsInv
<1>2. chunks \in [Arenas -> Seq(Chunk)] /\ blocks \in [Arenas -> Seq(Block)]
  BY DEF ArenaInv, ArenaTypeOK
<1>3. /\ chunks' = [chunks EXCEPT ![arena] = [i \in 1..n |-> IF i = n THEN grown ELSE chunks[arena][i]]]
      /\ blocks' = [blocks EXCEPT ![arena] = Append(blocks[arena], new)]
  BY DEF Allocate
<1>4. m \in Nat /\ n \in {m, m + 1} /\ 1 <= n /\ c \in Chunk /\ (n <= m => c = chunks[arena][n])
  BY PlaceFacts
<1>5. /\ place.address = Aligned(c, alignment) /\ Aligned(c, alignment) \in Nat
      /\ c.base + c.used <= Aligned(c, alignment)
  BY PlaceFacts, PlacedBlock
<1>6. c.base # Null
  <2>1. CASE n <= m
    <3>1. n \in 1..Len(chunks[arena])
      BY <1>4, <2>1
    <3> QED
      BY <1>4, <2>1, <3>1 DEF NotNull
  <2>2. CASE n = m + 1
    <3>1. ~(m > 0 /\ HasRoom(chunks[arena][m], size, alignment))
      <4> SUFFICES ASSUME m > 0, HasRoom(chunks[arena][m], size, alignment) PROVE FALSE
        OBVIOUS
      <4>1. place = Place(m, chunks[arena][m], alignment)
        BY DEF Places
      <4> QED
        BY <1>4, <2>2, <4>1 DEF Place
    <3>2. PICK base \in HeapPlaces({b \in Addresses : Free(b, NewCapacity(size, alignment))}) :
            place = Place(m + 1, NewChunk(base, size, alignment), alignment)
      BY <3>1 DEF Places
    <3>3. base \in Addresses
      BY <3>2, ArenaAssumption
    <3> QED
      BY <3>2, <3>3, ExceptionAssumption DEF Place, NewChunk, Null
  <2> QED
    BY <1>4, <2>1, <2>2
<1>7. c.base \in Nat /\ c.used \in Nat /\ grown.base = c.base
  BY <1>4 DEF Chunk
<1>8. place.address \in Nat /\ place.address # Null
  BY <1>5, <1>6, <1>7 DEF Null
<1>9. NotNull'
  <2> SUFFICES ASSUME NEW a \in Arenas, NEW i \in 1..Len(chunks'[a]) PROVE chunks'[a][i].base # Null
    BY DEF NotNull
  <2>1. CASE a # arena
    BY <1>2, <1>3, <2>1 DEF NotNull
  <2>2. CASE a = arena
    <3>1. chunks'[a] = [j \in 1..n |-> IF j = n THEN grown ELSE chunks[arena][j]]
      BY <1>2, <1>3, <2>2
    <3>2. i \in 1..n
      BY <1>4, <3>1
    <3>3. CASE i = n
      BY <1>6, <1>7, <3>1, <3>2, <3>3
    <3>4. CASE i # n
      <4>1. i \in 1..Len(chunks[arena])
        BY <1>4, <3>2, <3>4
      <4> QED
        BY <3>1, <3>2, <3>4, <4>1 DEF NotNull
    <3> QED
      BY <3>3, <3>4
  <2> QED
    BY <2>1, <2>2
<1> HIDE DEF new, grown, c, n, m
<1>10. l \in Nat /\ blocks'[arena] = Append(blocks[arena], new) /\ Len(blocks'[arena]) = l + 1
  BY <1>2, <1>3
<1>11. blocks'[arena][l + 1] = new /\ \A i \in 1..l : blocks'[arena][i] = blocks[arena][i]
  BY <1>2, <1>10
<1>12. Holds(arena, place.address, Larger(size, 1))'
  BY <1>10, <1>11 DEF Holds, new
<1>13. ASSUME NEW a \in Arenas, NEW p, NEW s, Holds(a, p, s)
       PROVE  Holds(a, p, s)' /\ (p + s <= place.address \/ place.address + Larger(size, 1) <= p)
  <2>1. PICK i \in 1..Len(blocks[a]) : blocks[a][i].address = p /\ blocks[a][i].size = s
    BY <1>13 DEF Holds
  <2>2. i \in 1..Len(blocks'[a]) /\ blocks'[a][i] = blocks[a][i] /\ (a = arena => i # l + 1)
    <3>1. CASE a = arena
      BY <1>10, <1>11, <2>1, <3>1
    <3>2. CASE a # arena
      BY <1>2, <1>3, <2>1, <3>2
    <3> QED
      BY <3>1, <3>2
  <2>3. Holds(a, p, s)'
    BY <2>1, <2>2 DEF Holds
  <2>4. l + 1 \in 1..Len(blocks'[arena])
    BY <1>10
  <2>5. Apart(blocks'[a][i], blocks'[arena][l + 1])
    BY <1>1, <2>2, <2>4 DEF ArenaInv, BlocksAreApart
  <2> QED
    BY <1>11, <2>1, <2>2, <2>3, <2>5 DEF Apart, new
<1> QED
  BY <1>1, <1>8, <1>9, <1>12, <1>13

-----------------------------------------------------------------------------
(* Chains of records.                                                        *)

LEMMA LeastElement ==
  ASSUME NEW S \in SUBSET Nat, S # {}
  PROVE  \E x \in S : \A y \in S : x <= y
<1> DEFINE R == OpToRel(<, Nat)
<1>1. IsWellFoundedOn(R, Nat)
  BY NatLessThanWellFounded
<1> HIDE DEF R
<1>2. PICK x \in S : \A y \in S : ~(<<y, x>> \in R)
  BY <1>1, WFMin, Zenon
<1>3. \A y \in S : y < x => <<y, x>> \in R
  BY DEF R, OpToRel
<1>4. \A y \in S : x \in Nat /\ y \in Nat /\ ~(y < x)
  BY <1>2, <1>3
<1>5. \A y \in S : x <= y
  BY <1>4
<1> QED
  BY <1>5

\* A walk along a chain finds its records, and then the null pointer.
LEMMA WalkFacts ==
  ASSUME NEW v \in Nat, v # Null, NEW s \in Seq(Nat), Chain(v, s), \A i \in 1..Len(s) : s[i] # Null,
         NEW n \in Nat, n <= Len(s) + 2
  PROVE  \A i \in 1..n :
           Walk(v, n)[i] = IF i = 1 THEN v ELSE IF i <= Len(s) + 1 THEN s[i - 1] ELSE Null
<1> DEFINE at == Walk(v, n)
           f == [i \in 1..n |-> IF i = 1 THEN v ELSE IF i <= Len(s) + 1 THEN s[i - 1] ELSE Null]
           Next1(g, i) == IF i = 1 THEN v
                          ELSE IF g[i - 1] \in {Null, Bad} THEN g[i - 1] ELSE Word(Link(g[i - 1]))
<1>1. Len(s) \in Nat /\ \A i \in 1..Len(s) : s[i] \in Nat /\ s[i] \notin {Null, Bad}
  BY DEF Bad
<1>2. /\ Word(Link(v)) = (IF Len(s) = 0 THEN Null ELSE s[1])
      /\ \A i \in 1..Len(s) : Word(Link(s[i])) = (IF i = Len(s) THEN Null ELSE s[i + 1])
  BY DEF Chain
<1>3. v \notin {Null, Bad}
  BY DEF Bad
<1>4. ASSUME NEW i \in 1..n
      PROVE  f[i] = Next1(f, i)
  <2>1. CASE i = 1
    BY <2>1
  <2>2. CASE i = 2
    <3>1. f[1] = v /\ f[2] = (IF Len(s) = 0 THEN Null ELSE s[1])
      BY <1>1, <2>2
    <3> QED
      BY <1>2, <1>3, <2>2, <3>1
  <2>3. CASE i > 2
    <3>1. i - 2 \in 1..Len(s) /\ i - 1 \in 1..n /\ i - 1 # 1 /\ i - 1 <= Len(s) + 1 /\ (i - 1) - 1 = i - 2
      BY <1>1, <2>3
    <3>2. f[i - 1] = s[i - 2]
      BY <3>1
    <3>3. f[i - 1] \notin {Null, Bad}
      BY <1>1, <3>1, <3>2
    <3>4. Word(Link(f[i - 1])) = IF i - 2 = Len(s) THEN Null ELSE s[i - 1]
      <4>1. (i - 2) + 1 = i - 1
        OBVIOUS
      <4> QED
        BY <1>2, <3>1, <3>2, <4>1
    <3>5. f[i] = IF i - 2 = Len(s) THEN Null ELSE s[i - 1]
      BY <1>1, <2>3, <3>1
    <3> HIDE DEF f
    <3> QED
      BY <2>3, <3>3, <3>4, <3>5
  <2> QED
    BY <2>1, <2>2, <2>3
<1>5. f = [i \in 1..n |-> Next1(f, i)]
  <2>1. f = [i \in 1..n |-> f[i]]
    OBVIOUS
  <2> HIDE DEF f, Next1
  <2> QED
    BY <1>4, <2>1
<1>6. at = [i \in 1..n |-> Next1(at, i)]
  <2> HIDE DEF f
  <2> QED
    BY <1>5, Zenon DEF Walk
<1> HIDE DEF f, at
<1> DEFINE S == {i \in 1..n : at[i] # f[i]}
<1>7. S = {}
  <2> SUFFICES ASSUME S # {} PROVE FALSE
    OBVIOUS
  <2>1. S \in SUBSET Nat
    OBVIOUS
  <2>2. PICK x \in S : \A y \in S : x <= y
    <3> HIDE DEF S
    <3> QED
      BY <2>1, LeastElement
  <2>3. x \in 1..n /\ at[x] # f[x]
    OBVIOUS
  <2>4. at[x] = Next1(at, x) /\ f[x] = Next1(f, x)
    <3> HIDE DEF Next1
    <3> QED
      BY <1>4, <1>6, <2>3
  <2>5. x # 1
    BY <2>3, <2>4
  <2>6. x - 1 \in 1..n /\ ~(x <= x - 1)
    BY <2>3, <2>5
  <2>7. x - 1 \notin S
    BY <2>2, <2>6
  <2>8. at[x - 1] = f[x - 1]
    BY <2>6, <2>7
  <2> QED
    BY <2>3, <2>4, <2>8
<1> QED
  BY <1>7 DEF f, at

\* A step that leaves a finished record where it is, and as it is.
RecordStays(r) == Record(r)' /\ ~BeingMade(r)' /\ Word(r)' = Word(r) /\ Word(Link(r))' = Word(Link(r))
RecordsStay == \A r : Record(r) /\ ~BeingMade(r) => RecordStays(r)

\* A value that keeps its words, or has those of another one, keeps its chain.
LEMMA ValueCopied ==
  ASSUME NEW u \in Nat, NEW v \in Nat, ValueOK(u), RecordsStay,
         \A i \in 0..3 : Word(v + i)' = Word(u + i), InMemory(v, ExceptionSize)',
         v \in DOMAIN origin', origin'[v] = origin[u]
  PROVE  ValueOK(v)'
<1>1. /\ Word(Count(v))' = Word(Count(u)) /\ Word(Link(v))' = Word(Link(u)) /\ Word(v)' = Word(u)
      /\ Word(Truncated(v))' = Word(Truncated(u))
  <2>1. v + 0 = v /\ u + 0 = u
    OBVIOUS
  <2> QED
    BY <2>1 DEF Count, Link, Truncated
<1>2. Word(Count(v))' \in Nat /\ (~origin'[v].whole => origin'[v].of = Unknown)
  BY <1>1 DEF ValueOK
<1>3. CASE origin[u].whole
  <2>1. PICK s \in Seq(Nat) : Chain(u, s) /\ (origin[u].of # Unknown => Copied(u, s, origin[u].of))
    BY <1>3 DEF ValueOK
  <2>2. \A i \in 1..Len(s) : RecordStays(s[i])
    BY <2>1 DEF Chain, RecordsStay
  <2>3. Chain(v, s)'
    BY <1>1, <2>1, <2>2 DEF Chain, RecordStays
  <2>4. (origin[v].of # Unknown => Copied(v, s, origin[v].of))'
    BY <1>1, <2>1, <2>2 DEF Copied, RecordStays
  <2> QED
    BY <1>2, <1>3, <2>3, <2>4 DEF ValueOK
<1>4. CASE ~origin[u].whole
  BY <1>2, <1>4 DEF ValueOK
<1> QED
  BY <1>3, <1>4

\* The variables that a script can name have values.
LEMMA InScopeFacts ==
  ASSUME ExceptionsInv, NEW v \in InScope \cup Variables
  PROVE  /\ \E arena \in 0..Len(frames) : IsVariable(arena, v)
         /\ \A arena \in 0..Len(frames) : IsVariable(arena, v) => Holds(arena, v, ExceptionSize)
         /\ v \in Nat /\ v # Null /\ ValueOK(v)
<1>1. /\ Len(frames) \in 1..MaxFrames /\ frames \in Seq(Seq(Int)) /\ global \in Nat
      /\ 0..MaxFrames \subseteq Arenas
  BY ExceptionAssumption DEF ExceptionsInv, ExceptionTypeOK
<1>2. \E arena \in 0..Len(frames) : IsVariable(arena, v)
  <2>1. CASE v = global /\ v # Null
    <3>1. Global \in 0..Len(frames)
      BY <1>1 DEF Global
    <3> QED
      BY <2>1, <3>1 DEF IsVariable
  <2>2. CASE \E f \in 1..Len(frames) : v \in BindingsOf(f)
    <3>1. PICK f \in 1..Len(frames) : v \in BindingsOf(f)
      BY <2>2
    <3>2. f \in 0..Len(frames)
      BY <1>1
    <3> QED
      BY <3>1, <3>2 DEF IsVariable, BindingsOf
  <2>3. Executor \in 1..Len(frames)
    BY <1>1 DEF Executor
  <2> QED
    BY <2>1, <2>2, <2>3 DEF InScope, Variables
<1>3. PICK arena \in 0..Len(frames) : IsVariable(arena, v)
  BY <1>2
<1>4. v \in Int
  <2>1. CASE arena \in 1..Len(frames)
    BY <1>1, <1>3, <2>1 DEF IsVariable, Global
  <2>2. CASE arena \notin 1..Len(frames)
    BY <1>1, <1>3, <2>2 DEF IsVariable
  <2> QED
    BY <2>1, <2>2
<1>5. \A d \in 0..Len(frames) : IsVariable(d, v) => v \in Nat /\ Holds(d, v, ExceptionSize) /\ ValueOK(v)
  BY <1>4 DEF ExceptionsInv, VariablesOK
<1>6. arena \in Arenas
  BY <1>1, <1>3, ExceptionAssumption
<1>7. v # Null
  BY <1>3, <1>5, <1>6, HoldsFacts DEF ExceptionsInv
<1> QED
  BY <1>2, <1>3, <1>5, <1>7

\* The records of a chain are not null, and apart from the value itself.
LEMMA ChainFacts ==
  ASSUME ArenaInv, NotNull, NEW a \in Arenas, NEW v \in Nat, Holds(a, v, ExceptionSize),
         NEW s \in Seq(Nat), Chain(v, s)
  PROVE  \A i \in 1..Len(s) : s[i] # Null /\ s[i] # v
<1> SUFFICES ASSUME NEW i \in 1..Len(s) PROVE s[i] # Null /\ s[i] # v
  OBVIOUS
<1>1. Holds(Global, s[i], RecordSize)
  BY DEF Chain, Record
<1>2. Global \in Arenas /\ s[i] \in Nat
  BY ExceptionAssumption DEF Global
<1>3. s[i] # Null
  BY <1>1, <1>2, HoldsFacts
<1>4. s[i] # v
  <2>1. ExceptionSize \in Nat /\ RecordSize \in Nat /\ ExceptionSize # RecordSize
    BY DEF ExceptionSize, RecordSize
  <2>2. s[i] + RecordSize <= v \/ v + ExceptionSize <= s[i]
    BY <1>1, <1>2, <2>1, HoldsApart
  <2> QED
    BY <1>2, <2>2 DEF ExceptionSize, RecordSize
<1> QED
  BY <1>3, <1>4

LEMMA InvImpliesChains == ExceptionsInv => ChainsStayWhole
<1> SUFFICES ASSUME ExceptionsInv, NEW v \in Variables, origin[v].whole
             PROVE  LET n == Word(Count(v))
                        at == Walk(v, n + 1)
                        chain == origin[v].of
                    IN /\ \A i \in 1..n : at[i] \notin {Null, Bad} /\ \A j \in 1..(i - 1) : at[i] # at[j]
                       /\ IF n = 0 THEN Word(Link(v)) = Null ELSE at[n + 1] = Null
                       /\ chain # Unknown =>
                            /\ n = Smaller(Len(chain), MaxRecords)
                            /\ \A i \in 1..n : Word(at[i]) = chain[i]
                            /\ (Word(Truncated(v)) = 1) = (Len(chain) > MaxRecords)
  BY DEF ChainsStayWhole
<1> DEFINE n == Word(Count(v))
           at == Walk(v, n + 1)
           chain == origin[v].of
<1>1. v \in Nat /\ v # Null /\ ValueOK(v)
  BY InScopeFacts
<1>2. PICK arena \in 0..Len(frames) : IsVariable(arena, v) /\ Holds(arena, v, ExceptionSize)
  BY InScopeFacts
<1>3. arena \in Arenas
  BY ExceptionAssumption DEF ExceptionsInv, ExceptionTypeOK
<1>4. n \in Nat
  BY <1>1 DEF ValueOK
<1>5. PICK s \in Seq(Nat) : Chain(v, s) /\ (chain # Unknown => Copied(v, s, chain))
  BY <1>1 DEF ValueOK
<1>6. Len(s) \in Nat /\ (n = Len(s) + 1 \/ (n = 0 /\ Len(s) = 0))
  BY <1>5 DEF Chain
<1>7. \A i \in 1..Len(s) : s[i] # Null /\ s[i] # v /\ s[i] \in Nat
  BY <1>1, <1>2, <1>3, <1>5, ChainFacts DEF ExceptionsInv
<1>8. \A i \in 1..(n + 1) : at[i] = IF i = 1 THEN v ELSE IF i <= Len(s) + 1 THEN s[i - 1] ELSE Null
  <2>1. n + 1 \in Nat /\ n + 1 <= Len(s) + 2
    BY <1>4, <1>6
  <2> QED
    BY <1>1, <1>5, <1>7, <2>1, WalkFacts
<1> HIDE DEF n, at, chain
<1>9. ASSUME NEW i \in 1..n
      PROVE  at[i] = IF i = 1 THEN v ELSE s[i - 1]
  <2>1. i \in 1..(n + 1) /\ i <= Len(s) + 1
    BY <1>4, <1>6
  <2> QED
    BY <1>8, <2>1
<1>10. \A i, j \in 1..Len(s) : s[i] = s[j] => i = j
  BY <1>5 DEF Chain
<1>11. ASSUME NEW i \in 1..n
       PROVE  at[i] \notin {Null, Bad} /\ \A j \in 1..(i - 1) : at[i] # at[j]
  <2>1. CASE i = 1
    BY <1>1, <1>9, <2>1 DEF Bad
  <2>2. CASE i # 1
    <3>1. i - 1 \in 1..Len(s) /\ at[i] = s[i - 1]
      BY <1>4, <1>6, <1>9, <2>2
    <3>2. at[i] \notin {Null, Bad}
      BY <1>7, <3>1 DEF Bad
    <3>3. ASSUME NEW j \in 1..(i - 1) PROVE at[i] # at[j]
      <4>1. j \in 1..n
        BY <1>4
      <4>2. CASE j = 1
        BY <1>7, <1>9, <3>1, <4>1, <4>2
      <4>3. CASE j # 1
        <5>1. j - 1 \in 1..Len(s) /\ at[j] = s[j - 1] /\ j - 1 # i - 1
          BY <1>4, <1>6, <1>9, <4>1, <4>3
        <5> QED
          BY <1>10, <3>1, <5>1
      <4> QED
        BY <4>2, <4>3
    <3> QED
      BY <3>2, <3>3
  <2> QED
    BY <2>1, <2>2
<1>12. IF n = 0 THEN Word(Link(v)) = Null ELSE at[n + 1] = Null
  <2>1. CASE n = 0
    BY <1>5, <1>6, <2>1 DEF Chain
  <2>2. CASE n # 0
    <3>1. n + 1 \in 1..(n + 1) /\ n + 1 # 1 /\ ~(n + 1 <= Len(s) + 1)
      BY <1>4, <1>6, <2>2
    <3> QED
      BY <1>8, <2>2, <3>1
  <2> QED
    BY <2>1, <2>2
<1>13. ASSUME chain # Unknown
       PROVE  /\ n = Smaller(Len(chain), MaxRecords)
              /\ \A i \in 1..n : Word(at[i]) = chain[i]
              /\ (Word(Truncated(v)) = 1) = (Len(chain) > MaxRecords)
  <2>1. /\ n = Smaller(Len(chain), MaxRecords)
        /\ n > 0 => Word(v) = chain[1]
        /\ \A i \in 1..Len(s) : Word(s[i]) = chain[i + 1]
        /\ Word(Truncated(v)) = (IF Len(chain) > MaxRecords THEN 1 ELSE 0)
    BY <1>5, <1>13 DEF Copied, n
  <2>2. ASSUME NEW i \in 1..n PROVE Word(at[i]) = chain[i]
    <3>1. CASE i = 1
      BY <1>4, <1>9, <2>1, <3>1
    <3>2. CASE i # 1
      <4>1. i - 1 \in 1..Len(s) /\ at[i] = s[i - 1] /\ (i - 1) + 1 = i
        BY <1>4, <1>6, <1>9, <3>2
      <4> QED
        BY <2>1, <4>1
    <3> QED
      BY <3>1, <3>2
  <2> QED
    BY <2>1, <2>2
<1> QED
  BY <1>11, <1>12, <1>13 DEF n, at, chain

-----------------------------------------------------------------------------
(* What is thrown.                                                           *)

LEMMA SmallerFacts ==
  ASSUME NEW a \in Nat, NEW b \in Nat
  PROVE  Smaller(a, b) \in Nat /\ Smaller(a, b) <= a /\ Smaller(a, b) <= b
BY DEF Smaller

LEMMA CaptureFacts ==
  ASSUME NEW chain \in Seq(Int)
  PROVE  FaultOK(Capture(chain))
<1> DEFINE n == Smaller(Len(chain), MaxRecords)
           records == SubSeq(chain, 1, n)
<1>1. n \in Nat /\ n <= Len(chain) /\ Len(chain) \in Nat
  <2>1. Len(chain) \in Nat /\ MaxRecords \in Nat
    BY ExceptionAssumption
  <2> QED
    BY <2>1, SmallerFacts
<1> HIDE DEF n
<1>2. records \in Seq(Int) /\ Len(records) = n /\ \A i \in 1..n : records[i] = chain[i]
  BY <1>1
<1> HIDE DEF records
<1>3. Capture(chain) =
        [kind |-> "fault", records |-> records, truncated |-> Len(chain) > MaxRecords, of |-> chain]
  BY DEF Capture, records, n
<1>4. (Len(chain) > MaxRecords) \in BOOLEAN
  OBVIOUS
<1> QED
  BY <1>1, <1>2, <1>3, <1>4 DEF FaultOK, n

\* A value that is thrown as it was caught raises what was raised.
LEMMA SnapshotFacts ==
  ASSUME ExceptionsInv, NEW v \in InScope
  PROVE  FaultOK(Snapshot(v))
<1> DEFINE n == Smaller(Word(Count(v)), MaxRecords)
           at == Walk(v, n)
           chain == origin[v].of
           records == [i \in 1..n |-> IF at[i] = Null THEN Zero ELSE Word(at[i])]
           truncated == Word(Truncated(v)) # 0 \/ Word(Count(v)) > MaxRecords
<1>1. v \in Nat /\ v # Null /\ ValueOK(v)
  BY InScopeFacts
<1>2. Word(Count(v)) \in Nat /\ v \in DOMAIN origin
  BY <1>1 DEF ValueOK
<1>3. n \in Nat /\ n <= Word(Count(v)) /\ n <= MaxRecords
  BY <1>2, SmallerFacts, ExceptionAssumption
<1>4. chain \in Seq(Int)
  BY <1>2 DEF ExceptionsInv, ExceptionTypeOK
<1>5. CASE \E i \in 1..n : at[i] = Bad
  <2>1. Snapshot(v) = Capture(<<AccessViolation>>)
    BY <1>5 DEF Snapshot
  <2>2. <<AccessViolation>> \in Seq(Int)
    BY ExceptionAssumption
  <2> QED
    BY <2>1, <2>2, CaptureFacts
<1>6. CASE ~\E i \in 1..n : at[i] = Bad
  <2>1. Snapshot(v) = [kind |-> "fault", records |-> records, truncated |-> truncated, of |-> chain]
    BY <1>6 DEF Snapshot
  <2>2. records \in Seq(Int) /\ Len(records) = n
    <3>1. \A w : Word(w) \in Int
      BY WordIsInt DEF ExceptionsInv, ExceptionTypeOK
    <3>2. records \in [1..n -> Int]
      BY <3>1 DEF Zero
    <3> HIDE DEF records, n
    <3>3. records \in Seq(Int)
      BY <1>3, <3>2
    <3> QED
      BY <1>3, <3>2, <3>3
  <2>3. truncated \in BOOLEAN
    OBVIOUS
  <2>4. ASSUME chain # Unknown
        PROVE  /\ n = Smaller(Len(chain), MaxRecords)
               /\ \A i \in 1..n : records[i] = chain[i]
               /\ truncated = (Len(chain) > MaxRecords)
    <3>1. PICK s \in Seq(Nat) : Chain(v, s) /\ Copied(v, s, chain)
      BY <1>1, <2>4 DEF ValueOK
    <3>2. /\ Word(Count(v)) = Smaller(Len(chain), MaxRecords)
          /\ Word(Count(v)) > 0 => Word(v) = chain[1]
          /\ \A i \in 1..Len(s) : Word(s[i]) = chain[i + 1]
          /\ Word(Truncated(v)) = (IF Len(chain) > MaxRecords THEN 1 ELSE 0)
      BY <3>1 DEF Copied
    <3>3. Len(chain) \in Nat /\ MaxRecords \in Nat /\ Len(s) \in Nat
      BY <1>4, ExceptionAssumption
    <3>4. n = Word(Count(v)) /\ ~(Word(Count(v)) > MaxRecords)
      BY <1>2, <3>2, <3>3 DEF Smaller
    <3>5. n = Smaller(Len(chain), MaxRecords)
      BY <3>2, <3>4
    <3>6. truncated = (Len(chain) > MaxRecords)
      BY <3>2, <3>4
    <3>7. n <= Len(s) + 1
      BY <1>3, <3>1, <3>3, <3>4 DEF Chain
    <3>8. PICK arena \in 0..Len(frames) : IsVariable(arena, v) /\ Holds(arena, v, ExceptionSize)
      BY InScopeFacts
    <3>9. arena \in Arenas
      BY <3>8, ExceptionAssumption DEF ExceptionsInv, ExceptionTypeOK
    <3>10. \A i \in 1..Len(s) : s[i] # Null
      BY <1>1, <3>1, <3>8, <3>9, ChainFacts DEF ExceptionsInv
    <3>11. \A i \in 1..n : at[i] = IF i = 1 THEN v ELSE IF i <= Len(s) + 1 THEN s[i - 1] ELSE Null
      <4> HIDE DEF n
      <4> QED
        BY <1>1, <1>3, <3>1, <3>3, <3>7, <3>10, WalkFacts
    <3> HIDE DEF at, n, chain
    <3>12. ASSUME NEW i \in 1..n PROVE records[i] = chain[i]
      <4>1. CASE i = 1
        BY <1>1, <1>3, <3>2, <3>4, <3>11, <4>1
      <4>2. CASE i # 1
        <5>1. i - 1 \in 1..Len(s) /\ at[i] = s[i - 1] /\ (i - 1) + 1 = i
          BY <1>3, <3>3, <3>7, <3>11, <4>2
        <5>2. records[i] = Word(s[i - 1])
          BY <3>10, <5>1
        <5> QED
          BY <3>2, <5>1, <5>2
      <4> QED
        BY <4>1, <4>2
    <3> QED
      BY <3>5, <3>6, <3>12 DEF n
  <2> HIDE DEF records, n, chain, truncated
  <2> QED
    BY <1>4, <2>1, <2>2, <2>3, <2>4 DEF FaultOK
<1> QED
  BY <1>5, <1>6

-----------------------------------------------------------------------------
(* Steps that leave memory alone.                                            *)

LEMMA InvFacts ==
  ASSUME ExceptionsInv
  PROVE  /\ Executor \in 1..MaxFrames /\ Executor = Len(frames) /\ Executor # Global
         /\ Executor \in Arenas /\ Global \in Arenas /\ \A a \in 0..Len(frames) : a \in Arenas
         /\ frames \in Seq(Seq(Int)) /\ Scopes \in Seq(Int) /\ global \in Nat
         /\ (flight # None => work = None)
         /\ IsMemory(memory)
         /\ ArenaInv /\ NotNull
         /\ origin \in [DOMAIN origin -> [of : Seq(Int), whole : BOOLEAN]]
<1>1. /\ frames \in Seq(Seq(Int)) /\ Len(frames) \in 1..MaxFrames /\ global \in Nat
      /\ 0..MaxFrames \subseteq Arenas
  BY ExceptionAssumption DEF ExceptionsInv, ExceptionTypeOK
<1>2. MaxFrames \in Nat
  BY ExceptionAssumption
<1>3. Executor \in 1..MaxFrames /\ Executor = Len(frames) /\ Executor # Global
  BY <1>1, <1>2 DEF Executor, Global
<1>4. Executor \in Arenas /\ Global \in Arenas /\ \A a \in 0..Len(frames) : a \in Arenas
  BY <1>1, <1>2, <1>3 DEF Global
<1>5. Scopes \in Seq(Int)
  BY <1>1, <1>3 DEF Scopes
<1> QED
  BY <1>1, <1>3, <1>4, <1>5 DEF ExceptionsInv, ExceptionTypeOK, WorkOK

\* With the same memory, arenas and values, there are no new variables.
LEMMA MemoryStays ==
  ASSUME ExceptionsInv, UNCHANGED <<arenaVars, memory, global, work, origin>>, work = None,
         frames' \in Seq(Seq(Int)), Len(frames') \in 1..MaxFrames, (flight = None \/ FaultOK(flight))',
         \A arena \in 0..Len(frames'), v \in Int :
           IsVariable(arena, v)' => arena \in 0..Len(frames) /\ IsVariable(arena, v)
  PROVE  ExceptionsInv'
<1>1. chunks' = chunks /\ blocks' = blocks /\ memory' = memory /\ origin' = origin /\ work' = work /\ global' = global
  BY DEF arenaVars
<1>2. ArenaInv'
  BY <1>1 DEF ExceptionsInv, ArenaInv, ArenaTypeOK, ChunksHoldTheirBlocks, ChunksAreApart, BlocksAreApart, BlockOK
<1>3. NotNull'
  BY <1>1 DEF ExceptionsInv, NotNull
<1>4. ExceptionTypeOK'
  BY <1>1 DEF ExceptionsInv, ExceptionTypeOK, IsMemory
<1>5. WorkOK'
  BY <1>1 DEF WorkOK
<1>6. ASSUME NEW a, NEW p, NEW s PROVE Holds(a, p, s)' = Holds(a, p, s)
  BY <1>1 DEF Holds
<1>7. ASSUME NEW v PROVE ValueOK(v)' = ValueOK(v)
  BY <1>1 DEF ValueOK, InMemory, Chain, Copied, Word, Record, BeingMade, Holds
<1>8. VariablesOK'
  BY <1>6, <1>7 DEF ExceptionsInv, VariablesOK
<1> QED
  BY <1>2, <1>3, <1>4, <1>5, <1>8 DEF ExceptionsInv

LEMMA ThrowKeepsInv ==
  ASSUME ExceptionsInv, NativeFault \/ \E v \in InScope : Throw(v)
  PROVE  ExceptionsInv'
<1>1. UNCHANGED <<arenaVars, memory, frames, global, work, origin>> /\ work = None
  BY DEF NativeFault, Throw, Running
<1>2. FaultOK(flight')
  <2>1. CASE NativeFault
    <3>1. PICK chain \in Chains : flight' = Capture(chain)
      BY <2>1 DEF NativeFault
    <3>2. chain \in Seq(Int)
      BY ExceptionAssumption
    <3> QED
      BY <3>1, <3>2, CaptureFacts
  <2>2. ASSUME NEW v \in InScope, Throw(v) PROVE FaultOK(flight')
    BY <2>2, SnapshotFacts DEF Throw
  <2> QED
    BY <2>1, <2>2
<1>3. frames' \in Seq(Seq(Int)) /\ Len(frames') \in 1..MaxFrames
  BY <1>1, InvFacts
<1>4. \A arena \in 0..Len(frames'), v \in Int :
        IsVariable(arena, v)' => arena \in 0..Len(frames) /\ IsVariable(arena, v)
  BY <1>1 DEF IsVariable
<1> QED
  BY <1>1, <1>2, <1>3, <1>4, MemoryStays

LEMMA FrontFacts ==
  ASSUME NEW S, NEW s \in Seq(S), s # <<>>
  PROVE  /\ Front(s) \in Seq(S) /\ Len(Front(s)) = Len(s) - 1 /\ Len(s) \in Nat \ {0}
         /\ \A i \in 1..Len(Front(s)) : i \in 1..Len(s) /\ Front(s)[i] = s[i]
<1>1. Len(s) \in Nat \ {0}
  BY DEF Front
<1> DEFINE n == Len(s) - 1
<1>2. Front(s) = SubSeq(s, 1, n) /\ n \in Nat /\ n <= Len(s)
  BY <1>1 DEF Front
<1>3. \A i \in 1..n : i \in 1..Len(s) /\ s[i] \in S
  BY <1>1
<1> HIDE DEF n
<1>4. /\ SubSeq(s, 1, n) \in Seq(S) /\ Len(SubSeq(s, 1, n)) = n
      /\ \A i \in 1..n : SubSeq(s, 1, n)[i] = s[i]
  BY <1>2, <1>3
<1> QED
  BY <1>1, <1>2, <1>3, <1>4 DEF n

\* A try block is entered, or a scope is left.
LEMMA ScopesKeepInv ==
  ASSUME ExceptionsInv, EnterTry \/ LeaveScope \/ UnwindScope
  PROVE  ExceptionsInv'
<1>1. UNCHANGED <<arenaVars, memory, global, work, origin, flight>> /\ work = None
  BY InvFacts DEF EnterTry, LeaveScope, UnwindScope, Running
<1>2. Executor = Len(frames) /\ Executor \in 1..Len(frames) /\ Scopes \in Seq(Int) /\ frames \in Seq(Seq(Int))
  BY InvFacts
<1> DEFINE scopes == frames'[Executor]
<1>3. /\ scopes \in Seq(Int)
      /\ \A i \in 1..Len(scopes) : scopes[i] = Try \/ \E j \in 1..Len(Scopes) : scopes[i] = Scopes[j]
      /\ frames' = [frames EXCEPT ![Executor] = scopes]
  <2>1. CASE EnterTry
    <3>1. frames' = [frames EXCEPT ![Executor] = Append(Scopes, Try)]
      BY <2>1 DEF EnterTry, Scopes
    <3>2. scopes = Append(Scopes, Try) /\ Try \in Int
      BY <1>2, <3>1 DEF Try
    <3>3. frames' = [frames EXCEPT ![Executor] = scopes]
      BY <3>1, <3>2
    <3> HIDE DEF scopes
    <3>4. scopes \in Seq(Int)
      BY <1>2, <3>2
    <3>5. \A i \in 1..Len(scopes) : scopes[i] = Try \/ \E j \in 1..Len(Scopes) : scopes[i] = Scopes[j]
      BY <1>2, <3>2
    <3> QED
      BY <3>3, <3>4, <3>5
  <2>2. CASE LeaveScope \/ UnwindScope
    <3>1. frames' = [frames EXCEPT ![Executor] = Front(Scopes)] /\ Scopes # <<>>
      BY <2>2 DEF LeaveScope, UnwindScope, Scopes
    <3>2. scopes = Front(Scopes)
      BY <1>2, <3>1
    <3>3. frames' = [frames EXCEPT ![Executor] = scopes]
      BY <3>1, <3>2
    <3> HIDE DEF scopes
    <3>4. scopes \in Seq(Int) /\ \A i \in 1..Len(scopes) : i \in 1..Len(Scopes) /\ scopes[i] = Scopes[i]
      BY <1>2, <3>1, <3>2, FrontFacts
    <3> QED
      BY <3>3, <3>4
  <2> QED
    BY <2>1, <2>2
<1> HIDE DEF scopes
<1>4. frames' \in Seq(Seq(Int)) /\ Len(frames') = Len(frames) /\ Len(frames') \in 1..MaxFrames
  BY <1>2, <1>3, InvFacts
<1>5. ASSUME NEW arena \in 0..Len(frames'), NEW v \in Int, IsVariable(arena, v)'
      PROVE  arena \in 0..Len(frames) /\ IsVariable(arena, v)
  <2>1. CASE arena = Executor
    <3>1. frames'[arena] = scopes /\ arena # Global
      BY <1>2, <1>3, <2>1, InvFacts
    <3>2. PICK i \in 1..Len(scopes) : scopes[i] = v /\ v # Try
      BY <1>5, <3>1 DEF IsVariable
    <3>3. PICK j \in 1..Len(Scopes) : Scopes[j] = v
      BY <1>3, <3>2
    <3> QED
      BY <1>2, <1>4, <2>1, <3>2, <3>3 DEF IsVariable, Scopes
  <2>2. CASE arena # Executor
    <3>1. arena \in 1..Len(frames) => frames'[arena] = frames[arena]
      BY <1>2, <1>3, <2>2
    <3> QED
      BY <1>1, <1>4, <1>5, <3>1 DEF IsVariable
  <2> QED
    BY <2>1, <2>2
<1>6. (flight = None \/ FaultOK(flight))'
  BY <1>1 DEF ExceptionsInv, ExceptionTypeOK, FaultOK
<1> QED
  BY <1>1, <1>4, <1>5, <1>6, MemoryStays

LEMMA CallKeepsInv ==
  ASSUME ExceptionsInv, CallFunction
  PROVE  ExceptionsInv'
<1>1. UNCHANGED <<arenaVars, memory, global, work, origin, flight>> /\ work = None
  BY DEF CallFunction, Running
<1>2. frames' = Append(frames, <<>>) /\ Len(frames) < MaxFrames /\ frames \in Seq(Seq(Int)) /\ MaxFrames \in Nat
  BY InvFacts, ExceptionAssumption DEF CallFunction
<1>3. /\ frames' \in Seq(Seq(Int)) /\ Len(frames') = Len(frames) + 1 /\ Len(frames) \in Nat
      /\ \A i \in 1..Len(frames) : frames'[i] = frames[i]
      /\ Len(frames'[Len(frames) + 1]) = 0
  BY <1>2
<1>4. ASSUME NEW arena \in 0..Len(frames'), NEW v \in Int, IsVariable(arena, v)'
      PROVE  arena \in 0..Len(frames) /\ IsVariable(arena, v)
  <2>1. arena # Len(frames) + 1
    BY <1>3, <1>4 DEF IsVariable, Global
  <2>2. arena \in 0..Len(frames) /\ (arena \in 1..Len(frames') => arena \in 1..Len(frames))
    BY <1>3, <2>1
  <2> QED
    BY <1>1, <1>3, <1>4, <2>2 DEF IsVariable
<1>5. (flight = None \/ FaultOK(flight))'
  BY <1>1 DEF ExceptionsInv, ExceptionTypeOK, FaultOK
<1> QED
  BY <1>1, <1>2, <1>3, <1>4, <1>5, MemoryStays

-----------------------------------------------------------------------------
(* Steps that allocate, write and free.                                      *)

\* The words of a block are the same after a step, and still there.
Kept(p, size) ==
  \A w \in p..(p + size - 1) : Word(w)' = Word(w) /\ (w \in DOMAIN memory => w \in DOMAIN memory')

LEMMA RecordKept ==
  ASSUME NEW r \in Nat, Record(r)', ~BeingMade(r)', Kept(r, RecordSize)
  PROVE  RecordStays(r)
<1>1. r \in r..(r + RecordSize - 1) /\ Link(r) \in r..(r + RecordSize - 1)
  BY DEF RecordSize, Link
<1> QED
  BY <1>1 DEF RecordStays, Kept

LEMMA VariableKept ==
  ASSUME ExceptionsInv, RecordsStay, NEW arena \in 0..Len(frames), NEW v \in Int, IsVariable(arena, v),
         Holds(arena, v, ExceptionSize)', Kept(v, ExceptionSize), v \in DOMAIN origin', origin'[v] = origin[v]
  PROVE  v \in Nat /\ Holds(arena, v, ExceptionSize)' /\ ValueOK(v)'
<1>1. v \in Nat /\ ValueOK(v)
  BY DEF ExceptionsInv, VariablesOK
<1>2. \A i \in 0..3 : v + i \in v..(v + ExceptionSize - 1)
  BY <1>1 DEF ExceptionSize
<1>3. \A i \in 0..3 : Word(v + i)' = Word(v + i)
  BY <1>2 DEF Kept
<1>4. InMemory(v, ExceptionSize)'
  BY <1>1 DEF ValueOK, InMemory, Kept
<1> QED
  BY <1>1, <1>3, <1>4, ValueCopied

\* A new block is filled.
LEMMA FilledBlock ==
  ASSUME ExceptionsInv, NEW arena \in Arenas, NEW size \in Nat \ {0}, NEW place \in Places(arena, size, 1),
         Allocate(arena, size, 1, place), NEW words, AreWords(words, size),
         memory' = Filled(memory, place.address, words)
  PROVE  /\ ArenaInv' /\ NotNull' /\ IsMemory(memory)'
         /\ place.address \in Nat /\ place.address # Null
         /\ Holds(arena, place.address, size)' /\ InMemory(place.address, size)'
         /\ \A i \in 0..(size - 1) : Word(place.address + i)' = words[i]
         /\ \A a \in Arenas : \A p, s : Holds(a, p, s) => Holds(a, p, s)' /\ p # place.address /\ Kept(p, s)
<1> DEFINE to == place.address
<1>1. 1 \in Alignments /\ Larger(size, 1) = size /\ size \in Nat
  BY DEF Alignments, Larger
<1>2. /\ ArenaInv' /\ NotNull' /\ to \in Nat /\ to # Null /\ Holds(arena, to, size)'
      /\ \A a \in Arenas : \A p, s : Holds(a, p, s) => Holds(a, p, s)' /\ (p + s <= to \/ to + size <= p)
  BY <1>1, AllocatedBlock, InvFacts
<1>3. /\ IsMemory(memory') /\ DOMAIN memory' = DOMAIN memory \cup to..(to + size - 1)
      /\ \A w \in Int : w < to \/ to + size <= w => At(memory', w) = At(memory, w)
      /\ \A i \in 0..(size - 1) : At(memory', to + i) = words[i]
  <2>1. IsFilled(memory', memory, to, size, words)
    BY <1>1, <1>2, FilledFacts, InvFacts
  <2> QED
    BY <2>1 DEF IsFilled
<1> HIDE DEF to
<1>4. InMemory(to, size)'
  BY <1>3 DEF InMemory
<1>5. \A i \in 0..(size - 1) : Word(to + i)' = words[i]
  BY <1>3, WordIsAt
<1>6. ASSUME NEW a \in Arenas, NEW p, NEW s, Holds(a, p, s) PROVE p # to /\ Kept(p, s)
  <2>1. p \in Nat /\ s \in Nat \ {0} /\ (p + s <= to \/ to + size <= p)
    BY <1>2, <1>6, HoldsFacts, InvFacts
  <2>2. p # to
    BY <1>1, <1>2, <2>1
  <2>3. ASSUME NEW w \in p..(p + s - 1) PROVE w \in Int /\ (w < to \/ to + size <= w)
    BY <1>1, <1>2, <2>1
  <2>4. Kept(p, s)
    BY <1>3, <2>3, WordIsAt DEF Kept
  <2> QED
    BY <2>2, <2>4
<1> QED
  BY <1>2, <1>3, <1>4, <1>5, <1>6 DEF to

\* A value of another type.
LEMMA AllocateOtherKeepsInv ==
  ASSUME ExceptionsInv, NEW size \in Nat, NEW alignment \in Alignments, AllocateOther(size, alignment)
  PROVE  ExceptionsInv'
<1>1. PICK p \in Places(Executor, size, alignment) : Allocate(Executor, size, alignment, p)
  BY DEF AllocateOther
<1>2. UNCHANGED <<memory, frames, global, work, flight, origin>> /\ work = None
  BY DEF AllocateOther, Running
<1>3. ArenaInv' /\ NotNull' /\ \A a \in Arenas : \A q, s : Holds(a, q, s) => Holds(a, q, s)'
  BY <1>1, AllocatedBlock, InvFacts
<1>4. \A q, s : Kept(q, s)
  BY <1>2 DEF Kept, Word
<1>5. RecordsStay
  <2> SUFFICES ASSUME NEW r, Record(r), ~BeingMade(r) PROVE RecordStays(r)
    BY DEF RecordsStay
  <2>1. r \in Nat /\ Record(r)' /\ ~BeingMade(r)'
    BY <1>2, <1>3, HoldsFacts, InvFacts DEF Record, BeingMade
  <2> QED
    BY <1>4, <2>1, RecordKept
<1>6. VariablesOK'
  <2> SUFFICES ASSUME NEW arena \in 0..Len(frames), NEW v \in Int, IsVariable(arena, v)
               PROVE  v \in Nat /\ Holds(arena, v, ExceptionSize)' /\ ValueOK(v)'
    BY <1>2 DEF VariablesOK, IsVariable
  <2>1. arena \in Arenas /\ Holds(arena, v, ExceptionSize) /\ v \in DOMAIN origin
    BY InvFacts DEF ExceptionsInv, VariablesOK, ValueOK
  <2> QED
    BY <1>2, <1>3, <1>4, <1>5, <2>1, VariableKept
<1>7. ExceptionTypeOK' /\ WorkOK'
  BY <1>2 DEF ExceptionsInv, ExceptionTypeOK, WorkOK, FaultOK
<1> QED
  BY <1>3, <1>6, <1>7 DEF ExceptionsInv

\* The end of a frame frees the blocks of its arena only.
LEMMA EndFrameFacts ==
  ASSUME ExceptionsInv, EndFrame
  PROVE  /\ ArenaInv' /\ NotNull' /\ IsMemory(memory)'
         /\ \A a \in Arenas : \A p, s : a # Executor /\ Holds(a, p, s) => Holds(a, p, s)' /\ Kept(p, s)
<1>1. FreeAll(Executor)
  BY DEF EndFrame
<1>2. ArenaInv'
  BY <1>1, FreeAllKeepsInv, InvFacts
<1>3. /\ chunks' = [chunks EXCEPT ![Executor] = <<>>] /\ blocks' = [blocks EXCEPT ![Executor] = <<>>]
      /\ chunks \in [Arenas -> Seq(Chunk)] /\ blocks \in [Arenas -> Seq(Block)]
  BY <1>1, InvFacts DEF FreeAll, ArenaInv, ArenaTypeOK
<1>4. NotNull'
  <2> SUFFICES ASSUME NEW a \in Arenas, NEW i \in 1..Len(chunks'[a]) PROVE chunks'[a][i].base # Null
    BY DEF NotNull
  <2>1. a # Executor
    BY <1>3
  <2> QED
    BY <1>3, <2>1, InvFacts DEF NotNull
<1> DEFINE Stays(w) == \A i \in 1..Len(chunks[Executor]) :
                         LET c == chunks[Executor][i] IN w < c.base \/ w >= c.base + c.capacity
<1>5. memory' = [w \in {w \in DOMAIN memory : Stays(w)} |-> memory[w]]
  BY DEF EndFrame
<1> HIDE DEF Stays
<1>6. IsMemory(memory)'
  BY <1>5, InvFacts DEF IsMemory
<1>7. ASSUME NEW a \in Arenas, NEW p, NEW s, a # Executor, Holds(a, p, s)
      PROVE  Holds(a, p, s)' /\ Kept(p, s)
  <2>1. Holds(a, p, s)'
    BY <1>3, <1>7 DEF Holds
  <2>2. /\ p \in Nat /\ s \in Nat \ {0}
        /\ \A k \in 1..Len(chunks[Executor]) :
             LET c == chunks[Executor][k] IN p + s <= c.base \/ c.base + c.capacity <= p
    BY <1>7, HoldsFacts, InvFacts
  <2>3. ASSUME NEW w \in p..(p + s - 1) PROVE Stays(w)
    <3> SUFFICES ASSUME NEW k \in 1..Len(chunks[Executor])
                 PROVE  LET c == chunks[Executor][k] IN w < c.base \/ w >= c.base + c.capacity
      BY DEF Stays
    <3> DEFINE c == chunks[Executor][k]
    <3>1. c \in Chunk
      BY <1>3, InvFacts
    <3>2. c.base \in Nat /\ c.capacity \in Nat
      BY <3>1 DEF Chunk
    <3>3. p + s <= c.base \/ c.base + c.capacity <= p
      BY <2>2
    <3> HIDE DEF c
    <3>4. w < c.base \/ w >= c.base + c.capacity
      BY <2>2, <3>2, <3>3
    <3> QED
      BY <3>4 DEF c
  <2>4. Kept(p, s)
    BY <1>5, <2>3 DEF Kept, Word
  <2> QED
    BY <2>1, <2>4
<1> QED
  BY <1>2, <1>4, <1>6, <1>7

LEMMA EndFrameKeepsInv ==
  ASSUME ExceptionsInv, Return \/ UnwindFrame
  PROVE  ExceptionsInv'
<1>1. EndFrame /\ UNCHANGED <<global, work, origin>> /\ work = None
  BY InvFacts DEF Return, UnwindFrame, EndFrame, Running
<1>2. (flight = None \/ FaultOK(flight))'
  <2>1. flight' = flight \/ flight' = None
    BY DEF Return, UnwindFrame
  <2> QED
    BY <2>1 DEF ExceptionsInv, ExceptionTypeOK, FaultOK
<1>3. /\ ArenaInv' /\ NotNull' /\ IsMemory(memory)'
      /\ \A a \in Arenas : \A p, s : a # Executor /\ Holds(a, p, s) => Holds(a, p, s)' /\ Kept(p, s)
  BY <1>1, EndFrameFacts
<1>4. /\ frames' \in Seq(Seq(Int)) /\ Len(frames') \in 1..MaxFrames
      /\ \A arena \in 0..Len(frames'), v \in Int :
           IsVariable(arena, v)' => arena \in 0..Len(frames) /\ arena # Executor /\ IsVariable(arena, v)
  <2>1. frames' = IF Executor = 1 THEN <<<<>>>> ELSE Front(frames)
    BY <1>1 DEF EndFrame
  <2>2. /\ frames \in Seq(Seq(Int)) /\ Executor = Len(frames) /\ Executor \in 1..MaxFrames
        /\ MaxFrames \in Nat /\ Executor # Global
    BY InvFacts, ExceptionAssumption
  <2>3. CASE Executor = 1
    <3>1. frames' = <<<<>>>>
      BY <2>1, <2>3
    <3>2. frames' \in Seq(Seq(Int)) /\ Len(frames') = 1 /\ Len(frames'[1]) = 0
      BY <3>1
    <3>3. ASSUME NEW arena \in 0..Len(frames'), NEW v \in Int, IsVariable(arena, v)'
          PROVE  arena \in 0..Len(frames) /\ arena # Executor /\ IsVariable(arena, v)
      <4>1. arena # 1
        BY <3>2, <3>3 DEF IsVariable, Global
      <4>2. arena = 0
        BY <3>2, <4>1
      <4> QED
        BY <1>1, <2>2, <3>2, <3>3, <4>2 DEF IsVariable
    <3>4. Len(frames') \in 1..MaxFrames
      BY <2>2, <3>2
    <3> QED
      BY <3>2, <3>3, <3>4
  <2>4. CASE Executor # 1
    <3>1. frames' = Front(frames) /\ frames # <<>>
      BY <2>1, <2>2, <2>4
    <3>2. /\ frames' \in Seq(Seq(Int)) /\ Len(frames') = Len(frames) - 1
          /\ \A i \in 1..Len(frames') : frames'[i] = frames[i]
      BY <2>2, <3>1, FrontFacts
    <3>3. \A arena \in 0..Len(frames') : arena \in 0..Len(frames) /\ arena # Executor
      BY <2>2, <3>2
    <3>4. \A arena \in 1..Len(frames') : arena \in 1..Len(frames)
      BY <2>2, <3>2
    <3>5. Len(frames') \in 1..MaxFrames
      BY <2>2, <2>4, <3>2
    <3>6. ASSUME NEW arena \in 0..Len(frames'), NEW v \in Int, IsVariable(arena, v)'
          PROVE  IsVariable(arena, v)
      BY <1>1, <3>2, <3>4, <3>6 DEF IsVariable
    <3> QED
      BY <3>2, <3>3, <3>5, <3>6
  <2> QED
    BY <2>3, <2>4
<1>5. RecordsStay
  <2> SUFFICES ASSUME NEW r, Record(r), ~BeingMade(r) PROVE RecordStays(r)
    BY DEF RecordsStay
  <2>1. r \in Nat /\ Record(r)' /\ Kept(r, RecordSize)
    BY <1>3, HoldsFacts, InvFacts DEF Record
  <2>2. ~BeingMade(r)'
    BY <1>1 DEF BeingMade
  <2> QED
    BY <2>1, <2>2, RecordKept
<1>6. VariablesOK'
  <2> SUFFICES ASSUME NEW arena \in 0..Len(frames'), NEW v \in Int, IsVariable(arena, v)'
               PROVE  v \in Nat /\ Holds(arena, v, ExceptionSize)' /\ ValueOK(v)'
    BY DEF VariablesOK
  <2>1. arena \in 0..Len(frames) /\ arena # Executor /\ IsVariable(arena, v)
    BY <1>4
  <2>2. arena \in Arenas /\ Holds(arena, v, ExceptionSize) /\ v \in DOMAIN origin
    BY <2>1, InvFacts DEF ExceptionsInv, VariablesOK, ValueOK
  <2> QED
    BY <1>1, <1>3, <1>5, <2>1, <2>2, VariableKept
<1>7. ExceptionTypeOK'
  BY <1>1, <1>2, <1>3, <1>4 DEF ExceptionsInv, ExceptionTypeOK
<1>8. WorkOK'
  BY <1>1 DEF WorkOK
<1> QED
  BY <1>3, <1>6, <1>7, <1>8 DEF ExceptionsInv

-----------------------------------------------------------------------------
(* Steps that write a variable.                                              *)

Origins == [of : Seq(Int), whole : BOOLEAN]

LEMMA NewOrigin ==
  ASSUME NEW p, NEW x \in Origins, origin \in [DOMAIN origin -> Origins], origin' = With(origin, p, x)
  PROVE  /\ DOMAIN origin' = DOMAIN origin \cup {p} /\ origin' \in [DOMAIN origin' -> Origins]
         /\ origin'[p] = x /\ \A v \in DOMAIN origin : v # p => origin'[v] = origin[v]
BY DEF With

\* The words that a value is copied from.
LEMMA WordsFacts ==
  ASSUME IsMemory(memory), NEW from \in Nat
  PROVE  AreWords(Words(from, ExceptionSize), ExceptionSize)
         /\ \A i \in 0..3 : Words(from, ExceptionSize)[i] = Word(from + i)
BY WordIsInt DEF AreWords, Words, ExceptionSize

\* Blocks that are apart from the one that is written keep their words.
LEMMA OthersKept ==
  ASSUME ExceptionsInv, NEW a \in Arenas, NEW to \in Nat, Holds(a, to, ExceptionSize),
         NEW words, AreWords(words, ExceptionSize), memory' = Filled(memory, to, words),
         UNCHANGED blocks
  PROVE  /\ IsMemory(memory)' /\ InMemory(to, ExceptionSize)'
         /\ \A i \in 0..3 : Word(to + i)' = words[i]
         /\ \A d \in Arenas : \A p : Holds(d, p, ExceptionSize) /\ p # to => Kept(p, ExceptionSize)
         /\ \A p : Record(p) => Kept(p, RecordSize)
<1>1. ExceptionSize \in Nat /\ RecordSize \in Nat /\ ExceptionSize = 4 /\ RecordSize = 2
  BY DEF ExceptionSize, RecordSize
<1>2. IsFilled(memory', memory, to, ExceptionSize, words)
  BY <1>1, FilledFacts, InvFacts
<1>3. ASSUME NEW p \in Nat, NEW s \in Nat, p + s <= to \/ to + ExceptionSize <= p
      PROVE  Kept(p, s)
  <2>1. ASSUME NEW w \in p..(p + s - 1) PROVE w \in Int /\ (w < to \/ to + ExceptionSize <= w)
    BY <1>1, <1>3
  <2> QED
    BY <1>2, <2>1, WordIsAt DEF Kept, IsFilled
<1>4. ASSUME NEW d \in Arenas, NEW p, Holds(d, p, ExceptionSize), p # to
      PROVE  Kept(p, ExceptionSize)
  <2>1. p \in Nat
    BY <1>4, HoldsFacts, InvFacts
  <2>2. p + ExceptionSize <= to \/ to + ExceptionSize <= p
    BY <1>1, <1>4, <2>1, HoldsApart, InvFacts
  <2> QED
    BY <1>1, <1>3, <2>1, <2>2
<1>5. ASSUME NEW p, Record(p)
      PROVE  Kept(p, RecordSize)
  <2>1. Holds(Global, p, RecordSize) /\ Global \in Arenas
    BY <1>5, InvFacts DEF Record
  <2>2. p \in Nat
    BY <2>1, HoldsFacts, InvFacts
  <2>3. p + RecordSize <= to \/ to + ExceptionSize <= p
    <3>1. ~(p = to /\ RecordSize = ExceptionSize)
      BY <1>1
    <3>2. RecordSize \in Nat /\ ExceptionSize \in Nat
      BY <1>1
    <3> QED
      BY <2>1, <2>2, <3>1, <3>2, HoldsApart, InvFacts
  <2> QED
    BY <1>1, <1>3, <2>2, <2>3
<1>6. IsMemory(memory)' /\ InMemory(to, ExceptionSize)' /\ \A i \in 0..3 : Word(to + i)' = words[i]
  <2>1. \A i \in 0..3 : i \in 0..(ExceptionSize - 1)
    BY <1>1
  <2> QED
    BY <1>2, <2>1, WordIsAt DEF IsFilled, InMemory
<1> QED
  BY <1>4, <1>5, <1>6

\* A variable that is written has a value, and the others keep theirs.
LEMMA WriteKeepsInv ==
  ASSUME ExceptionsInv, NEW to \in InScope, NEW words, AreWords(words, ExceptionSize),
         memory' = Filled(memory, to, words), UNCHANGED <<arenaVars, frames, global, work, flight>>,
         work = None, DOMAIN origin' = DOMAIN origin, origin' \in [DOMAIN origin' -> Origins],
         \A v \in DOMAIN origin : v # to => origin'[v] = origin[v],
         RecordsStay => ValueOK(to)'
  PROVE  ExceptionsInv'
<1>1. to \in Nat /\ to \in DOMAIN origin
  BY InScopeFacts DEF ValueOK
<1>2. PICK a \in 0..Len(frames) : Holds(a, to, ExceptionSize)
  BY InScopeFacts
<1>3. a \in Arenas
  BY InvFacts
<1>4. chunks' = chunks /\ blocks' = blocks /\ frames' = frames /\ global' = global /\ work' = work
  BY DEF arenaVars
<1>5. /\ IsMemory(memory)' /\ InMemory(to, ExceptionSize)'
      /\ \A i \in 0..3 : Word(to + i)' = words[i]
      /\ \A d \in Arenas : \A p : Holds(d, p, ExceptionSize) /\ p # to => Kept(p, ExceptionSize)
      /\ \A p : Record(p) => Kept(p, RecordSize)
  BY <1>1, <1>2, <1>3, <1>4, OthersKept
<1>6. \A d, p, s : Holds(d, p, s)' = Holds(d, p, s)
  BY <1>4 DEF Holds
<1>7. RecordsStay
  <2> SUFFICES ASSUME NEW r, Record(r), ~BeingMade(r) PROVE RecordStays(r)
    BY DEF RecordsStay
  <2>1. r \in Nat
    BY HoldsFacts, InvFacts DEF Record
  <2>2. Record(r)' /\ ~BeingMade(r)'
    BY <1>4 DEF Record, Holds, BeingMade
  <2> QED
    BY <1>5, <2>1, <2>2, RecordKept
<1>8. VariablesOK'
  <2> SUFFICES ASSUME NEW arena \in 0..Len(frames), NEW v \in Int, IsVariable(arena, v)
               PROVE  v \in Nat /\ Holds(arena, v, ExceptionSize)' /\ ValueOK(v)'
    BY <1>4 DEF VariablesOK, IsVariable
  <2>1. arena \in Arenas /\ v \in Nat /\ Holds(arena, v, ExceptionSize) /\ v \in DOMAIN origin
    BY InvFacts DEF ExceptionsInv, VariablesOK, ValueOK
  <2>2. Holds(arena, v, ExceptionSize)'
    BY <1>6, <2>1
  <2>3. CASE v = to
    BY <1>7, <2>1, <2>2, <2>3
  <2>4. CASE v # to
    BY <1>5, <1>7, <2>1, <2>2, <2>4, VariableKept
  <2> QED
    BY <2>3, <2>4
<1>9. ArenaInv' /\ NotNull'
  BY <1>4, InvFacts DEF ArenaInv, ArenaTypeOK, ChunksHoldTheirBlocks, ChunksAreApart, BlocksAreApart, BlockOK, NotNull
<1>10. ExceptionTypeOK' /\ WorkOK'
  BY <1>4, <1>5 DEF ExceptionsInv, ExceptionTypeOK, WorkOK, FaultOK, Origins
<1> QED
  BY <1>8, <1>9, <1>10 DEF ExceptionsInv

LEMMA AssignKeepsInv ==
  ASSUME ExceptionsInv, NEW to \in InScope, NEW from \in InScope, Assign(to, from)
  PROVE  ExceptionsInv'
<1> DEFINE words == Words(from, ExceptionSize)
<1>1. /\ to \in Nat /\ from \in Nat /\ ValueOK(to) /\ ValueOK(from)
      /\ to \in DOMAIN origin /\ from \in DOMAIN origin
  BY InScopeFacts DEF ValueOK
<1>2. AreWords(words, ExceptionSize) /\ \A i \in 0..3 : words[i] = Word(from + i)
  BY <1>1, WordsFacts, InvFacts
<1>3. /\ memory' = Filled(memory, to, words) /\ origin' = [origin EXCEPT ![to] = origin[from]]
      /\ UNCHANGED <<arenaVars, frames, global, work, flight>> /\ work = None
  BY DEF Assign, Running
<1> HIDE DEF words
<1>4. /\ DOMAIN origin' = DOMAIN origin /\ origin' \in [DOMAIN origin' -> Origins]
      /\ origin'[to] = origin[from] /\ \A v \in DOMAIN origin : v # to => origin'[v] = origin[v]
  BY <1>1, <1>3, InvFacts DEF Origins
<1>5. PICK a \in 0..Len(frames) : Holds(a, to, ExceptionSize)
  BY InScopeFacts
<1>6. a \in Arenas /\ UNCHANGED blocks
  BY <1>3, InvFacts DEF arenaVars
<1>7. InMemory(to, ExceptionSize)' /\ \A i \in 0..3 : Word(to + i)' = words[i]
  BY <1>1, <1>2, <1>3, <1>5, <1>6, OthersKept
<1>8. RecordsStay => ValueOK(to)'
  BY <1>1, <1>2, <1>4, <1>7, ValueCopied
<1> QED
  BY <1>2, <1>3, <1>4, <1>8, WriteKeepsInv

\* The words of a value in which one is replaced.
LEMMA EditKeepsInv ==
  ASSUME ExceptionsInv, NEW v \in InScope, Edits(v)
  PROVE  ExceptionsInv'
<1>1. v \in Nat /\ ValueOK(v) /\ v \in DOMAIN origin /\ InMemory(v, ExceptionSize) /\ Word(Count(v)) \in Nat
  BY InScopeFacts DEF ValueOK
<1>2. PICK k \in {1, 2}, word \in Int : /\ Edit(v, v + k, word)
                                        /\ k = 2 => word \in Nat
  <2>1. CASE \E n \in EditedCounts : Edit(v, Count(v), n)
    <3>1. PICK n \in EditedCounts : Edit(v, v + 2, n)
      BY <2>1 DEF Count
    <3>2. n \in Nat
      BY ExceptionAssumption
    <3> QED
      BY <3>1, <3>2
  <2>2. CASE \E p \in {Null, Bad, global} : Edit(v, Link(v), p)
    <3>1. PICK p \in {Null, Bad, global} : Edit(v, v + 1, p)
      BY <2>2 DEF Link
    <3>2. p \in Int
      BY InvFacts DEF Null, Bad
    <3> QED
      BY <3>1, <3>2
  <2> QED
    BY <2>1, <2>2 DEF Edits
<1>3. /\ memory' = [memory EXCEPT ![v + k] = word] /\ origin' = [origin EXCEPT ![v] = Edited]
      /\ UNCHANGED <<arenaVars, frames, global, work, flight>> /\ work = None
  BY <1>2 DEF Edit, Running
<1> DEFINE words == [i \in 0..3 |-> IF i = k THEN word ELSE Word(v + i)]
<1>4. ExceptionSize - 1 = 3 /\ \A i \in 0..3 : v + i \in v..(v + ExceptionSize - 1) /\ v + i \in DOMAIN memory
  BY <1>1 DEF ExceptionSize, InMemory
<1>5. AreWords(words, ExceptionSize)
  <2>1. \A i \in 0..3 : Word(v + i) \in Int
    BY WordIsInt, InvFacts
  <2> QED
    BY <1>4, <2>1 DEF AreWords
<1>6. memory' = Filled(memory, v, words)
  <2>1. DOMAIN words = 0..3
    OBVIOUS
  <2>2. {v + i : i \in 0..3} \subseteq DOMAIN memory
    BY <1>4
  <2>3. Filled(memory, v, words) = [a \in DOMAIN memory |-> IF a - v \in 0..3 THEN words[a - v] ELSE memory[a]]
    BY <2>1, <2>2 DEF Filled
  <2>4. /\ memory = [a \in DOMAIN memory |-> memory[a]] /\ DOMAIN memory \subseteq Nat
    BY InvFacts DEF IsMemory
  <2>5. memory' = [a \in DOMAIN memory |-> IF a = v + k THEN word ELSE memory[a]]
    BY <1>3, <2>4
  <2>6. ASSUME NEW a \in DOMAIN memory
        PROVE  (IF a - v \in 0..3 THEN words[a - v] ELSE memory[a]) = (IF a = v + k THEN word ELSE memory[a])
    <3>1. a \in Nat /\ k \in {1, 2}
      BY <2>4
    <3>2. CASE a - v \in 0..3
      <4>1. v + (a - v) = a /\ (a - v = k <=> a = v + k)
        BY <1>1, <3>1
      <4>2. Word(a) = memory[a]
        BY DEF Word
      <4> QED
        BY <3>2, <4>1, <4>2
    <3>3. CASE a - v \notin 0..3
      BY <1>1, <3>1, <3>3
    <3> QED
      BY <3>2, <3>3
  <2> QED
    BY <2>3, <2>5, <2>6
<1>7. words[2] \in Nat
  <2>1. CASE k = 2
    BY <1>2, <2>1
  <2>2. CASE k # 2
    BY <1>1, <2>2 DEF Count
  <2> QED
    BY <2>1, <2>2
<1> HIDE DEF words
<1>8. /\ DOMAIN origin' = DOMAIN origin /\ origin' \in [DOMAIN origin' -> Origins]
      /\ origin'[v] = Edited /\ \A w \in DOMAIN origin : w # v => origin'[w] = origin[w]
  <2>1. Edited \in Origins
    BY DEF Edited, Unknown, Origins
  <2> QED
    BY <1>1, <1>3, <2>1, InvFacts DEF Origins
<1>9. PICK a \in 0..Len(frames) : Holds(a, v, ExceptionSize)
  BY InScopeFacts
<1>10. a \in Arenas /\ UNCHANGED blocks
  BY <1>3, InvFacts DEF arenaVars
<1>11. InMemory(v, ExceptionSize)' /\ Word(v + 2)' = words[2]
  BY <1>1, <1>5, <1>6, <1>9, <1>10, OthersKept
<1>12. ValueOK(v)'
  BY <1>1, <1>7, <1>8, <1>11 DEF ValueOK, Edited, Count
<1> QED
  BY <1>3, <1>5, <1>6, <1>8, <1>12, WriteKeepsInv

-----------------------------------------------------------------------------
(* Steps that make a value.                                                  *)

\* What was there before a new block was filled stays.
LEMMA FillKeepsValues ==
  ASSUME ExceptionsInv, NEW arena \in Arenas, NEW size \in Nat \ {0}, NEW place \in Places(arena, size, 1),
         Allocate(arena, size, 1, place), NEW words, AreWords(words, size),
         memory' = Filled(memory, place.address, words),
         \A r : BeingMade(r)' => BeingMade(r) \/ r = place.address
  PROVE  /\ RecordsStay
         /\ \A a \in 0..Len(frames), v \in Int :
              IsVariable(a, v) /\ v \in DOMAIN origin' /\ origin'[v] = origin[v] =>
                v \in Nat /\ Holds(a, v, ExceptionSize)' /\ ValueOK(v)'
<1>1. \A a \in Arenas : \A p, s : Holds(a, p, s) => Holds(a, p, s)' /\ p # place.address /\ Kept(p, s)
  BY FilledBlock
<1>2. RecordsStay
  <2> SUFFICES ASSUME NEW r, Record(r), ~BeingMade(r) PROVE RecordStays(r)
    BY DEF RecordsStay
  <2>1. r \in Nat /\ Record(r)' /\ r # place.address /\ Kept(r, RecordSize)
    BY <1>1, HoldsFacts, InvFacts DEF Record
  <2>2. ~BeingMade(r)'
    BY <2>1
  <2> QED
    BY <2>1, <2>2, RecordKept
<1>3. ASSUME NEW a \in 0..Len(frames), NEW v \in Int,
             IsVariable(a, v), v \in DOMAIN origin', origin'[v] = origin[v]
      PROVE  v \in Nat /\ Holds(a, v, ExceptionSize)' /\ ValueOK(v)'
  <2>1. a \in Arenas /\ Holds(a, v, ExceptionSize)
    BY <1>3, InvFacts DEF ExceptionsInv, VariablesOK
  <2>2. Holds(a, v, ExceptionSize)' /\ Kept(v, ExceptionSize)
    BY <1>1, <2>1
  <2> QED
    BY <1>2, <1>3, <2>2, VariableKept
<1> QED
  BY <1>2, <1>3

LEMMA ZerosFacts ==
  /\ AreWords(Zeros(ExceptionSize), ExceptionSize) /\ AreWords(Zeros(RecordSize), RecordSize)
  /\ \A i \in 0..3 : Zeros(ExceptionSize)[i] = Zero
  /\ ExceptionSize \in Nat \ {0} /\ RecordSize \in Nat \ {0}
BY DEF AreWords, Zeros, Zero, ExceptionSize, RecordSize

LEMMA LiteralKeepsInv ==
  ASSUME ExceptionsInv, EvaluateLiteral
  PROVE  ExceptionsInv'
<1>1. PICK p \in Places(Executor, ExceptionSize, 1) :
        /\ Allocate(Executor, ExceptionSize, 1, p)
        /\ memory' = Filled(memory, p.address, Zeros(ExceptionSize))
        /\ work' = [kind |-> "literal", value |-> p.address]
  BY DEF EvaluateLiteral
<1>2. UNCHANGED <<frames, global, flight, origin>> /\ work = None /\ flight = None
  BY DEF EvaluateLiteral, Running
<1>3. /\ ArenaInv' /\ NotNull' /\ IsMemory(memory)' /\ p.address \in Nat
      /\ \A i \in 0..(ExceptionSize - 1) : Word(p.address + i)' = Zeros(ExceptionSize)[i]
  BY <1>1, ZerosFacts, FilledBlock, InvFacts
<1>4. \A r : ~BeingMade(r)'
  BY <1>1 DEF BeingMade
<1>5. \A a \in 0..Len(frames), v \in Int :
        IsVariable(a, v) /\ v \in DOMAIN origin' /\ origin'[v] = origin[v] =>
          v \in Nat /\ Holds(a, v, ExceptionSize)' /\ ValueOK(v)'
  BY <1>1, <1>4, ZerosFacts, FillKeepsValues, InvFacts
<1>6. VariablesOK'
  <2> SUFFICES ASSUME NEW arena \in 0..Len(frames), NEW v \in Int, IsVariable(arena, v)
               PROVE  v \in Nat /\ Holds(arena, v, ExceptionSize)' /\ ValueOK(v)'
    BY <1>2 DEF VariablesOK, IsVariable
  <2>1. v \in DOMAIN origin
    BY DEF ExceptionsInv, VariablesOK, ValueOK
  <2> QED
    BY <1>2, <1>5, <2>1
<1>7. LiteralOK'
  <2> SUFFICES ASSUME NEW w \in p.address..(p.address + 3) PROVE Word(w)' = Zero
    BY <1>1 DEF LiteralOK
  <2>1. w - p.address \in 0..3 /\ p.address + (w - p.address) = w
    BY <1>3
  <2>2. w - p.address \in 0..(ExceptionSize - 1)
    BY <2>1 DEF ExceptionSize
  <2> QED
    BY <1>3, <2>1, <2>2, ZerosFacts
<1>8. ExceptionTypeOK' /\ WorkOK'
  BY <1>1, <1>2, <1>3, <1>7 DEF ExceptionsInv, ExceptionTypeOK, WorkOK
<1> QED
  BY <1>3, <1>6, <1>8 DEF ExceptionsInv

\* A global variable begins with no record.
LEMMA DefineKeepsInv ==
  ASSUME ExceptionsInv, DefineGlobal
  PROVE  ExceptionsInv'
<1> DEFINE words == Words(work.value, ExceptionSize)
<1>1. PICK p \in Places(Global, ExceptionSize, 1) :
        /\ Allocate(Global, ExceptionSize, 1, p)
        /\ memory' = Filled(memory, p.address, words)
        /\ global' = p.address
  BY DEF DefineGlobal
<1>2. origin' = With(origin, p.address, Initial) /\ work' = None /\ UNCHANGED <<frames, flight>> /\ work.kind = "literal"
  BY <1>1 DEF DefineGlobal
<1>3. flight = None /\ work.value \in Nat /\ LiteralOK
  BY <1>2 DEF ExceptionsInv, WorkOK, None
<1>4. AreWords(words, ExceptionSize) /\ \A i \in 0..3 : words[i] = Zero
  <2>1. AreWords(words, ExceptionSize) /\ \A i \in 0..3 : words[i] = Word(work.value + i)
    BY <1>3, WordsFacts, InvFacts
  <2>2. \A i \in 0..3 : work.value + i \in work.value..(work.value + 3)
    BY <1>3
  <2> QED
    BY <1>3, <2>1, <2>2 DEF LiteralOK
<1> HIDE DEF words
<1>5. /\ ArenaInv' /\ NotNull' /\ IsMemory(memory)' /\ p.address \in Nat
      /\ \A i \in 0..(ExceptionSize - 1) : Word(p.address + i)' = words[i]
      /\ Holds(Global, p.address, ExceptionSize)' /\ InMemory(p.address, ExceptionSize)'
      /\ \A a \in Arenas : \A q, s : Holds(a, q, s) => q # p.address
  BY <1>1, <1>4, ZerosFacts, FilledBlock, InvFacts
<1>6. \A r : ~BeingMade(r)'
  BY <1>2 DEF BeingMade, None
<1>7. \A a \in 0..Len(frames), v \in Int :
        IsVariable(a, v) /\ v \in DOMAIN origin' /\ origin'[v] = origin[v] =>
          v \in Nat /\ Holds(a, v, ExceptionSize)' /\ ValueOK(v)'
  BY <1>1, <1>4, <1>6, ZerosFacts, FillKeepsValues, InvFacts
<1>8. /\ DOMAIN origin' = DOMAIN origin \cup {p.address} /\ origin' \in [DOMAIN origin' -> Origins]
      /\ origin'[p.address] = Initial /\ \A v \in DOMAIN origin : v # p.address => origin'[v] = origin[v]
  <2>1. Initial \in Origins
    BY DEF Initial, Unknown, Origins
  <2> QED
    BY <1>2, <2>1, NewOrigin, InvFacts DEF Origins
<1>9. ValueOK(p.address)'
  <2>1. p.address + 1 = Link(p.address) /\ p.address + 2 = Count(p.address)
    BY DEF Link, Count
  <2>2. Word(Link(p.address))' = Zero /\ Word(Count(p.address))' = Zero
    <3>1. 1 \in 0..(ExceptionSize - 1) /\ 2 \in 0..(ExceptionSize - 1) /\ 1 \in 0..3 /\ 2 \in 0..3
      BY DEF ExceptionSize
    <3> QED
      BY <1>4, <1>5, <2>1, <3>1
  <2>3. Chain(p.address, <<>>)'
    BY <2>2 DEF Chain, Zero, Null
  <2>4. <<>> \in Seq(Nat) /\ Zero \in Nat
    BY DEF Zero
  <2>5. origin'[p.address].whole /\ origin'[p.address].of = Unknown
    BY <1>8 DEF Initial
  <2>6. \E s \in Seq(Nat) : Chain(p.address, s)' /\ (origin'[p.address].of # Unknown => Copied(p.address, s, origin[p.address].of)')
    BY <2>3, <2>4, <2>5
  <2> QED
    BY <1>5, <1>8, <2>2, <2>4, <2>5, <2>6 DEF ValueOK
<1>10. VariablesOK'
  <2> SUFFICES ASSUME NEW arena \in 0..Len(frames), NEW v \in Int, IsVariable(arena, v)'
               PROVE  v \in Nat /\ Holds(arena, v, ExceptionSize)' /\ ValueOK(v)'
    BY <1>2 DEF VariablesOK
  <2>1. CASE arena = Global
    BY <1>1, <1>2, <1>5, <1>9, <2>1 DEF IsVariable, Global
  <2>2. CASE arena # Global
    <3>1. IsVariable(arena, v)
      BY <1>2, <2>2 DEF IsVariable
    <3>2. v \in DOMAIN origin /\ arena \in Arenas /\ Holds(arena, v, ExceptionSize)
      BY <3>1, InvFacts DEF ExceptionsInv, VariablesOK, ValueOK
    <3>3. v # p.address
      BY <1>5, <3>2
    <3> QED
      BY <1>7, <1>8, <3>1, <3>2, <3>3
  <2> QED
    BY <2>1, <2>2
<1>11. ExceptionTypeOK' /\ WorkOK'
  BY <1>1, <1>2, <1>3, <1>5, <1>8 DEF ExceptionsInv, ExceptionTypeOK, WorkOK, Origins
<1> QED
  BY <1>5, <1>10, <1>11 DEF ExceptionsInv

\* The value of a catch clause begins as a block that no variable has.
LEMMA CatchKeepsInv ==
  ASSUME ExceptionsInv, Catch
  PROVE  ExceptionsInv'
<1>1. PICK p \in Places(Executor, ExceptionSize, 1) :
        /\ Allocate(Executor, ExceptionSize, 1, p)
        /\ memory' = Filled(memory, p.address, Zeros(ExceptionSize))
        /\ work' = [kind |-> "exception", fault |-> flight, records |-> <<p.address>>]
  BY DEF Catch
<1>2. /\ UNCHANGED <<global, origin>> /\ flight # None /\ flight' = None /\ Scopes # <<>>
      /\ frames' = [frames EXCEPT ![Executor] = Front(Scopes)]
  BY DEF Catch, Scopes
<1>3. /\ ArenaInv' /\ NotNull' /\ IsMemory(memory)' /\ p.address \in Nat
      /\ \A a : a = Executor => Holds(a, p.address, ExceptionSize)'
      /\ InMemory(p.address, ExceptionSize)'
      /\ \A a \in Arenas : \A q, s : Holds(a, q, s) => q # p.address
  BY <1>1, ZerosFacts, FilledBlock, InvFacts
<1>4. \A r : ~BeingMade(r)'
  BY <1>1 DEF BeingMade
<1>5. \A a \in 0..Len(frames), v \in Int :
        IsVariable(a, v) /\ v \in DOMAIN origin' /\ origin'[v] = origin[v] =>
          v \in Nat /\ Holds(a, v, ExceptionSize)' /\ ValueOK(v)'
  BY <1>1, <1>4, ZerosFacts, FillKeepsValues, InvFacts
<1>6. /\ frames' \in Seq(Seq(Int)) /\ Len(frames') = Len(frames) /\ Executor' = Executor
      /\ \A arena \in 0..Len(frames), v \in Int : IsVariable(arena, v)' => IsVariable(arena, v)
  <2>1. /\ Executor = Len(frames) /\ Executor \in 1..Len(frames) /\ Scopes \in Seq(Int)
        /\ frames \in Seq(Seq(Int)) /\ Executor # Global
    BY InvFacts
  <2>2. Front(Scopes) \in Seq(Int) /\ \A i \in 1..Len(Front(Scopes)) : i \in 1..Len(Scopes) /\ Front(Scopes)[i] = Scopes[i]
    BY <1>2, <2>1, FrontFacts
  <2>3. /\ frames' \in Seq(Seq(Int)) /\ Len(frames') = Len(frames) /\ frames'[Executor] = Front(Scopes)
        /\ \A a \in 1..Len(frames) : a # Executor => frames'[a] = frames[a]
    BY <1>2, <2>1, <2>2
  <2>4. ASSUME NEW arena \in 0..Len(frames), NEW v \in Int, IsVariable(arena, v)' PROVE IsVariable(arena, v)
    <3>1. CASE arena = Executor
      BY <2>1, <2>2, <2>3, <2>4, <3>1 DEF IsVariable, Scopes
    <3>2. CASE arena # Executor
      BY <1>2, <2>3, <2>4, <3>2 DEF IsVariable
    <3> QED
      BY <3>1, <3>2
  <2> QED
    BY <2>3, <2>4 DEF Executor
<1>7. ASSUME NEW arena \in 0..Len(frames), NEW v \in Int, IsVariable(arena, v)
      PROVE  v \in DOMAIN origin /\ v # p.address
  <2>1. v \in DOMAIN origin /\ arena \in Arenas /\ Holds(arena, v, ExceptionSize)
    BY <1>7, InvFacts DEF ExceptionsInv, VariablesOK, ValueOK
  <2> QED
    BY <1>3, <2>1
<1>8. VariablesOK'
  BY <1>2, <1>5, <1>6, <1>7 DEF VariablesOK
<1>9. MakingOK'
  <2>1. /\ work'.records = <<p.address>> /\ work'.fault = flight /\ Len(work'.records) = 1
        /\ work'.records[1] = p.address /\ work'.records \in Seq(Nat)
        /\ work' = [kind |-> "exception", fault |-> work'.fault, records |-> work'.records]
    BY <1>1, <1>3
  <2>2. FaultOK(flight)
    BY <1>2 DEF ExceptionsInv, ExceptionTypeOK
  <2>3. FaultOK(work.fault)'
    BY <2>1, <2>2 DEF FaultOK
  <2>4. \A arena \in 0..Len(frames') : ~IsVariable(arena, work.records[1])'
    BY <1>3, <1>6, <1>7, <2>1
  <2>5. /\ \A i, j \in 1..Len(work'.records) : work'.records[i] = work'.records[j] => i = j
        /\ \A i \in 2..Len(work'.records) : FALSE
    BY <2>1
  <2>6. Holds(Executor, work.records[1], ExceptionSize)' /\ InMemory(work.records[1], ExceptionSize)'
    BY <1>3, <1>6, <2>1 DEF Holds, InMemory
  <2> QED
    BY <2>1, <2>3, <2>4, <2>5, <2>6 DEF MakingOK
<1>10. ExceptionTypeOK'
  BY <1>2, <1>3, <1>6 DEF ExceptionsInv, ExceptionTypeOK
<1>11. WorkOK'
  BY <1>1, <1>2, <1>9 DEF WorkOK
<1> QED
  BY <1>3, <1>8, <1>10, <1>11 DEF ExceptionsInv

\* A value in the making, and one that gets a further record.
Making(fault, records) == [kind |-> "exception", fault |-> fault, records |-> records]

HasRecords(x, w, more) == x = [w EXCEPT !.records = more]

LEMMA MoreRecords ==
  ASSUME NEW w, NEW x, NEW fault, NEW records, NEW more, w = Making(fault, records), HasRecords(x, w, more)
  PROVE  x = Making(fault, more)
BY DEF Making, HasRecords

\* A further record is a new block of the Runtime's arena.
LEMMA AllocateRecordKeepsInv ==
  ASSUME ExceptionsInv, AllocateRecord
  PROVE  ExceptionsInv'
<1> DEFINE R == work.records
           n == Len(work.records)
<1>1. PICK p \in Places(Global, RecordSize, 1) :
        /\ Allocate(Global, RecordSize, 1, p)
        /\ memory' = Filled(memory, p.address, Zeros(RecordSize))
        /\ work' = [work EXCEPT !.records = Append(R, p.address)]
  BY DEF AllocateRecord, RecordArena
<1>2. /\ UNCHANGED <<frames, global, flight, origin>> /\ work.kind = "exception"
      /\ n < Len(work.fault.records)
  BY DEF AllocateRecord
<1>3. /\ flight = None /\ MakingOK
  BY <1>2 DEF ExceptionsInv, WorkOK, None
<1>4. /\ ArenaInv' /\ NotNull' /\ IsMemory(memory)' /\ p.address \in Nat
      /\ Holds(Global, p.address, RecordSize)' /\ InMemory(p.address, RecordSize)'
      /\ \A a \in Arenas : \A q, s : Holds(a, q, s) => Holds(a, q, s)' /\ q # p.address /\ Kept(q, s)
  BY <1>1, ZerosFacts, FilledBlock, InvFacts
<1>5. /\ R \in Seq(Nat) /\ n \in Nat \ {0}
      /\ FaultOK(work.fault) /\ work.fault.records \in Seq(Int)
      /\ \A i, j \in 1..n : R[i] = R[j] => i = j
      /\ \A i \in 2..n : Record(R[i]) /\ InMemory(R[i], RecordSize)
      /\ Holds(Executor, R[1], ExceptionSize) /\ InMemory(R[1], ExceptionSize)
      /\ \A arena \in 0..Len(frames) : ~IsVariable(arena, R[1])
  BY <1>3 DEF MakingOK, FaultOK
<1>6. work' = [kind |-> "exception", fault |-> work.fault, records |-> Append(R, p.address)]
  <2>1. work = Making(work.fault, R)
    BY <1>3 DEF MakingOK, Making
  <2>2. HasRecords(work', work, Append(R, p.address))
    BY <1>1 DEF HasRecords
  <2>3. work' = Making(work.fault, Append(R, p.address))
    BY <2>1, <2>2, MoreRecords
  <2> QED
    BY <2>3 DEF Making
<1>7. /\ work'.records \in Seq(Nat) /\ Len(work'.records) = n + 1 /\ work'.records[n + 1] = p.address
      /\ \A i \in 1..n : work'.records[i] = R[i]
      /\ work'.fault = work.fault /\ work'.kind = "exception"
      /\ work' = [kind |-> "exception", fault |-> work'.fault, records |-> work'.records]
  BY <1>4, <1>5, <1>6
<1> HIDE DEF n, R
<1>8. ASSUME NEW i \in 1..n PROVE R[i] # p.address
  <2>1. CASE i = 1
    BY <1>4, <1>5, <2>1, InvFacts
  <2>2. CASE i # 1
    <3>1. i \in 2..n
      BY <1>5, <2>2
    <3>2. Holds(Global, R[i], RecordSize)
      BY <1>5, <3>1 DEF Record
    <3> QED
      BY <1>4, <3>2, InvFacts
  <2> QED
    BY <2>1, <2>2
<1>9. \A r : BeingMade(r)' => BeingMade(r) \/ r = p.address
  <2> SUFFICES ASSUME NEW r, BeingMade(r)', r # p.address PROVE BeingMade(r)
    OBVIOUS
  <2>1. PICK i \in 2..(n + 1) : work'.records[i] = r
    BY <1>7 DEF BeingMade
  <2>2. i \in 2..n /\ i \in 1..n
    BY <1>5, <1>7, <2>1
  <2> QED
    BY <1>2, <1>7, <2>1, <2>2 DEF BeingMade, R, n
<1>10. VariablesOK'
  <2>1. \A a \in 0..Len(frames), v \in Int :
          IsVariable(a, v) /\ v \in DOMAIN origin' /\ origin'[v] = origin[v] =>
            v \in Nat /\ Holds(a, v, ExceptionSize)' /\ ValueOK(v)'
    BY <1>1, <1>9, ZerosFacts, FillKeepsValues, InvFacts
  <2> SUFFICES ASSUME NEW arena \in 0..Len(frames), NEW v \in Int, IsVariable(arena, v)
               PROVE  v \in Nat /\ Holds(arena, v, ExceptionSize)' /\ ValueOK(v)'
    BY <1>2 DEF VariablesOK, IsVariable
  <2>2. v \in DOMAIN origin
    BY DEF ExceptionsInv, VariablesOK, ValueOK
  <2> QED
    BY <1>2, <2>1, <2>2
<1>11. MakingOK'
  <2>1. FaultOK(work.fault)' /\ (Len(work.records) <= Len(work.fault.records))'
    <3>1. n + 1 <= Len(work.fault.records)
      BY <1>2, <1>5 DEF n
    <3> QED
      BY <1>5, <1>7, <3>1 DEF FaultOK
  <2>2. ASSUME NEW i \in 1..(n + 1), NEW j \in 1..(n + 1), work'.records[i] = work'.records[j] PROVE i = j
    <3>1. CASE i \in 1..n /\ j \in 1..n
      BY <1>5, <1>7, <2>2, <3>1
    <3>2. CASE i \in 1..n /\ j = n + 1
      BY <1>7, <1>8, <2>2, <3>2
    <3>3. CASE i = n + 1 /\ j \in 1..n
      BY <1>7, <1>8, <2>2, <3>3
    <3> QED
      BY <1>5, <3>1, <3>2, <3>3
  <2>3. ASSUME NEW i \in 2..(n + 1) PROVE Record(work.records[i])' /\ InMemory(work.records[i], RecordSize)'
    <3>1. CASE i = n + 1
      BY <1>4, <1>7, <3>1 DEF Record, InMemory
    <3>2. CASE i # n + 1
      <4>1. i \in 2..n /\ i \in 1..n
        BY <1>5, <3>2
      <4>2. Holds(Global, R[i], RecordSize) /\ InMemory(R[i], RecordSize) /\ work'.records[i] = R[i]
        BY <1>5, <1>7, <4>1 DEF Record
      <4>3. \A q : q = R[i] => Holds(Global, q, RecordSize)' /\ Kept(q, RecordSize)
        BY <1>4, <4>2, InvFacts
      <4> QED
        BY <4>2, <4>3 DEF Record, InMemory, Kept, Holds
    <3> QED
      BY <3>1, <3>2
  <2>4. work'.records[1] = R[1]
    <3>1. 1 \in 1..n
      BY <1>5
    <3> QED
      BY <1>7, <3>1
  <2>5. Holds(Executor, work.records[1], ExceptionSize)' /\ InMemory(work.records[1], ExceptionSize)'
    <3>1. \A q : q = R[1] => Holds(Executor, q, ExceptionSize)' /\ Kept(q, ExceptionSize)
      BY <1>2, <1>4, <1>5, InvFacts DEF Executor
    <3> QED
      BY <1>2, <1>5, <2>4, <3>1 DEF InMemory, Kept, Executor, Holds
  <2>6. \A arena \in 0..Len(frames') : ~IsVariable(arena, work.records[1])'
    BY <1>2, <1>5, <2>4 DEF IsVariable
  <2> QED
    BY <1>5, <1>7, <2>1, <2>2, <2>3, <2>5, <2>6 DEF MakingOK
<1>12. ExceptionTypeOK' /\ WorkOK'
  BY <1>2, <1>3, <1>4, <1>7, <1>11 DEF ExceptionsInv, ExceptionTypeOK, WorkOK
<1> QED
  BY <1>4, <1>10, <1>12 DEF ExceptionsInv

-----------------------------------------------------------------------------
(* The catch clause begins.                                                  *)

AreApart(p, s, q, t) == p + s <= q \/ q + t <= p
Written == 1..Len(work.fault.records)

\* What EnterCatch starts from.
LEMMA CatchFacts ==
  ASSUME ExceptionsInv, work.kind = "exception", Len(work.records) >= Len(work.fault.records)
  PROVE  LET R == work.records  n == Len(work.fault.records) IN
         /\ flight = None /\ FaultOK(work.fault) /\ n \in Nat
         /\ work.fault.records \in Seq(Int) /\ work.fault.of \in Seq(Int)
         /\ R \in Seq(Nat) /\ Len(R) \in Nat /\ Len(R) >= 1 /\ (n >= 1 => Len(R) = n) /\ (n = 0 => Len(R) = 1)
         /\ \A i \in 1..Len(R) : R[i] \in Nat /\ R[i] # Null
         /\ \A i \in 1..Len(R) : \A w \in R[i]..(R[i] + 1) : w \in DOMAIN memory
         /\ \A i \in 2..Len(R) : Record(R[i]) /\ R[i] # R[1]
         /\ Holds(Executor, R[1], ExceptionSize) /\ InMemory(R[1], ExceptionSize)
         /\ \A i, j \in 1..Len(R) : i # j => AreApart(R[i], 2, R[j], 2) /\ R[i] # R[j]
         /\ \A i \in 2..Len(R) : AreApart(R[i], 2, R[1], 4)
         /\ \A arena \in 0..Len(frames) : ~IsVariable(arena, R[1])
<1> DEFINE R == work.records
           n == Len(work.fault.records)
<1>1. flight = None /\ MakingOK
  BY DEF ExceptionsInv, WorkOK, None
<1>2. FaultOK(work.fault) /\ n \in Nat /\ work.fault.records \in Seq(Int) /\ work.fault.of \in Seq(Int)
  BY <1>1 DEF MakingOK, FaultOK
<1>3. /\ R \in Seq(Nat) /\ Len(R) \in Nat /\ Len(R) >= 1 /\ (Len(R) > 1 => Len(R) <= n)
      /\ \A i, j \in 1..Len(R) : R[i] = R[j] => i = j
      /\ \A i \in 2..Len(R) : Record(R[i]) /\ InMemory(R[i], RecordSize)
      /\ Holds(Executor, R[1], ExceptionSize) /\ InMemory(R[1], ExceptionSize)
      /\ \A arena \in 0..Len(frames) : ~IsVariable(arena, R[1])
  BY <1>1 DEF MakingOK
<1>4. Len(R) >= n
  OBVIOUS
<1> HIDE DEF R, n
<1>5. (n >= 1 => Len(R) = n) /\ (n = 0 => Len(R) = 1)
  <2>1. n \in Nat /\ Len(R) \in Nat /\ Len(R) >= 1 /\ (Len(R) > 1 => Len(R) <= n) /\ Len(R) >= n
    BY <1>2, <1>3, <1>4
  <2>2. \A m, l \in Nat : l >= 1 /\ (l > 1 => l <= m) /\ l >= m => (m >= 1 => l = m) /\ (m = 0 => l = 1)
    OBVIOUS
  <2> QED
    BY <2>1, <2>2
<1>6. \A i \in 1..Len(R) : R[i] \in Nat
  BY <1>3
<1>7. RecordSize = 2 /\ ExceptionSize = 4 /\ RecordSize \in Nat /\ ExceptionSize \in Nat
  BY DEF RecordSize, ExceptionSize
<1>8. Global \in Arenas /\ Executor \in Arenas /\ ArenaInv /\ NotNull
  BY InvFacts
<1>9. ASSUME NEW i \in 2..Len(R)
      PROVE  Holds(Global, R[i], RecordSize) /\ R[i] \in Nat /\ AreApart(R[i], 2, R[1], 4) /\ R[1] \in Nat
  <2>1. Holds(Global, R[i], RecordSize)
    BY <1>3, <1>9 DEF Record
  <2>2. R[i] \in Nat /\ R[1] \in Nat
    BY <1>3, <1>6, <1>9
  <2>3. ~(RecordSize = ExceptionSize)
    BY <1>7
  <2>4. R[i] + RecordSize <= R[1] \/ R[1] + ExceptionSize <= R[i]
    BY <1>3, <1>7, <1>8, <2>1, <2>2, <2>3, HoldsApart
  <2> QED
    BY <1>7, <2>1, <2>2, <2>4 DEF AreApart
<1>10. ASSUME NEW i \in 1..Len(R)
       PROVE  R[i] # Null /\ \A w \in R[i]..(R[i] + 1) : w \in DOMAIN memory
  <2>1. CASE i = 1
    <3>1. R[1] # Null
      BY <1>3, <1>8, HoldsFacts
    <3>2. \A w \in R[1]..(R[1] + 3) : w \in DOMAIN memory
      BY <1>3, <1>7 DEF InMemory
    <3>3. R[1] \in Nat
      BY <1>6, <2>1
    <3>4. \A w \in R[1]..(R[1] + 1) : w \in R[1]..(R[1] + 3)
      BY <3>3
    <3> QED
      BY <2>1, <3>1, <3>2, <3>4
  <2>2. CASE i # 1
    <3>1. i \in 2..Len(R)
      BY <1>3, <2>2
    <3>2. R[i] # Null
      BY <1>8, <1>9, <3>1, HoldsFacts
    <3>3. InMemory(R[i], RecordSize)
      BY <1>3, <3>1
    <3> QED
      BY <1>7, <3>2, <3>3 DEF InMemory
  <2> QED
    BY <2>1, <2>2
<1>11. ASSUME NEW i \in 1..Len(R), NEW j \in 1..Len(R), i # j
       PROVE  AreApart(R[i], 2, R[j], 2) /\ R[i] # R[j]
  <2>1. R[i] # R[j] /\ R[i] \in Nat /\ R[j] \in Nat
    BY <1>3, <1>6, <1>11
  <2>2. CASE i \in 2..Len(R) /\ j \in 2..Len(R)
    <3>1. Holds(Global, R[i], RecordSize) /\ Holds(Global, R[j], RecordSize)
      BY <1>9, <2>2
    <3>2. R[i] + RecordSize <= R[j] \/ R[j] + RecordSize <= R[i]
      BY <1>7, <1>8, <2>1, <3>1, HoldsApart
    <3> QED
      BY <1>7, <2>1, <3>2 DEF AreApart
  <2>3. CASE i = 1
    <3>1. j \in 2..Len(R)
      BY <1>3, <1>11, <2>3
    <3>2. AreApart(R[j], 2, R[1], 4)
      BY <1>9, <3>1
    <3> QED
      BY <2>1, <2>3, <3>2 DEF AreApart
  <2>4. CASE j = 1
    <3>1. i \in 2..Len(R)
      BY <1>3, <1>11, <2>4
    <3>2. AreApart(R[i], 2, R[1], 4)
      BY <1>9, <3>1
    <3> QED
      BY <2>1, <2>4, <3>2 DEF AreApart
  <2> QED
    BY <1>3, <2>2, <2>3, <2>4
<1>12. \A i \in 2..Len(R) : Record(R[i]) /\ R[i] # R[1]
  <2>1. \A i \in 2..Len(R) : i \in 1..Len(R) /\ 1 \in 1..Len(R) /\ i # 1
    BY <1>3
  <2> QED
    BY <1>3, <1>11, <2>1
<1> QED
  BY <1>1, <1>2, <1>3, <1>5, <1>6, <1>9, <1>10, <1>11, <1>12 DEF R, n

\* The records are written, and no other word.
LEMMA WriteRecordsFacts ==
  ASSUME ExceptionsInv, work.kind = "exception", Len(work.records) >= Len(work.fault.records)
  PROVE  /\ IsMemory(WriteRecords) /\ DOMAIN WriteRecords = DOMAIN memory
         /\ \A i \in Written : /\ At(WriteRecords, work.records[i]) = RecordWords(i)[0]
                               /\ At(WriteRecords, work.records[i] + 1) = RecordWords(i)[1]
         /\ \A w \in Int : (\A i \in Written : w < work.records[i] \/ work.records[i] + 2 <= w) =>
              At(WriteRecords, w) = At(memory, w)
<1> DEFINE R == work.records
           n == Len(work.fault.records)
           RecordAt(a) == {i \in 1..n : a - R[i] \in 0..1}
           W == WriteRecords
<1>1. /\ n \in Nat /\ work.fault.records \in Seq(Int) /\ R \in Seq(Nat) /\ Len(R) \in Nat /\ (n >= 1 => Len(R) = n)
      /\ \A i \in 1..Len(R) : R[i] \in Nat
      /\ \A i \in 1..Len(R) : \A w \in R[i]..(R[i] + 1) : w \in DOMAIN memory
      /\ \A i, j \in 1..Len(R) : i # j => AreApart(R[i], 2, R[j], 2)
  BY CatchFacts
<1>2. /\ DOMAIN W = DOMAIN memory
      /\ \A a \in DOMAIN memory : W[a] = IF RecordAt(a) = {} THEN memory[a]
                                         ELSE RecordWords(CHOOSE i \in RecordAt(a) : TRUE)[a - R[CHOOSE i \in RecordAt(a) : TRUE]]
      /\ W = [a \in DOMAIN W |-> W[a]]
  BY DEF WriteRecords
<1>3. ASSUME NEW i \in 1..n, NEW j \in 0..1 PROVE RecordWords(i)[j] \in Int
  <2>1. work.fault.records[i] \in Int
    BY <1>1
  <2>2. i < n => work.records[i + 1] \in Int
    <3>1. i < n => i + 1 \in 1..Len(R)
      BY <1>1
    <3> QED
      BY <1>1, <3>1
  <2> QED
    BY <2>1, <2>2 DEF RecordWords, Null
<1> HIDE DEF W, R, n
<1>4. \A i \in 1..n : i \in 1..Len(R) /\ R[i] \in Nat
  BY <1>1
<1>5. DOMAIN memory \subseteq Nat /\ \A a \in DOMAIN memory : memory[a] \in Int
  BY InvFacts DEF IsMemory
<1>6. ASSUME NEW a \in DOMAIN memory, RecordAt(a) # {}
      PROVE  \E i \in 1..n : a - R[i] \in 0..1 /\ W[a] = RecordWords(i)[a - R[i]]
  BY <1>2, <1>6
<1>7. IsMemory(W)
  <2> SUFFICES ASSUME NEW a \in DOMAIN memory PROVE W[a] \in Int
    BY <1>2, <1>5 DEF IsMemory
  <2> HIDE DEF RecordAt
  <2>1. CASE RecordAt(a) = {}
    BY <1>2, <1>5, <2>1
  <2>2. CASE RecordAt(a) # {}
    BY <1>3, <1>6, <2>2
  <2> QED
    BY <2>1, <2>2
<1>8. ASSUME NEW i \in 1..n, NEW j \in 0..1 PROVE At(W, R[i] + j) = RecordWords(i)[j]
  <2> DEFINE a == R[i] + j
  <2>1. a \in DOMAIN memory /\ a - R[i] = j /\ a \in Nat
    <3>1. R[i] \in Nat
      BY <1>4
    <3>2. a \in R[i]..(R[i] + 1) /\ a - R[i] = j /\ a \in Nat
      BY <3>1
    <3> QED
      BY <1>1, <1>4, <3>2
  <2>2. i \in RecordAt(a)
    BY <2>1
  <2>3. PICK k \in 1..n : a - R[k] \in 0..1 /\ W[a] = RecordWords(k)[a - R[k]]
    <3>1. RecordAt(a) # {}
      BY <2>2
    <3> HIDE DEF RecordAt, a
    <3> QED
      BY <1>6, <2>1, <3>1
  <2>4. k = i
    <3> SUFFICES ASSUME k # i PROVE FALSE
      OBVIOUS
    <3>1. AreApart(R[k], 2, R[i], 2) /\ R[k] \in Nat /\ R[i] \in Nat
      BY <1>1, <1>4
    <3> QED
      BY <2>3, <3>1 DEF AreApart
  <2> QED
    BY <1>2, <2>1, <2>3, <2>4 DEF At
<1>9. ASSUME NEW w \in Int, \A i \in 1..n : w < R[i] \/ R[i] + 2 <= w PROVE At(W, w) = At(memory, w)
  <2>1. RecordAt(w) = {}
    BY <1>4, <1>9
  <2> QED
    BY <1>2, <2>1 DEF At
<1>10. \A i \in 1..n : At(W, R[i]) = RecordWords(i)[0] /\ At(W, R[i] + 1) = RecordWords(i)[1]
  <2> SUFFICES ASSUME NEW i \in 1..n PROVE At(W, R[i]) = RecordWords(i)[0] /\ At(W, R[i] + 1) = RecordWords(i)[1]
    OBVIOUS
  <2>1. R[i] + 0 = R[i] /\ 0 \in 0..1 /\ 1 \in 0..1
    BY <1>4
  <2>2. At(W, R[i] + 0) = RecordWords(i)[0] /\ At(W, R[i] + 1) = RecordWords(i)[1]
    BY <1>8, <2>1
  <2> QED
    BY <2>1, <2>2
<1> QED
  BY <1>2, <1>7, <1>9, <1>10 DEF W, R, n, Written

LEMMA CaughtFacts ==
  ASSUME ExceptionsInv, work.kind = "exception", Len(work.records) >= Len(work.fault.records)
  PROVE  LET n == Len(work.fault.records) IN
         /\ AreWords(CaughtValue, ExceptionSize)
         /\ n > 0 => CaughtValue[0] = work.fault.records[1]
         /\ CaughtValue[1] = (IF n > 1 THEN work.records[2] ELSE Null)
         /\ CaughtValue[2] = n /\ CaughtValue[3] = (IF work.fault.truncated THEN 1 ELSE 0)
<1> DEFINE n == Len(work.fault.records)
           R == work.records
           first == IF n = 0 THEN Zero ELSE work.fault.records[1]
           link == IF n > 1 THEN R[2] ELSE Null
           last == IF work.fault.truncated THEN 1 ELSE 0
<1>1. /\ n \in Nat /\ work.fault.records \in Seq(Int) /\ R \in Seq(Nat) /\ Len(R) \in Nat /\ (n >= 1 => Len(R) = n)
      /\ \A i \in 1..Len(R) : R[i] \in Nat
  BY CatchFacts
<1>2. ExceptionSize - 1 = 3
  BY DEF ExceptionSize
<1>3. /\ n > 0 => RecordWords(1)[0] = work.fault.records[1]
      /\ n > 0 => RecordWords(1)[1] = link
  BY <1>1 DEF RecordWords
<1> HIDE DEF n, R
<1>4. first \in Int /\ link \in Int /\ last \in Int /\ n \in Int
  <2>1. n > 0 => work.fault.records[1] \in Int
    BY <1>1 DEF n
  <2>2. n > 1 => 2 \in 1..Len(R)
    BY <1>1
  <2> QED
    BY <1>1, <2>1, <2>2 DEF Zero, Null
<1>5. CaughtValue = [j \in 0..3 |-> CASE j < 2 -> IF n = 0 THEN Zero ELSE RecordWords(1)[j]
                                      [] j = 2 -> n
                                      [] j = 3 -> last]
  BY <1>2 DEF CaughtValue, n
<1> HIDE DEF first, link, last
<1>6. CaughtValue[0] = first /\ CaughtValue[1] = link /\ CaughtValue[2] = n /\ CaughtValue[3] = last
  <2>1. CASE n = 0
    <3>1. first = Zero /\ link = Zero
      BY <2>1 DEF first, link, Zero, Null
    <3> QED
      BY <1>5, <2>1, <3>1
  <2>2. CASE n > 0
    <3>1. first = work.fault.records[1]
      BY <2>2 DEF first
    <3> QED
      BY <1>3, <1>5, <2>2, <3>1
  <2> QED
    BY <1>1, <2>1, <2>2
<1>7. AreWords(CaughtValue, ExceptionSize)
  <2>1. \A j \in 0..3 : CaughtValue[j] \in Int
    BY <1>4, <1>6
  <2> QED
    BY <1>2, <1>5, <2>1 DEF AreWords
<1> QED
  BY <1>6, <1>7 DEF n, R, first, link, last

\* What EnterCatch writes.
LEMMA EnterCatchWrites ==
  ASSUME ExceptionsInv, work.kind = "exception", Len(work.records) >= Len(work.fault.records),
         NEW p \in Places(Executor, ExceptionSize, 1), Allocate(Executor, ExceptionSize, 1, p),
         memory' = Filled(Filled(WriteRecords, work.records[1], CaughtValue), p.address, CaughtValue)
  PROVE  LET R == work.records IN
         /\ ArenaInv' /\ NotNull' /\ IsMemory(memory)' /\ p.address \in Nat
         /\ \A a : a = Executor => Holds(a, p.address, ExceptionSize)'
         /\ InMemory(p.address, ExceptionSize)'
         /\ \A i \in 0..3 : Word(p.address + i)' = CaughtValue[i]
         /\ \A i \in Written \ {1} : \A q : q = R[i] =>
              Word(q)' = RecordWords(i)[0] /\ Word(Link(q))' = RecordWords(i)[1]
         /\ \A a \in Arenas : \A q, s : Holds(a, q, s) =>
              /\ Holds(a, q, s)' /\ q # p.address
              /\ (\A i \in 1..Len(R) : q # R[i]) => Kept(q, s)
<1> DEFINE R == work.records
           n == Len(work.fault.records)
           to == p.address
           W == WriteRecords
           M == Filled(W, R[1], CaughtValue)
<1>1. /\ n \in Nat /\ R \in Seq(Nat) /\ Len(R) \in Nat /\ Len(R) >= 1 /\ (n >= 1 => Len(R) = n)
      /\ \A i \in 1..Len(R) : R[i] \in Nat
      /\ \A i \in 2..Len(R) : Record(R[i])
      /\ Holds(Executor, R[1], ExceptionSize)
      /\ \A i, j \in 1..Len(R) : i # j => AreApart(R[i], 2, R[j], 2)
      /\ \A i \in 2..Len(R) : AreApart(R[i], 2, R[1], 4)
  BY CatchFacts
<1>2. /\ ExceptionSize = 4 /\ RecordSize = 2 /\ Larger(ExceptionSize, 1) = ExceptionSize /\ 1 \in Alignments
      /\ ExceptionSize \in Nat /\ RecordSize \in Nat /\ ExceptionSize \in Nat \ {0}
  BY DEF ExceptionSize, RecordSize, Larger, Alignments
<1>3. /\ ArenaInv' /\ NotNull' /\ to \in Nat
      /\ \A a : a = Executor => Holds(a, to, ExceptionSize)'
      /\ \A a \in Arenas : \A q, s : Holds(a, q, s) => Holds(a, q, s)' /\ (q + s <= to \/ to + 4 <= q)
  <2> HIDE DEF W, M, R, n
  <2>1. Executor \in Arenas /\ ArenaInv /\ NotNull
    BY InvFacts
  <2>2. PICK a \in Arenas : a = Executor
    BY <2>1
  <2>3. p \in Places(a, ExceptionSize, 1) /\ Allocate(a, ExceptionSize, 1, p)
    BY <2>2
  <2>4. /\ ArenaInv' /\ NotNull' /\ p.address \in Nat
        /\ Holds(a, p.address, Larger(ExceptionSize, 1))'
        /\ \A d \in Arenas : \A q, s : Holds(d, q, s) =>
             Holds(d, q, s)' /\ (q + s <= p.address \/ p.address + Larger(ExceptionSize, 1) <= q)
    BY <1>2, <2>1, <2>3, AllocatedBlock
  <2> QED
    BY <1>2, <2>2, <2>4
<1>4. /\ IsMemory(W) /\ DOMAIN W = DOMAIN memory
      /\ \A i \in Written : At(W, R[i]) = RecordWords(i)[0] /\ At(W, R[i] + 1) = RecordWords(i)[1]
      /\ \A w \in Int : (\A i \in Written : w < R[i] \/ R[i] + 2 <= w) => At(W, w) = At(memory, w)
  BY WriteRecordsFacts
<1>5. AreWords(CaughtValue, 4)
  BY <1>2, CaughtFacts
<1>6. R[1] \in Nat
  BY <1>1
<1> HIDE DEF W, R, n, to
<1>7. IsFilled(M, W, R[1], 4, CaughtValue)
  BY <1>4, <1>5, <1>6, FilledFacts
<1> HIDE DEF M
<1>8. IsFilled(memory', M, to, 4, CaughtValue)
  <2>1. memory' = Filled(M, to, CaughtValue)
    BY DEF M, W, R, to
  <2>2. IsMemory(M) /\ 4 \in Nat
    BY <1>7 DEF IsFilled
  <2> QED
    BY <1>3, <1>5, <2>1, <2>2, FilledFacts
<1>9. \A w \in Int : (w < R[1] \/ R[1] + 4 <= w) /\ (w < to \/ to + 4 <= w) => Word(w)' = At(W, w)
  BY <1>7, <1>8, WordIsAt DEF IsFilled
<1>10. IsMemory(memory)' /\ DOMAIN memory \subseteq DOMAIN memory' /\ to..(to + 3) \subseteq DOMAIN memory'
  BY <1>4, <1>7, <1>8 DEF IsFilled
<1>11. InMemory(to, ExceptionSize)'
  <2>1. to + ExceptionSize - 1 = to + 3
    BY <1>2, <1>3
  <2> QED
    BY <1>10, <2>1 DEF InMemory, ExceptionSize
<1>12. \A i \in 0..3 : Word(to + i)' = CaughtValue[i]
  BY <1>8, WordIsAt DEF IsFilled
<1>13. Written = 1..n
  BY DEF Written, n
<1>14. ASSUME NEW i \in Written \ {1}, NEW q, q = R[i]
       PROVE  Word(q)' = RecordWords(i)[0] /\ Word(Link(q))' = RecordWords(i)[1]
  <2>1. i \in 2..Len(R) /\ R[i] \in Nat /\ i \in Written
    BY <1>1, <1>13
  <2>2. AreApart(R[i], 2, R[1], 4) /\ Holds(Global, R[i], RecordSize)
    BY <1>1, <2>1 DEF Record
  <2>3. R[i] + 2 <= to \/ to + 4 <= R[i]
    BY <1>2, <1>3, <2>2, InvFacts
  <2>4. \A w \in {q, q + 1} : w \in Int /\ (w < R[1] \/ R[1] + 4 <= w) /\ (w < to \/ to + 4 <= w)
    BY <1>3, <1>6, <1>14, <2>1, <2>2, <2>3 DEF AreApart
  <2>5. Word(q)' = At(W, q) /\ Word(q + 1)' = At(W, q + 1)
    BY <1>9, <2>4
  <2> QED
    BY <1>4, <1>14, <2>1, <2>5 DEF Link
<1>15. ASSUME NEW a \in Arenas, NEW q, NEW s, Holds(a, q, s)
       PROVE  Holds(a, q, s)' /\ q # to /\ ((\A i \in 1..Len(R) : q # R[i]) => Kept(q, s))
  <2>1. Holds(a, q, s)' /\ q \in Nat /\ s \in Nat \ {0} /\ (q + s <= to \/ to + 4 <= q)
    BY <1>3, <1>15, HoldsFacts, InvFacts
  <2>2. q # to
    BY <1>3, <2>1
  <2>3. ASSUME \A i \in 1..Len(R) : q # R[i] PROVE Kept(q, s)
    <3>1. q + s <= R[1] \/ R[1] + 4 <= q
      <4>1. q # R[1]
        BY <1>1, <2>3
      <4> QED
        BY <1>1, <1>2, <1>6, <1>15, <2>1, <4>1, HoldsApart, InvFacts
    <3>2. ASSUME NEW i \in Written PROVE q + s <= R[i] \/ R[i] + 2 <= q
      <4>1. CASE i = 1
        BY <1>6, <2>1, <3>1, <4>1
      <4>2. CASE i # 1
        <5>1. i \in 2..Len(R) /\ i \in 1..Len(R)
          BY <1>1, <1>13, <4>2
        <5>2. Holds(Global, R[i], RecordSize) /\ R[i] \in Nat /\ q # R[i]
          BY <1>1, <2>3, <5>1 DEF Record
        <5> QED
          BY <1>2, <1>15, <2>1, <5>2, HoldsApart, InvFacts
      <4> QED
        BY <4>1, <4>2
    <3>3. \A i \in Written : R[i] \in Nat
      BY <1>1, <1>13
    <3>4. ASSUME NEW w \in q..(q + s - 1) PROVE Word(w)' = Word(w)
      <4>1. w \in Int /\ q <= w /\ w < q + s
        BY <2>1
      <4>2. (w < R[1] \/ R[1] + 4 <= w) /\ (w < to \/ to + 4 <= w)
        BY <1>3, <1>6, <2>1, <3>1, <4>1
      <4>3. \A i \in Written : w < R[i] \/ R[i] + 2 <= w
        BY <2>1, <3>2, <3>3, <4>1
      <4> QED
        BY <1>4, <1>9, <4>1, <4>2, <4>3, WordIsAt
    <3> QED
      BY <1>10, <3>4 DEF Kept
  <2> QED
    BY <2>1, <2>2, <2>3
<1> QED
  BY <1>3, <1>10, <1>11, <1>12, <1>14, <1>15 DEF R, to

\* The value that a catch clause begins with has the records that were raised.
LEMMA CaughtIsWhole ==
  ASSUME ExceptionsInv, work.kind = "exception", Len(work.records) >= Len(work.fault.records),
         NEW p \in Nat, work' = None, p \in DOMAIN origin',
         origin'[p] = [of |-> work.fault.of, whole |-> TRUE], InMemory(p, ExceptionSize)',
         \A i \in 0..3 : Word(p + i)' = CaughtValue[i],
         \A i \in Written \ {1} : \A q : q = work.records[i] =>
           Record(q)' /\ Word(q)' = RecordWords(i)[0] /\ Word(Link(q))' = RecordWords(i)[1]
  PROVE  ValueOK(p)'
<1> DEFINE R == work.records
           F == work.fault.records
           n == Len(F)
           m == IF n = 0 THEN 0 ELSE n - 1
           rest == [i \in 1..m |-> R[i + 1]]
<1>1. /\ FaultOK(work.fault) /\ n \in Nat /\ Len(R) \in Nat /\ (n >= 1 => Len(R) = n)
      /\ \A i \in 1..Len(R) : R[i] \in Nat
      /\ \A i, j \in 1..Len(R) : i # j => R[i] # R[j]
  BY CatchFacts
<1>2. /\ n > 0 => CaughtValue[0] = F[1]
      /\ CaughtValue[1] = (IF n > 1 THEN R[2] ELSE Null)
      /\ CaughtValue[2] = n /\ CaughtValue[3] = (IF work.fault.truncated THEN 1 ELSE 0)
  BY CaughtFacts
<1>3. /\ n > 0 => Word(p)' = F[1]
      /\ Word(Link(p))' = (IF n > 1 THEN R[2] ELSE Null)
      /\ Word(Count(p))' = n /\ Word(Truncated(p))' = (IF work.fault.truncated THEN 1 ELSE 0)
  <2>1. p + 0 = p /\ p + 1 = Link(p) /\ p + 2 = Count(p) /\ p + 3 = Truncated(p)
    BY DEF Link, Count, Truncated
  <2>2. /\ Word(p)' = CaughtValue[0] /\ Word(p + 1)' = CaughtValue[1]
        /\ Word(p + 2)' = CaughtValue[2] /\ Word(p + 3)' = CaughtValue[3]
    BY <2>1
  <2> HIDE DEF n, R, F
  <2> QED
    BY <1>2, <2>1, <2>2
<1>4. m \in Nat /\ (n > 0 => m = n - 1) /\ (n = 0 => m = 0) /\ (n = m + 1 \/ (n = 0 /\ m = 0))
  BY <1>1
<1>5. \A i \in 1..m : i + 1 \in 1..Len(R) /\ i + 1 \in 1..n /\ i + 1 # 1 /\ n > 1
  BY <1>1, <1>4
<1> HIDE DEF m
<1>6. PICK s \in Seq(Nat) : Len(s) = m /\ \A i \in 1..m : s[i] = R[i + 1]
  <2>1. rest \in [1..m -> Nat]
    BY <1>1, <1>5
  <2>2. \A i \in 1..m : rest[i] = R[i + 1]
    OBVIOUS
  <2> HIDE DEF rest
  <2>3. rest \in Seq(Nat) /\ Len(rest) = m
    BY <1>4, <2>1
  <2> QED
    BY <2>2, <2>3
<1>7. ASSUME NEW i \in 1..m
      PROVE  /\ Record(s[i])' /\ ~BeingMade(s[i])' /\ Word(s[i])' = F[i + 1]
             /\ Word(Link(s[i]))' = (IF i = m THEN Null ELSE s[i + 1])
  <2>1. i + 1 \in Written \ {1}
    BY <1>5 DEF Written
  <2>2. Record(s[i])' /\ Word(s[i])' = RecordWords(i + 1)[0] /\ Word(Link(s[i]))' = RecordWords(i + 1)[1]
    <3>1. \A q : q = R[i + 1] =>
            Record(q)' /\ Word(q)' = RecordWords(i + 1)[0] /\ Word(Link(q))' = RecordWords(i + 1)[1]
      BY <2>1
    <3> QED
      BY <1>6, <3>1
  <2>3. RecordWords(i + 1)[0] = F[i + 1] /\ RecordWords(i + 1)[1] = IF i + 1 < n THEN R[(i + 1) + 1] ELSE Null
    BY DEF RecordWords
  <2>4. (i + 1 < n <=> i # m) /\ (i # m => s[i + 1] = R[(i + 1) + 1])
    <3>1. i + 1 < n <=> i # m
      BY <1>1, <1>4, <1>5
    <3>2. i # m => i + 1 \in 1..m
      BY <1>4
    <3> QED
      BY <1>6, <3>1, <3>2
  <2>5. ~BeingMade(s[i])'
    BY DEF BeingMade, None
  <2> HIDE DEF n, F, R
  <2> QED
    BY <2>2, <2>3, <2>4, <2>5
<1>8. Chain(p, s)'
  <2>1. \A i, j \in 1..m : s[i] = s[j] => i = j
    <3> SUFFICES ASSUME NEW i \in 1..m, NEW j \in 1..m, i # j PROVE s[i] # s[j]
      OBVIOUS
    <3>1. i + 1 # j + 1 /\ s[i] = R[i + 1] /\ s[j] = R[j + 1]
      BY <1>6
    <3> QED
      BY <1>1, <1>5, <3>1
  <2>2. Word(Link(p))' = (IF m = 0 THEN Null ELSE s[1])
    <3>1. CASE m = 0
      BY <1>1, <1>3, <1>4, <3>1
    <3>2. CASE m # 0
      <4>1. 1 \in 1..m /\ n > 1
        BY <1>4, <1>5, <3>2
      <4> QED
        BY <1>3, <1>6, <3>2, <4>1
    <3> QED
      BY <3>1, <3>2
  <2>3. Word(Count(p))' = Len(s) + 1 \/ (Word(Count(p))' = 0 /\ Len(s) = 0)
    BY <1>3, <1>4, <1>6
  <2> HIDE DEF n, F, R
  <2> QED
    BY <1>6, <1>7, <2>1, <2>2, <2>3 DEF Chain
<1>9. ASSUME NEW chain, chain = work.fault.of, chain # Unknown
      PROVE  Copied(p, s, chain)'
  <2>1. /\ n = Smaller(Len(chain), MaxRecords)
        /\ \A i \in 1..n : F[i] = chain[i]
        /\ work.fault.truncated = (Len(chain) > MaxRecords)
    BY <1>1, <1>9 DEF FaultOK
  <2>2. n > 0 => Word(p)' = chain[1]
    <3>1. n > 0 => 1 \in 1..n
      BY <1>1
    <3> HIDE DEF n, F
    <3> QED
      BY <1>3, <2>1, <3>1
  <2>3. \A i \in 1..Len(s) : Word(s[i])' = chain[i + 1]
    <3> HIDE DEF n, F
    <3> QED
      BY <1>5, <1>6, <1>7, <2>1
  <2>4. Word(Count(p))' = n /\ Word(Truncated(p))' = (IF Len(chain) > MaxRecords THEN 1 ELSE 0)
    BY <1>3, <2>1
  <2> HIDE DEF n, F
  <2> QED
    BY <2>1, <2>2, <2>3, <2>4 DEF Copied
<1> HIDE DEF n, R, F
<1>10. origin'[p].whole /\ origin'[p].of = work.fault.of
  OBVIOUS
<1>11. origin'[p].of # Unknown => Copied(p, s, origin[p].of)'
  BY <1>9, <1>10
<1> QED
  BY <1>1, <1>3, <1>6, <1>8, <1>10, <1>11 DEF ValueOK

LEMMA EnterCatchKeepsInv ==
  ASSUME ExceptionsInv, EnterCatch
  PROVE  ExceptionsInv'
<1> DEFINE R == work.records
           caught == [of |-> work.fault.of, whole |-> TRUE]
<1>1. /\ work.kind = "exception" /\ Len(work.records) >= Len(work.fault.records)
      /\ work' = None /\ UNCHANGED <<global, flight>>
  BY DEF EnterCatch
<1>2. PICK p \in Places(Executor, ExceptionSize, 1) :
        /\ Allocate(Executor, ExceptionSize, 1, p)
        /\ memory' = Filled(Filled(WriteRecords, R[1], CaughtValue), p.address, CaughtValue)
        /\ frames' = [frames EXCEPT ![Executor] = Append(Scopes, p.address)]
        /\ origin' = With(origin, p.address, caught)
  BY DEF EnterCatch, Scopes
<1>3. /\ ArenaInv' /\ NotNull' /\ IsMemory(memory)' /\ p.address \in Nat
      /\ \A a : a = Executor => Holds(a, p.address, ExceptionSize)'
      /\ InMemory(p.address, ExceptionSize)'
      /\ \A i \in 0..3 : Word(p.address + i)' = CaughtValue[i]
      /\ \A i \in Written \ {1} : \A q : q = R[i] =>
           Word(q)' = RecordWords(i)[0] /\ Word(Link(q))' = RecordWords(i)[1]
      /\ \A a \in Arenas : \A q, s : Holds(a, q, s) =>
           /\ Holds(a, q, s)' /\ q # p.address
           /\ (\A i \in 1..Len(R) : q # R[i]) => Kept(q, s)
  BY <1>1, <1>2, EnterCatchWrites
<1>4. /\ flight = None /\ Len(R) \in Nat /\ Len(R) >= 1
      /\ Len(work.fault.records) \in Nat /\ (Len(work.fault.records) >= 1 => Len(R) = Len(work.fault.records))
      /\ \A i \in 1..Len(R) : R[i] \in Nat
      /\ \A i \in 2..Len(R) : Record(R[i]) /\ R[i] # R[1]
      /\ Holds(Executor, R[1], ExceptionSize)
      /\ \A arena \in 0..Len(frames) : ~IsVariable(arena, R[1])
      /\ work.fault.of \in Seq(Int)
  BY <1>1, CatchFacts
<1> HIDE DEF R
<1>5. RecordSize \in Nat /\ ExceptionSize \in Nat /\ RecordSize = 2 /\ ExceptionSize = 4
  BY DEF RecordSize, ExceptionSize
<1>6. RecordsStay
  <2> SUFFICES ASSUME NEW r, Record(r), ~BeingMade(r) PROVE RecordStays(r)
    BY DEF RecordsStay
  <2>1. Holds(Global, r, RecordSize) /\ r \in Nat /\ Holds(Global, r, RecordSize)'
    BY <1>3, HoldsFacts, InvFacts DEF Record
  <2>2. ASSUME NEW i \in 1..Len(R) PROVE r # R[i]
    <3>1. CASE i = 1
      <4>1. R[1] \in Nat
        BY <1>4, <3>1
      <4> SUFFICES ASSUME r = R[1] PROVE FALSE
        BY <3>1
      <4>2. r + RecordSize <= R[1] \/ R[1] + ExceptionSize <= r
        BY <1>4, <1>5, <2>1, <4>1, HoldsApart, InvFacts
      <4> QED
        BY <1>5, <2>1, <4>2
    <3>2. CASE i # 1
      <4>1. i \in 2..Len(R)
        BY <1>4, <3>2
      <4> QED
        BY <1>1, <4>1 DEF BeingMade, R
    <3> QED
      BY <3>1, <3>2
  <2>3. Kept(r, RecordSize)
    BY <1>3, <2>1, <2>2, InvFacts
  <2>4. Record(r)' /\ ~BeingMade(r)'
    BY <1>1, <2>1 DEF Record, BeingMade, None
  <2> QED
    BY <2>1, <2>3, <2>4, RecordKept
<1>7. /\ DOMAIN origin' = DOMAIN origin \cup {p.address} /\ origin' \in [DOMAIN origin' -> Origins]
      /\ origin'[p.address] = caught /\ \A v \in DOMAIN origin : v # p.address => origin'[v] = origin[v]
  <2>1. caught \in Origins
    BY <1>4 DEF Origins
  <2> HIDE DEF caught
  <2> QED
    BY <1>2, <2>1, NewOrigin, InvFacts DEF Origins
<1>8. ASSUME NEW a \in 0..Len(frames), NEW v \in Int, IsVariable(a, v)
      PROVE  v \in Nat /\ Holds(a, v, ExceptionSize)' /\ ValueOK(v)'
  <2>1. a \in Arenas /\ v \in Nat /\ Holds(a, v, ExceptionSize) /\ v \in DOMAIN origin
    BY <1>8, InvFacts DEF ExceptionsInv, VariablesOK, ValueOK
  <2>2. ASSUME NEW i \in 1..Len(R) PROVE v # R[i]
    <3>1. CASE i = 1
      BY <1>4, <1>8, <3>1
    <3>2. CASE i # 1
      <4>1. i \in 2..Len(R)
        BY <1>4, <3>2
      <4>2. Holds(Global, R[i], RecordSize) /\ R[i] \in Nat
        BY <1>4, <4>1 DEF Record
      <4>3. R[i] + RecordSize <= v \/ v + ExceptionSize <= R[i]
        <5>1. ~(RecordSize = ExceptionSize) /\ Global \in Arenas /\ ArenaInv
          BY <1>5, InvFacts
        <5> HIDE DEF caught
        <5> QED
          BY <1>5, <2>1, <4>2, <5>1, HoldsApart
      <4> QED
        BY <1>5, <2>1, <4>2, <4>3
    <3> QED
      BY <3>1, <3>2
  <2>3. Holds(a, v, ExceptionSize)' /\ v # p.address /\ Kept(v, ExceptionSize)
    BY <1>3, <2>1, <2>2
  <2>4. v \in DOMAIN origin' /\ origin'[v] = origin[v]
    BY <1>7, <2>1, <2>3
  <2> QED
    BY <1>6, <1>8, <2>3, <2>4, VariableKept
<1>9. ValueOK(p.address)'
  <2>1. ASSUME NEW i \in Written \ {1}, NEW q, q = R[i]
        PROVE  Record(q)' /\ Word(q)' = RecordWords(i)[0] /\ Word(Link(q))' = RecordWords(i)[1]
    <3>1. i \in 2..Len(R)
      BY <1>4 DEF Written
    <3>2. Holds(Global, q, RecordSize)
      BY <1>4, <2>1, <3>1 DEF Record
    <3>3. Holds(Global, q, RecordSize)'
      BY <1>3, <3>2, InvFacts
    <3> QED
      BY <1>3, <2>1, <3>3 DEF Record
  <2>2. p.address \in DOMAIN origin'
    BY <1>7
  <2> QED
    BY <1>1, <1>3, <1>7, <2>1, <2>2, CaughtIsWhole DEF R
<1>10. /\ frames' \in Seq(Seq(Int)) /\ Len(frames') = Len(frames)
       /\ \A arena \in 0..Len(frames), v \in Int :
            IsVariable(arena, v)' => IsVariable(arena, v) \/ (arena = Executor /\ v = p.address)
  <2>1. /\ Executor = Len(frames) /\ Executor \in 1..Len(frames) /\ Scopes \in Seq(Int)
        /\ frames \in Seq(Seq(Int)) /\ Executor # Global
    BY InvFacts
  <2> DEFINE scopes == Append(Scopes, p.address)
  <2>2. /\ scopes \in Seq(Int)
        /\ \A i \in 1..Len(scopes) : scopes[i] = p.address \/ \E j \in 1..Len(Scopes) : scopes[i] = Scopes[j]
    BY <1>3, <2>1
  <2>3. /\ frames' \in Seq(Seq(Int)) /\ Len(frames') = Len(frames) /\ frames'[Executor] = scopes
        /\ \A a \in 1..Len(frames) : a # Executor => frames'[a] = frames[a]
    BY <1>2, <2>1, <2>2
  <2> HIDE DEF scopes
  <2>4. ASSUME NEW arena \in 0..Len(frames), NEW v \in Int, IsVariable(arena, v)'
        PROVE  IsVariable(arena, v) \/ (arena = Executor /\ v = p.address)
    <3>1. CASE arena = Executor
      <4>1. PICK i \in 1..Len(scopes) : scopes[i] = v /\ v # Try
        BY <2>1, <2>3, <2>4, <3>1 DEF IsVariable
      <4> QED
        BY <2>1, <2>2, <3>1, <4>1 DEF IsVariable, Scopes
    <3>2. CASE arena # Executor
      BY <1>1, <2>3, <2>4, <3>2 DEF IsVariable
    <3> QED
      BY <3>1, <3>2
  <2> QED
    BY <2>3, <2>4
<1>11. VariablesOK'
  BY <1>3, <1>8, <1>9, <1>10 DEF VariablesOK
<1>12. ExceptionTypeOK' /\ WorkOK'
  BY <1>1, <1>3, <1>4, <1>7, <1>10 DEF ExceptionsInv, ExceptionTypeOK, WorkOK, Origins
<1> QED
  BY <1>3, <1>11, <1>12 DEF ExceptionsInv

-----------------------------------------------------------------------------
LEMMA InitImpliesInv == Init => ExceptionsInv
<1> SUFFICES ASSUME Init PROVE ExceptionsInv
  OBVIOUS
<1>1. ArenaInit
  BY DEF Init
<1>2. ArenaInv
  BY <1>1, ArenaInitImpliesInv
<1>3. NotNull
  BY <1>1 DEF ArenaInit, NotNull
<1>4. /\ frames \in Seq(Seq(Int)) /\ Len(frames) = 1 /\ Len(frames[1]) = 0 /\ global = Null
  BY DEF Init
<1>5. 1 \in 1..MaxFrames /\ global \in Nat
  BY <1>4, ExceptionAssumption DEF Null
<1>6. memory = [a \in {} |-> Zero] /\ origin = [a \in {} |-> Unknown] /\ flight = None /\ work = None
  BY DEF Init
<1>7. /\ DOMAIN memory = {} /\ memory \in [DOMAIN memory -> Int]
      /\ DOMAIN origin = {} /\ origin \in [DOMAIN origin -> [of : Seq(Int), whole : BOOLEAN]]
  BY <1>6
<1>8. ExceptionTypeOK
  BY <1>4, <1>5, <1>6, <1>7 DEF ExceptionTypeOK, IsMemory
<1>9. VariablesOK
  <2>1. \A arena \in 0..Len(frames), v \in Int : ~IsVariable(arena, v)
    BY <1>4 DEF IsVariable, Global
  <2> QED
    BY <2>1 DEF VariablesOK
<1> QED
  BY <1>2, <1>3, <1>6, <1>8, <1>9 DEF ExceptionsInv, WorkOK

LEMMA StutterKeepsInv ==
  ASSUME ExceptionsInv, UNCHANGED vars
  PROVE  ExceptionsInv'
<1>1. /\ chunks' = chunks /\ blocks' = blocks /\ memory' = memory /\ frames' = frames /\ global' = global
      /\ work' = work /\ flight' = flight /\ origin' = origin
  BY DEF vars, arenaVars
<1>2. ArenaInv' /\ NotNull'
  BY <1>1, InvFacts DEF ArenaInv, ArenaTypeOK, ChunksHoldTheirBlocks, ChunksAreApart, BlocksAreApart, BlockOK, NotNull
<1>3. ExceptionTypeOK'
  BY <1>1 DEF ExceptionsInv, ExceptionTypeOK, IsMemory, FaultOK
<1>4. \A a, p, s : Holds(a, p, s)' = Holds(a, p, s)
  BY <1>1 DEF Holds
<1>5. ASSUME NEW v PROVE ValueOK(v)' = ValueOK(v)
  BY <1>1 DEF ValueOK, InMemory, Chain, Copied, Word, Record, BeingMade, Holds
<1>6. \A a, v : IsVariable(a, v)' = IsVariable(a, v)
  BY <1>1 DEF IsVariable
<1>7. VariablesOK'
  BY <1>1, <1>4, <1>5, <1>6 DEF ExceptionsInv, VariablesOK
<1>8. WorkOK'
  BY <1>1 DEF ExceptionsInv, WorkOK, LiteralOK, MakingOK, FaultOK, Record, Holds, InMemory, IsVariable, Word, Executor
<1> QED
  BY <1>2, <1>3, <1>7, <1>8 DEF ExceptionsInv

\* Whatever is raised, caught, copied, edited and thrown again, and whichever frames end
\* meanwhile, every variable of type NATIVE_EXCEPTION has a block of its own, and a value
\* that no script edited has its records in blocks of the Runtime's arena that are written
\* no more, with what was raised in them.
THEOREM ExceptionsKeepTheirRecords == Spec => []ExceptionsInv
<1>1. Init => ExceptionsInv
  BY InitImpliesInv
<1>2. ExceptionsInv /\ [Next]_vars => ExceptionsInv'
  <2> SUFFICES ASSUME ExceptionsInv, [Next]_vars PROVE ExceptionsInv'
    OBVIOUS
  <2>1. CASE NativeFault \/ \E v \in InScope : Throw(v)
    BY <2>1, ThrowKeepsInv
  <2>2. CASE EnterTry \/ LeaveScope \/ UnwindScope
    BY <2>2, ScopesKeepInv
  <2>3. CASE CallFunction
    BY <2>3, CallKeepsInv
  <2>4. CASE Return \/ UnwindFrame
    BY <2>4, EndFrameKeepsInv
  <2>5. ASSUME NEW v \in InScope, Edits(v) PROVE ExceptionsInv'
    BY <2>5, EditKeepsInv
  <2>6. ASSUME NEW v \in InScope, NEW w \in InScope, Assign(v, w) PROVE ExceptionsInv'
    BY <2>6, AssignKeepsInv
  <2>7. CASE EvaluateLiteral
    BY <2>7, LiteralKeepsInv
  <2>8. CASE DefineGlobal
    BY <2>8, DefineKeepsInv
  <2>9. ASSUME NEW s \in Sizes, AllocateOther(s[1], s[2]) PROVE ExceptionsInv'
    <3>1. s[1] \in Nat /\ s[2] \in Alignments
      BY ExceptionAssumption
    <3> QED
      BY <2>9, <3>1, AllocateOtherKeepsInv
  <2>10. CASE Catch
    BY <2>10, CatchKeepsInv
  <2>11. CASE AllocateRecord
    BY <2>11, AllocateRecordKeepsInv
  <2>12. CASE EnterCatch
    BY <2>12, EnterCatchKeepsInv
  <2>13. CASE UNCHANGED vars
    BY <2>13, StutterKeepsInv
  <2> QED
    BY <2>1, <2>2, <2>3, <2>4, <2>5, <2>6, <2>7, <2>8, <2>9, <2>10, <2>11, <2>12, <2>13 DEF Next
<1> QED
  BY <1>1, <1>2, PTL DEF Spec

\* "$e.record_count and $e.record_chain_truncated describe the copied record chain": always.
THEOREM ChainsAlwaysStayWhole == Spec => []ChainsStayWhole
<1>1. ExceptionsInv => ChainsStayWhole
  BY InvImpliesChains
<1> QED
  BY <1>1, ExceptionsKeepTheirRecords, PTL

LEMMA StepsUseTheArena ==
  ASSUME ExceptionsInv, [Next]_vars
  PROVE  [ArenaNext]_arenaVars
<1>1. /\ Executor \in Arenas /\ Global \in Arenas /\ ExceptionSize \in Nat /\ RecordSize \in Nat
      /\ 1 \in Alignments
  BY InvFacts DEF ExceptionSize, RecordSize, Alignments
<1>2. ASSUME NEW arena, arena \in Arenas, NEW size \in Nat, NEW alignment \in Alignments,
             \E p \in Places(arena, size, alignment) : Allocate(arena, size, alignment, p)
      PROVE  ArenaNext
  BY <1>2 DEF ArenaNext
<1>3. CASE NativeFault \/ (\E v \in InScope : Throw(v) \/ Edits(v)) \/ EnterTry \/ LeaveScope
           \/ UnwindScope \/ CallFunction \/ (\E v, w \in InScope : Assign(v, w)) \/ UNCHANGED vars
  BY <1>3 DEF NativeFault, Throw, Edits, Edit, EnterTry, LeaveScope, UnwindScope, CallFunction, Assign, vars
<1>4. CASE Return \/ UnwindFrame
  <2>1. FreeAll(Executor)
    BY <1>4 DEF Return, UnwindFrame, EndFrame
  <2> QED
    BY <1>1, <2>1 DEF ArenaNext
<1>5. CASE EvaluateLiteral \/ Catch \/ EnterCatch
  <2>1. \E p \in Places(Executor, ExceptionSize, 1) : Allocate(Executor, ExceptionSize, 1, p)
    BY <1>5 DEF EvaluateLiteral, Catch, EnterCatch
  <2> QED
    BY <1>1, <1>2, <2>1
<1>6. CASE DefineGlobal
  <2>1. \E p \in Places(Global, ExceptionSize, 1) : Allocate(Global, ExceptionSize, 1, p)
    BY <1>6 DEF DefineGlobal
  <2> QED
    BY <1>1, <1>2, <2>1
<1>7. CASE AllocateRecord
  <2>1. \E p \in Places(Global, RecordSize, 1) : Allocate(Global, RecordSize, 1, p)
    BY <1>7 DEF AllocateRecord, RecordArena
  <2> QED
    BY <1>1, <1>2, <2>1
<1>8. ASSUME NEW s \in Sizes, AllocateOther(s[1], s[2]) PROVE ArenaNext
  <2>1. s[1] \in Nat /\ s[2] \in Alignments
    BY ExceptionAssumption
  <2> QED
    BY <1>1, <1>2, <1>8, <2>1 DEF AllocateOther
<1> QED
  BY <1>3, <1>4, <1>5, <1>6, <1>7, <1>8 DEF Next

\* No statement takes memory but from the arena of its frame or of the Runtime, and none
\* gives back memory but at the end of a frame: the exceptions are one use of FrameArena.
THEOREM ExceptionsUseTheArena == Spec => ArenaSpec
<1>1. Init => ArenaInit
  BY DEF Init
<1> QED
  BY <1>1, StepsUseTheArena, ExceptionsKeepTheirRecords, PTL DEF Spec, ArenaSpec

\* Under all of this, blocks of all arenas stay apart.
THEOREM ExceptionBlocksAreApart == Spec => []BlocksAreApart
BY ExceptionsUseTheArena, BlocksAreAlwaysApart, PTL
=============================================================================
