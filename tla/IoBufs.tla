------------------------------- MODULE IoBufs -------------------------------
(***************************************************************************)
(* The buffer pool of one worker (iobufs.cpp) over the bitmap of its free  *)
(* chunks (bitset.cpp).  A block of the bitmap is the set of the positions *)
(* of its 1 bits.  A worker is single threaded and neither operation       *)
(* yields, so each is one step.                                            *)
(***************************************************************************)
EXTENDS Integers

CONSTANTS bits_per_block,   \* 64 in the code
          count_,           \* chunks in the arena (Memory.ChunkCount)
          Handles,          \* the places in which the worker keeps an iobuf_t
          Heap, None,       \* a malloc'ed buffer; no buffer
          NDEBUG            \* TRUE: the build compiles assert() away

ASSUME BlockAssumption  == bits_per_block \in Nat \ {0}
ASSUME CountAssumption  == count_ \in Nat
ASSUME BuildAssumption  == NDEBUG \in BOOLEAN
ASSUME MarkerAssumption == Heap # None /\ Heap \notin Int /\ None \notin Int

VARIABLES bits_,     \* bits_[b]: positions of the 1 bits of block b
          slot,      \* slot[h]: index of the chunk h holds, Heap or None
          aborted    \* an assert() has failed: the worker is gone

vars == <<bits_, slot, aborted>>
-----------------------------------------------------------------------------
(* bitset *)

npos == -1

block_index(i) == i \div bits_per_block
bit_index(i)   == i % bits_per_block

bits_to_block(n) ==
  n \div bits_per_block + (IF n % bits_per_block # 0 THEN 1 ELSE 0)

Blocks == 0 .. bits_to_block(count_) - 1
Word   == 0 .. bits_per_block - 1

\* The constructor fills whole blocks: with value = true the positions past
\* the size in the last block are 1 as well.
bitset(value) == [b \in Blocks |-> IF value THEN Word ELSE {}]

Lowest(S) == CHOOSE k \in S : \A j \in S : k <= j

\* Defect: the end of the bitmap is returned, not npos, when no bit is set.
find_from_end(i) ==
  LET nonzero == {b \in Blocks : b >= i /\ bits_[b] # {}}
  IN  IF nonzero = {}
      THEN bits_to_block(count_) * bits_per_block
      ELSE Lowest(nonzero) * bits_per_block + Lowest(bits_[Lowest(nonzero)])

find_from(i) ==
  LET nonzero == {b \in Blocks : b >= i /\ bits_[b] # {}}
  IN  IF nonzero = {}
      THEN npos
      ELSE Lowest(nonzero) * bits_per_block + Lowest(bits_[Lowest(nonzero)])

\* Defect: the search starts at the second block.
find_first_skips == find_from(1)

find_first == find_from(0)

\* Defect: set(i, false) leaves the bit alone.
set_ignores_false(i, bit) ==
  [bits_ EXCEPT ![block_index(i)] = @ \cup {bit_index(i)}]

set(i, bit) ==
  [bits_ EXCEPT ![block_index(i)] = IF bit THEN @ \cup {bit_index(i)}
                                           ELSE @ \ {bit_index(i)}]
-----------------------------------------------------------------------------
(* iobufs *)

Init ==
  /\ bits_ = bitset(TRUE)
  /\ slot = [h \in Handles |-> None]
  /\ aborted = FALSE

\* The assert(i < nums_) of bitset::set.
AssertFails(i) == ~NDEBUG /\ i >= count_

acquire(h) ==
  /\ ~aborted /\ slot[h] = None
  /\ LET i == find_first
     IN  IF i = npos
         THEN /\ slot' = [slot EXCEPT ![h] = Heap]
              /\ UNCHANGED <<bits_, aborted>>
         ELSE IF AssertFails(i)
         THEN aborted' = TRUE /\ UNCHANGED <<bits_, slot>>
         ELSE /\ bits_' = set(i, FALSE)
              /\ slot' = [slot EXCEPT ![h] = i]
              /\ UNCHANGED aborted

\* Defect: the chunk of a released buffer is never marked free again.
release_leaks(h) ==
  /\ ~aborted /\ slot[h] # None
  /\ slot' = [slot EXCEPT ![h] = None]
  /\ UNCHANGED <<bits_, aborted>>

\* The deleter of the last iobuf_t: release() for a chunk, free() otherwise.
release(h) ==
  /\ ~aborted /\ slot[h] # None
  /\ slot' = [slot EXCEPT ![h] = None]
  /\ bits_' = IF slot[h] = Heap THEN bits_ ELSE set(slot[h], TRUE)
  /\ UNCHANGED aborted

Next == \E h \in Handles : acquire(h) \/ release(h)

Spec == Init /\ [][Next]_vars
-----------------------------------------------------------------------------
(* Properties *)

Chunks == 0 .. count_ - 1

\* Every position the bitmap has a bit for, the unused ones included.
Index == 0 .. bits_to_block(count_) * bits_per_block - 1

TypeOK ==
  /\ bits_ \in [Blocks -> SUBSET Word]
  /\ slot \in [Handles -> Index \cup {Heap, None}]
  /\ aborted \in BOOLEAN

IsFree(i) == bit_index(i) \in bits_[block_index(i)]

\* The bitmap tells exactly which chunks are handed out: a chunk's bit is 0 if
\* and only if some handle holds the chunk.  acquire() and release() rely on it.
BitmapMatchesUse ==
  \A i \in Index : IsFree(i) <=> \A h \in Handles : slot[h] # i

\* No buffer is handed out twice: two requests never share the memory that
\* acquire() returned while both hold it.
Exclusive ==
  \A g, h \in Handles : g # h /\ slot[g] \in Index => slot[g] # slot[h]

\* The positions of the bitmap behind the arena: none if count_ is a whole number of
\* blocks, which nothing in the code asks for.
Past == Index \ Chunks

\* What BufferPool says of the handles: a buffer at such a position is no chunk.
Held == [h \in Handles |-> IF slot[h] \in Past THEN Heap ELSE slot[h]]

Pool == INSTANCE BufferPool WITH Outside <- Heap, slot <- Held

\* acquire() and release() keep the promise of BufferPool for any number of chunks:
\* while a chunk is free, acquire() hands out one that nobody holds, and it leaves
\* the arena only when it is exhausted.  (It should then go to malloc; it tries the
\* positions behind the arena first, against the assertion in bitset::set.)
ImplementsPool == Pool!Spec
=============================================================================
