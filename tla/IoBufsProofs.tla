---------------------------- MODULE IoBufsProofs ----------------------------
(***************************************************************************)
(* Proofs about the buffer pool, and about the bitset under it, for every  *)
(* block width, arena size and set of handles.                             *)
(***************************************************************************)
EXTENDS Bitset, FiniteSetTheorems, WellFoundedInduction, TLAPS

\* Every nonempty set of naturals has a least element, so Lowest() is defined.
LEMMA LowestExists ==
  ASSUME NEW S \in SUBSET Nat, S # {}
  PROVE  Lowest(S) \in S /\ \A j \in S : Lowest(S) <= j
<1>. DEFINE R == {ss \in Nat \X Nat : ss[1] < ss[2]}
<1>1. IsWellFoundedOn(R, Nat)
  BY NatLessThanWellFounded DEF OpToRel
<1>2. PICK x \in S : \A y \in S : ~(<<y, x>> \in R)
  <2>. HIDE DEF R
  <2>. QED  BY <1>1, WFMin
<1>3. ASSUME NEW y \in S  PROVE  x <= y
  <2>1. <<y, x>> \in Nat \X Nat /\ ~(<<y, x>> \in R)  BY <1>2
  <2>2. ~(y < x)  BY <2>1, <<y, x>>[1] = y, <<y, x>>[2] = x
  <2>. QED  BY <2>2
<1>. QED  BY <1>3 DEF Lowest

\* Position k of block b is index b * bits_per_block + k, and no other.
LEMMA DivMod ==
  ASSUME NEW b \in Int, NEW k \in Word
  PROVE  /\ block_index(b * bits_per_block + k) = b
         /\ bit_index(b * bits_per_block + k) = k
BY BlockAssumption DEF block_index, bit_index, Word

LEMMA Split ==
  ASSUME NEW i \in Int
  PROVE  /\ block_index(i) \in Int
         /\ bit_index(i) \in Word
         /\ i = block_index(i) * bits_per_block + bit_index(i)
BY BlockAssumption DEF block_index, bit_index, Word

\* The bitmap has a bit for exactly the indices below Blocks * bits_per_block.
LEMMA IndexSplit ==
  /\ bits_to_block(count_) \in Nat
  /\ \A i \in Index : block_index(i) \in Blocks /\ bit_index(i) \in Word
  /\ \A b \in Blocks, k \in Word : b * bits_per_block + k \in Index
<1>1. bits_to_block(count_) \in Nat
  BY BlockAssumption, CountAssumption DEF bits_to_block
<1>2. ASSUME NEW i \in Index  PROVE block_index(i) \in Blocks
  <2>. DEFINE n == bits_to_block(count_)
              b == block_index(i)
  <2>1. /\ b \in Int /\ i = b * bits_per_block + bit_index(i) /\ i \in Int
        /\ bit_index(i) \in 0 .. bits_per_block - 1
        /\ 0 <= i /\ i < n * bits_per_block /\ n \in Nat
    BY <1>1, Split, BlockAssumption DEF Index, Word
  <2>. HIDE DEF n, b
  <2>2. 0 <= b /\ b < n  BY <2>1, BlockAssumption
  <2>. QED  BY <2>1, <2>2 DEF Blocks, b, n
<1>3. ASSUME NEW i \in Index  PROVE bit_index(i) \in Word
  BY <1>1, Split, BlockAssumption DEF Index
<1>4. ASSUME NEW b \in Blocks, NEW k \in Word
      PROVE  b * bits_per_block + k \in Index
  <2>. DEFINE n == bits_to_block(count_)
  <2>1. n \in Nat /\ b \in 0 .. n - 1 /\ k \in 0 .. bits_per_block - 1
    BY <1>1 DEF Blocks, Word
  <2>. HIDE DEF n
  <2>2. b * bits_per_block + k < n * bits_per_block /\ b * bits_per_block + k >= 0
        /\ b * bits_per_block + k \in Int /\ n * bits_per_block \in Int
    BY <2>1, BlockAssumption
  <2>. QED  BY <2>2 DEF Index, n
<1>. QED  BY <1>1, <1>2, <1>3, <1>4

\* Every chunk of the arena has its bit.
LEMMA ChunksIndexed ==
  Chunks \subseteq Index
<1>1. count_ <= bits_to_block(count_) * bits_per_block
  BY BlockAssumption, CountAssumption DEF bits_to_block
<1>. QED  BY <1>1, IndexSplit, BlockAssumption, CountAssumption DEF Index, Chunks

\* An earlier block holds lower positions.
LEMMA BlockOrder ==
  ASSUME NEW b \in Nat, NEW c \in Nat, NEW k \in Word, NEW l \in Word,
         b < c \/ (b = c /\ k <= l)
  PROVE  b * bits_per_block + k <= c * bits_per_block + l
<1>1. k \in 0 .. bits_per_block - 1 /\ l \in 0 .. bits_per_block - 1 /\ bits_per_block \in Nat
  BY BlockAssumption DEF Word
<1>2. CASE b = c /\ k <= l
  <2>1. PICK B \in Nat : B = b * bits_per_block  BY <1>1
  <2>. QED  BY <1>1, <1>2, <2>1
<1>3. CASE b < c
  <2>1. (b + 1) * bits_per_block <= c * bits_per_block  BY <1>1, <1>3
  <2>2. (b + 1) * bits_per_block = b * bits_per_block + bits_per_block  BY <1>1
  <2>3. PICK B \in Nat : B = b * bits_per_block  BY <1>1
  <2>4. PICK C \in Nat : C = c * bits_per_block  BY <1>1
  <2>. QED  BY <1>1, <2>1, <2>2, <2>3, <2>4
<1>. QED  BY <1>2, <1>3

\* What find_first() returns: the index of the first 1 bit, or npos if there is
\* none.
LEMMA FindFirst ==
  ASSUME TypeOK
  PROVE  \/ find_first = npos /\ \A i \in Index : ~IsFree(i)
         \/ /\ find_first # npos /\ find_first \in Index /\ IsFree(find_first)
            /\ \A j \in Index : IsFree(j) => find_first <= j
<1>. DEFINE nonzero == {b \in Blocks : b >= 0 /\ bits_[b] # {}}
            b0 == Lowest(nonzero)
            k0 == Lowest(bits_[b0])
<1>1. CASE nonzero = {}
  <2>1. find_first = npos  BY <1>1 DEF find_first, find_from
  <2>2. ASSUME NEW i \in Index  PROVE ~IsFree(i)
    BY <1>1, IndexSplit DEF IsFree, Blocks
  <2>. QED  BY <2>1, <2>2
<1>2. CASE nonzero # {}
  <2>1. find_first = b0 * bits_per_block + k0
    BY <1>2 DEF find_first, find_from
  <2>2. nonzero \in SUBSET Nat  BY IndexSplit DEF Blocks
  <2>3. b0 \in nonzero /\ \A b \in nonzero : b0 <= b
    <3>. HIDE DEF nonzero
    <3>. QED  BY <1>2, <2>2, LowestExists
  <2>4. b0 \in Blocks /\ bits_[b0] # {}  BY <2>3
  <2>l. \A b \in Blocks : bits_[b] # {} => b0 <= b
    <3>. SUFFICES ASSUME NEW b \in Blocks, bits_[b] # {}  PROVE b0 <= b
      OBVIOUS
    <3>1. b >= 0  BY IndexSplit DEF Blocks
    <3>2. b \in nonzero  BY <3>1
    <3>. QED  BY <2>3, <3>2
  <2>. HIDE DEF b0
  <2>5. bits_[b0] \in SUBSET Word  BY <2>4 DEF TypeOK
  <2>6. bits_[b0] \in SUBSET Nat  BY <2>5, BlockAssumption DEF Word
  <2>7. k0 \in bits_[b0] /\ \A k \in bits_[b0] : k0 <= k  BY <2>4, <2>6, LowestExists
  <2>. HIDE DEF k0
  <2>8. k0 \in Word  BY <2>5, <2>7
  <2>9. b0 * bits_per_block + k0 \in Index  BY <2>4, <2>8, IndexSplit
  <2>10. b0 \in Int  BY <2>4, IndexSplit DEF Blocks
  <2>11. IsFree(b0 * bits_per_block + k0)
    BY <2>7, <2>8, <2>10, DivMod DEF IsFree
  <2>12. ASSUME NEW j \in Index, IsFree(j)  PROVE b0 * bits_per_block + k0 <= j
    <3>1. block_index(j) \in Blocks /\ bit_index(j) \in Word  BY IndexSplit
    <3>2. PICK c \in Blocks, l \in Word : c = block_index(j) /\ l = bit_index(j)  BY <3>1
    <3>3. j \in Int  BY IndexSplit, BlockAssumption DEF Index
    <3>4. j = c * bits_per_block + l  BY <3>2, <3>3, Split
    <3>5. l \in bits_[c]  BY <2>12, <3>2 DEF IsFree
    <3>6. b0 <= c  BY <2>l, <3>5
    <3>7. b0 \in Nat /\ c \in Nat /\ k0 \in Int /\ l \in Int
      BY <2>4, <2>8, IndexSplit, BlockAssumption DEF Blocks, Word
    <3>8. b0 < c \/ (b0 = c /\ k0 <= l)
      <4>1. CASE b0 = c  BY <4>1, <2>7, <3>5
      <4>2. CASE b0 # c  BY <4>2, <3>6, <3>7
      <4>. QED  BY <4>1, <4>2
    <3>. QED  BY <2>8, <3>4, <3>7, <3>8, BlockOrder
  <2>. QED  BY <2>1, <2>9, <2>11, <2>12, IndexSplit DEF Index, npos
<1>. QED  BY <1>1, <1>2

\* set() changes the one bit it is given and no other.
LEMMA SetOneBit ==
  ASSUME TypeOK, NEW i \in Index, NEW bit \in BOOLEAN, bits_' = set(i, bit)
  PROVE  /\ bits_' \in [Blocks -> SUBSET Word]
         /\ \A j \in Index : IsFree(j)' <=> IF j = i THEN bit ELSE IsFree(j)
<1>1. block_index(i) \in Blocks /\ bit_index(i) \in Word  BY IndexSplit
<1>2. bits_' \in [Blocks -> SUBSET Word]  BY <1>1 DEF TypeOK, set
<1>3. ASSUME NEW j \in Index
      PROVE  IsFree(j)' <=> IF j = i THEN bit ELSE IsFree(j)
  <2>1. block_index(j) \in Blocks /\ bit_index(j) \in Word  BY IndexSplit
  <2>2. j # i => block_index(j) # block_index(i) \/ bit_index(j) # bit_index(i)
    <3>1. i \in Int /\ j \in Int  BY IndexSplit, BlockAssumption DEF Index
    <3>. QED  BY <3>1, Split
  <2>. QED  BY <1>1, <2>1, <2>2 DEF IsFree, TypeOK, set
<1>. QED  BY <1>2, <1>3

\* The inductive invariant.  BitmapMatchesUse is what makes find_first() return
\* a chunk that nobody holds; Exclusive is what makes the bit that release()
\* sets belong to a chunk that nobody else holds.
IInv == TypeOK /\ BitmapMatchesUse /\ Exclusive

LEMMA InitIInv ==
  ASSUME Init  PROVE IInv
<1>1. TypeOK  BY DEF Init, TypeOK, bitset
<1>2. \A i \in Index : IsFree(i)
  BY IndexSplit DEF IsFree, Init, bitset
<1>3. \A i \in Index : i # None
  BY MarkerAssumption, IndexSplit, BlockAssumption DEF Index
<1>. QED  BY <1>1, <1>2, <1>3 DEF IInv, BitmapMatchesUse, Exclusive, Init

LEMMA AcquireIInv ==
  ASSUME IInv, NEW h \in Handles, acquire(h)  PROVE IInv'
<1>. USE DEF IInv
<1>0. Index \subseteq Int  BY IndexSplit, BlockAssumption DEF Index
<1>1. CASE find_first = npos
  <2>1. UNCHANGED <<bits_, aborted>> /\ slot' = [slot EXCEPT ![h] = Heap]
    BY <1>1 DEF acquire
  <2>2. TypeOK'  BY <2>1 DEF TypeOK
  <2>3. ASSUME NEW g \in Handles, NEW i \in Index
        PROVE  (slot'[g] = i) <=> (slot[g] = i)
    BY <1>0, <2>1, MarkerAssumption DEF TypeOK, acquire
  <2>4. BitmapMatchesUse'  BY <2>1, <2>3 DEF BitmapMatchesUse, IsFree
  <2>5. Exclusive'  BY <2>3 DEF Exclusive
  <2>. QED  BY <2>2, <2>4, <2>5
<1>2. CASE find_first # npos /\ AssertFails(find_first)
  BY <1>2 DEF acquire, TypeOK, BitmapMatchesUse, Exclusive, IsFree
<1>3. CASE find_first # npos /\ ~AssertFails(find_first)
  <2>. DEFINE i == find_first
  <2>1. /\ bits_' = set(i, FALSE) /\ aborted' = aborted
        /\ slot' = [slot EXCEPT ![h] = i]
    BY <1>3 DEF acquire
  <2>2. i \in Index /\ IsFree(i)  BY <1>3, FindFirst
  <2>. HIDE DEF i
  <2>3. \A g \in Handles : slot[g] # i  BY <2>2 DEF BitmapMatchesUse
  <2>4. /\ bits_' \in [Blocks -> SUBSET Word]
        /\ \A j \in Index : IsFree(j)' <=> IF j = i THEN FALSE ELSE IsFree(j)
    BY <2>1, <2>2, SetOneBit
  <2>5. TypeOK'  BY <2>1, <2>2, <2>4 DEF TypeOK
  <2>6. ASSUME NEW g \in Handles, NEW j \in Index
        PROVE  (slot'[g] = j) <=> IF g = h THEN j = i ELSE slot[g] = j
    BY <2>1 DEF TypeOK
  <2>7. BitmapMatchesUse'
    <3>1. ASSUME NEW j \in Index
          PROVE  IsFree(j)' <=> \A g \in Handles : slot'[g] # j
      <4>1. CASE j = i  BY <4>1, <2>4, <2>6
      <4>2. CASE j # i
        <5>1. slot[h] # j  BY <1>0, MarkerAssumption DEF acquire
        <5>. QED  BY <4>2, <5>1, <2>4, <2>6 DEF BitmapMatchesUse
      <4>. QED  BY <4>1, <4>2
    <3>. QED  BY <3>1 DEF BitmapMatchesUse
  <2>8. Exclusive'  BY <2>2, <2>3, <2>6 DEF Exclusive
  <2>. QED  BY <2>5, <2>7, <2>8
<1>. QED  BY <1>1, <1>2, <1>3

LEMMA ReleaseIInv ==
  ASSUME IInv, NEW h \in Handles, release(h)  PROVE IInv'
<1>. USE DEF IInv
<1>0. Index \subseteq Int  BY IndexSplit, BlockAssumption DEF Index
<1>1. slot' = [slot EXCEPT ![h] = None] /\ aborted' = aborted
  BY DEF release
<1>2. ASSUME NEW g \in Handles, NEW j \in Index
      PROVE  (slot'[g] = j) <=> g # h /\ slot[g] = j
  BY <1>0, <1>1, MarkerAssumption DEF TypeOK
<1>3. Exclusive'  BY <1>2 DEF Exclusive
<1>4. CASE slot[h] = Heap
  <2>1. bits_' = bits_  BY <1>4 DEF release
  <2>2. TypeOK'  BY <1>1, <2>1 DEF TypeOK
  <2>3. \A j \in Index : slot[h] # j  BY <1>0, <1>4, MarkerAssumption
  <2>4. BitmapMatchesUse'  BY <1>2, <2>1, <2>3 DEF BitmapMatchesUse, IsFree
  <2>. QED  BY <1>3, <2>2, <2>4
<1>5. CASE slot[h] # Heap
  <2>1. slot[h] \in Index /\ bits_' = set(slot[h], TRUE)
    BY <1>5 DEF release, TypeOK
  <2>2. /\ bits_' \in [Blocks -> SUBSET Word]
        /\ \A j \in Index : IsFree(j)' <=> IF j = slot[h] THEN TRUE ELSE IsFree(j)
    BY <2>1, SetOneBit
  <2>3. TypeOK'  BY <1>1, <2>2 DEF TypeOK
  <2>4. ASSUME NEW j \in Index
        PROVE  IsFree(j)' <=> \A g \in Handles : slot'[g] # j
    <3>1. CASE j = slot[h]
      <4>1. \A g \in Handles : g # h => slot[g] # j
        BY <2>1, <3>1 DEF Exclusive
      <4>. QED  BY <3>1, <4>1, <1>2, <2>2
    <3>2. CASE j # slot[h]
      BY <3>2, <1>2, <2>2 DEF BitmapMatchesUse
    <3>. QED  BY <3>1, <3>2
  <2>. QED  BY <1>3, <2>3, <2>4 DEF BitmapMatchesUse
<1>. QED  BY <1>4, <1>5

\* Type correctness of the pool, and its two central invariants, for every arena
\* size, whole number of blocks or not: the bitmap matches the use, and no
\* buffer is handed out twice.
THEOREM PoolSafe == Spec => [](TypeOK /\ BitmapMatchesUse /\ Exclusive)
<1>1. Init => IInv  BY InitIInv
<1>2. IInv /\ [Next]_vars => IInv'
  <2>1. CASE UNCHANGED vars
    BY <2>1 DEF IInv, TypeOK, BitmapMatchesUse, Exclusive, IsFree, vars
  <2>. QED  BY <2>1, AcquireIInv, ReleaseIInv DEF Next
<1>. QED  BY <1>1, <1>2, PTL DEF Spec, IInv

\* What acquire() hands out is a chunk of the bitmap or a heap buffer, whatever
\* was released before and in which order.
THEOREM PoolTypes == Spec => []TypeOK
BY PoolSafe, PTL

\* Two holders never have the same chunk, also when the arena is exhausted and
\* whatever the block width and the chunk count.
THEOREM PoolExclusive == Spec => []Exclusive
BY PoolSafe, PTL

\* What a handle holds for BufferPool: its chunk, or nothing, or something else.
LEMMA HeldFacts ==
  ASSUME TypeOK
  PROVE  /\ \A h \in Handles : /\ Held[h] = None <=> slot[h] = None
                               /\ \A c \in Chunks : Held[h] = c <=> slot[h] = c
         /\ DOMAIN Held = Handles
<1>1. Index \subseteq Int /\ Chunks \subseteq Int
  BY ChunksIndexed, IndexSplit, BlockAssumption DEF Index
<1>. QED  BY <1>1, MarkerAssumption DEF Held, Past, TypeOK

\* One handle changes what it holds.
LEMMA HeldChange ==
  ASSUME TypeOK, NEW h \in Handles, NEW v, slot' = [slot EXCEPT ![h] = v]
  PROVE  Held' = [Held EXCEPT ![h] = IF v \in Past THEN Heap ELSE v]
BY DEF Held, TypeOK

\* For any number of chunks, a whole number of blocks or not, the pool implements
\* BufferPool: acquire() returns a chunk that is free as long as there is one.
THEOREM PoolRefinement == Spec => ImplementsPool
<1>1. Init => Pool!Init
  <2>. SUFFICES ASSUME Init  PROVE Held = [h \in Handles |-> None]
    BY DEF Pool!Init
  <2>1. None \notin Past
    BY IndexSplit, BlockAssumption, MarkerAssumption DEF Past, Index
  <2>. QED  BY <2>1 DEF Init, Held
<1>2. IInv /\ [Next]_vars => [Pool!Next]_Held
  <2>. SUFFICES ASSUME IInv, [Next]_vars  PROVE [Pool!Next]_Held
    OBVIOUS
  <2>t. TypeOK /\ Index \subseteq Int /\ Chunks \subseteq Index
    BY ChunksIndexed, IndexSplit, BlockAssumption DEF IInv, Index
  <2>0. \A c \in Chunks : IsFree(c) <=> c \in Pool!Free
    BY <2>t, HeldFacts DEF IInv, BitmapMatchesUse, Pool!Free
  <2>1. CASE UNCHANGED vars  BY <2>1 DEF vars, Held
  <2>2. ASSUME NEW h \in Handles, acquire(h)  PROVE [Pool!Next]_Held
    <3>0. Held[h] = None  BY <2>2, <2>t, HeldFacts DEF acquire
    <3>1. ASSUME NEW v, slot' = [slot EXCEPT ![h] = v], v \in Past \cup {Heap}, Pool!Free = {}
          PROVE  Pool!Next
      <4>1. Held' = [Held EXCEPT ![h] = Heap]  BY <2>t, <3>1, HeldChange
      <4>. QED  BY <3>0, <3>1, <4>1 DEF Pool!Next, Pool!Acquire
    <3>2. CASE find_first = npos
      <4>1. \A i \in Index : ~IsFree(i)
        BY <2>t, <3>2, FindFirst
      <4>2. Pool!Free = {}  BY <4>1, <2>0, <2>t DEF Pool!Free
      <4>3. slot' = [slot EXCEPT ![h] = Heap]  BY <2>2, <3>2 DEF acquire
      <4>. QED  BY <3>1, <4>2, <4>3
    <3>3. CASE find_first # npos /\ AssertFails(find_first)
      BY <2>2, <3>3 DEF acquire, Held
    <3>4. CASE find_first # npos /\ ~AssertFails(find_first)
      <4>. PICK i : i = find_first  OBVIOUS
      <4>1. /\ i \in Index /\ IsFree(i) /\ \A j \in Index : IsFree(j) => i <= j
        BY <2>t, <3>4, FindFirst
      <4>2. slot' = [slot EXCEPT ![h] = i]
        BY <2>2, <3>4 DEF acquire
      <4>3. CASE i \in Chunks
        <5>1. Held' = [Held EXCEPT ![h] = i]  BY <2>t, <4>2, <4>3, HeldChange DEF Past
        <5>2. i \in Pool!Free  BY <2>0, <4>1, <4>3
        <5>. QED  BY <3>0, <5>1, <5>2 DEF Pool!Next, Pool!Acquire
      <4>4. CASE i \notin Chunks
        <5>1. i >= count_ /\ i \in Int /\ count_ \in Nat
          BY <2>t, <4>1, <4>4, CountAssumption, IndexSplit, BlockAssumption DEF Index, Chunks
        <5>2. \A c \in Chunks : ~IsFree(c)  BY <2>t, <4>1, <5>1 DEF Chunks
        <5>3. Pool!Free = {}  BY <2>0, <5>2 DEF Pool!Free
        <5>. QED  BY <3>1, <4>1, <4>2, <4>4, <5>3 DEF Past
      <4>. QED  BY <4>3, <4>4
    <3>. QED  BY <3>2, <3>3, <3>4
  <2>3. ASSUME NEW h \in Handles, release(h)  PROVE [Pool!Next]_Held
    <3>1. slot[h] # None /\ slot' = [slot EXCEPT ![h] = None]  BY <2>3 DEF release
    <3>2. Held[h] # None  BY <2>t, <3>1, HeldFacts
    <3>3. None \notin Past  BY <2>t, MarkerAssumption DEF Past
    <3>4. Held' = [Held EXCEPT ![h] = None]  BY <2>t, <3>1, <3>3, HeldChange
    <3>. QED  BY <3>2, <3>4 DEF Pool!Next, Pool!Release
  <2>. QED  BY <2>1, <2>2, <2>3 DEF Next
<1>3. Spec => []IInv  BY PoolSafe, PTL DEF IInv
<1>. QED  BY <1>1, <1>2, <1>3, PTL DEF Spec, ImplementsPool, Pool!Spec
-----------------------------------------------------------------------------
(* bitset: every operation is shown to map the canonical bitset of some     *)
(* positions to the canonical bitset of others                              *)

\* The position of bit k of block b.
Place(b, k) == b * bits_per_block + k

\* Blocks and positions, one to one.
LEMMA Places ==
  /\ \A b \in Nat, k \in Word : /\ Place(b, k) \in Nat
                                /\ block_index(Place(b, k)) = b /\ bit_index(Place(b, k)) = k
  /\ \A i \in Nat : /\ block_index(i) \in Nat /\ bit_index(i) \in Word
                    /\ Place(block_index(i), bit_index(i)) = i
<1>1. ASSUME NEW b \in Nat, NEW k \in Word
      PROVE  /\ Place(b, k) \in Nat
             /\ block_index(Place(b, k)) = b /\ bit_index(Place(b, k)) = k
  <2>1. Place(b, k) \in Nat  BY BlockAssumption DEF Place, Word
  <2>. QED  BY <2>1, DivMod DEF Place
<1>2. ASSUME NEW i \in Nat
      PROVE  /\ block_index(i) \in Nat /\ bit_index(i) \in Word
             /\ Place(block_index(i), bit_index(i)) = i
  <2>1. block_index(i) \in Nat  BY BlockAssumption DEF block_index
  <2>. QED  BY <2>1, Split DEF Place
<1>. QED  BY <1>1, <1>2

\* Which blocks a bitset of n bits has, and where in them it ends.
LEMMA Sized ==
  ASSUME NEW n \in Nat
  PROVE  /\ bits_to_block(n) \in Nat
         /\ \A b \in Nat, k \in Word :
              /\ Place(b, k) < n => b < bits_to_block(n)
              /\ b < bits_to_block(n) - 1 => Place(b, k) < n
              /\ b = bits_to_block(n) - 1 =>
                   (Place(b, k) < n <=> bit_index(n) = 0 \/ k < bit_index(n))
         /\ bit_index(n) # 0 => block_index(n) = bits_to_block(n) - 1
         /\ bit_index(n) = 0 => block_index(n) = bits_to_block(n)
<1>1. PICK d \in Nat : d = block_index(n)  BY Places
<1>2. PICK r \in Word : r = bit_index(n)  BY Places
<1>3. n = Place(d, r)  BY <1>1, <1>2, Places
<1>4. bits_to_block(n) = d + (IF r # 0 THEN 1 ELSE 0)
  BY <1>1, <1>2 DEF bits_to_block, block_index, bit_index
<1>5. ASSUME NEW b \in Nat, NEW k \in Word
      PROVE  /\ b < d => Place(b, k) < n
             /\ b = d => (Place(b, k) < n <=> k < r)
             /\ b > d => ~(Place(b, k) < n)
  <2>1. k \in 0 .. bits_per_block - 1 /\ r \in 0 .. bits_per_block - 1 /\ bits_per_block \in Nat
    BY <1>2, BlockAssumption DEF Word
  <2>2. n = d * bits_per_block + r /\ Place(b, k) = b * bits_per_block + k
    BY <1>3 DEF Place
  <2>3. PICK B \in Nat : B = b * bits_per_block  BY <2>1
  <2>4. PICK D \in Nat : D = d * bits_per_block  BY <1>1, <2>1
  <2>5. b < d => B + bits_per_block <= D
    <3>1. SUFFICES ASSUME b < d  PROVE (b + 1) * bits_per_block <= d * bits_per_block
      BY <2>1, <2>3, <2>4
    <3>. QED  BY <1>1, <2>1, <3>1
  <2>6. b > d => D + bits_per_block <= B
    <3>1. SUFFICES ASSUME b > d  PROVE (d + 1) * bits_per_block <= b * bits_per_block
      BY <1>1, <2>1, <2>3, <2>4
    <3>. QED  BY <1>1, <2>1, <3>1
  <2>7. b = d => B = D  BY <2>3, <2>4
  <2>8. n = D + r /\ Place(b, k) = B + k  BY <2>2, <2>3, <2>4
  <2>. QED  BY <1>1, <2>1, <2>5, <2>6, <2>7, <2>8
<1>6. r \in Nat /\ \A k \in Word : k \in Nat  BY <1>2, BlockAssumption DEF Word
<1>. QED  BY <1>1, <1>2, <1>4, <1>5, <1>6


\* Blocks of a bitset of n bits, and the positions at which they have a 1.
IsBlocks(f, n) == f \in [0 .. bits_to_block(n) - 1 -> SUBSET Word]
Read(f, n) == {i \in 0 .. n - 1 : bit_index(i) \in f[block_index(i)]}

\* The bitset of n bits that stands for the positions S.
Of(n, S) ==
  [bits |-> [b \in 0 .. bits_to_block(n) - 1 |-> {k \in Word : Place(b, k) \in S}], nums |-> n]

\* The blocks of a bitset are counted by their domain.
LEMMA BlockCount ==
  ASSUME NEW m \in Nat, NEW x, NEW f, x.bits = f, DOMAIN f = 0 .. m - 1
  PROVE  block(x) = m /\ last(x) = m - 1
<1>1. Cardinality(0 .. m - 1) = m  BY FS_Interval
<1>. QED  BY <1>1 DEF block, last

\* A bitset whose unused bits are 0 stands for its positions.
LEMMA Canonical ==
  ASSUME NEW n \in Nat, NEW f, IsBlocks(f, n),
         \A b \in 0 .. bits_to_block(n) - 1 : \A k \in f[b] : Place(b, k) < n
  PROVE  [bits |-> f, nums |-> n] = Of(n, Read(f, n))
<1>1. bits_to_block(n) \in Nat  BY Sized
<1>2. ASSUME NEW b \in 0 .. bits_to_block(n) - 1
      PROVE  f[b] = {k \in Word : Place(b, k) \in Read(f, n)}
  <2>1. b \in Nat /\ f[b] \in SUBSET Word  BY <1>1 DEF IsBlocks
  <2>2. ASSUME NEW k \in Word  PROVE k \in f[b] <=> Place(b, k) \in Read(f, n)
    <3>1. /\ Place(b, k) \in Nat /\ block_index(Place(b, k)) = b /\ bit_index(Place(b, k)) = k
      BY <2>1, Places
    <3>2. k \in f[b] => Place(b, k) \in 0 .. n - 1  BY <3>1
    <3>. QED  BY <3>1, <3>2 DEF Read
  <2>. QED  BY <2>1, <2>2
<1>3. f = [b \in 0 .. bits_to_block(n) - 1 |-> {k \in Word : Place(b, k) \in Read(f, n)}]
  BY <1>2 DEF IsBlocks
<1>. QED  BY <1>3 DEF Of

\* zero_unused_bits() leaves the positions within the size, and no other.
LEMMA ZeroUnused ==
  ASSUME NEW n \in Nat, NEW f, IsBlocks(f, n)
  PROVE  zero_unused_bits([bits |-> f, nums |-> n]) = Of(n, Read(f, n))
<1>. DEFINE x == [bits |-> f, nums |-> n]
<1>1. PICK m \in Nat : m = bits_to_block(n)  BY Sized
<1>2. DOMAIN f = 0 .. m - 1 /\ \A b \in 0 .. m - 1 : f[b] \in SUBSET Word  BY <1>1 DEF IsBlocks
<1>3. last(x) = m - 1 /\ extra_bits(x) = bit_index(n)
  <2>1. x.bits = f /\ x.nums = n  OBVIOUS
  <2>. HIDE DEF x
  <2>. QED  BY <1>2, <2>1, BlockCount DEF extra_bits
<1>4. CASE bit_index(n) = 0
  <2>1. zero_unused_bits(x) = x  BY <1>3, <1>4 DEF zero_unused_bits
  <2>2. ASSUME NEW b \in 0 .. m - 1, NEW k \in f[b]  PROVE Place(b, k) < n
    <3>1. b \in Nat /\ k \in Word /\ (b < m - 1 \/ b = m - 1)  BY <1>1, <1>2
    <3>. QED  BY <1>1, <1>4, <3>1, Sized
  <2>. QED  BY <1>1, <2>1, <2>2, Canonical
<1>5. CASE bit_index(n) # 0
  <2>1. PICK r : r = bit_index(n)  OBVIOUS
  <2>2. PICK g : g = [f EXCEPT ![m - 1] = {k \in @ : k < r}]  OBVIOUS
  <2>3. zero_unused_bits(x) = [bits |-> g, nums |-> n]
    <3>1. zero_unused_bits(x) = [x EXCEPT !.bits[m - 1] = {k \in @ : k < r}]
      BY <1>3, <1>5, <2>1 DEF zero_unused_bits
    <3>. QED  BY <2>2, <3>1
  <2>4. IsBlocks(g, n)
    <3>1. {k \in f[m - 1] : k < r} \in SUBSET Word
      <4>1. m - 1 \in 0 .. m - 1  BY <1>1, <1>5, Sized, Places
      <4>. QED  BY <1>2, <4>1
    <3>. QED  BY <1>1, <2>2, <3>1 DEF IsBlocks
  <2>5. ASSUME NEW b \in 0 .. m - 1, NEW k \in Word
        PROVE  k \in g[b] <=> k \in f[b] /\ Place(b, k) < n
    <3>1. b \in Nat  OBVIOUS
    <3>2. CASE b = m - 1
      <4>1. g[b] = {j \in f[b] : j < r}  BY <1>2, <2>2, <3>2
      <4>2. Place(b, k) < n <=> k < r  BY <1>1, <1>5, <2>1, <3>1, <3>2, Sized
      <4>. QED  BY <4>1, <4>2
    <3>3. CASE b # m - 1
      <4>1. g[b] = f[b]  BY <1>2, <2>2, <3>3
      <4>2. b < m - 1  BY <1>1, <3>3
      <4>3. Place(b, k) < n  BY <1>1, <3>1, <4>2, Sized
      <4>. QED  BY <4>1, <4>3
    <3>. QED  BY <3>2, <3>3
  <2>6. \A b \in 0 .. m - 1 : g[b] \in SUBSET Word  BY <1>1, <2>4 DEF IsBlocks
  <2>7. Read(g, n) = Read(f, n)
    <3>1. ASSUME NEW i \in 0 .. n - 1
          PROVE  bit_index(i) \in g[block_index(i)] <=> bit_index(i) \in f[block_index(i)]
      <4>1. i \in Nat /\ i < n  OBVIOUS
      <4>2. /\ block_index(i) \in Nat /\ bit_index(i) \in Word
            /\ Place(block_index(i), bit_index(i)) = i
        BY <4>1, Places
      <4>3. block_index(i) < m  BY <1>1, <4>1, <4>2, Sized
      <4>4. block_index(i) \in 0 .. m - 1  BY <1>1, <4>2, <4>3
      <4>. QED  BY <2>5, <4>1, <4>2, <4>4
    <3>. QED  BY <3>1 DEF Read
  <2>8. \A b \in 0 .. m - 1 : \A k \in g[b] : Place(b, k) < n  BY <2>5, <2>6
  <2>9. [bits |-> g, nums |-> n] = Of(n, Read(g, n))  BY <1>1, <2>4, <2>8, Canonical
  <2>. QED  BY <2>3, <2>7, <2>9
<1>. QED  BY <1>4, <1>5

\* A position within the size lies in one of the blocks.
LEMMA BlockOf ==
  ASSUME NEW n \in Nat, NEW i \in 0 .. n - 1
  PROVE  /\ block_index(i) \in 0 .. bits_to_block(n) - 1 /\ bit_index(i) \in Word
         /\ i \in Nat /\ i < n /\ Place(block_index(i), bit_index(i)) = i
<1>1. i \in Nat /\ i < n  OBVIOUS
<1>2. /\ block_index(i) \in Nat /\ bit_index(i) \in Word
      /\ Place(block_index(i), bit_index(i)) = i
  BY <1>1, Places
<1>3. bits_to_block(n) \in Nat /\ block_index(i) < bits_to_block(n)  BY <1>1, <1>2, Sized
<1>. QED  BY <1>1, <1>2, <1>3

\* Of(n, S) is a well-formed bitset of n bits, with a 1 at exactly S.
LEMMA OfIs ==
  ASSUME NEW n \in Nat, NEW S \in SUBSET (0 .. n - 1)
  PROVE  /\ Is(Of(n, S), n, S) /\ Ones(Of(n, S)) = S /\ Clean(Of(n, S))
         /\ Of(n, S).nums = n /\ DOMAIN Of(n, S).bits = 0 .. bits_to_block(n) - 1
         /\ IsBlocks(Of(n, S).bits, n) /\ block(Of(n, S)) = bits_to_block(n)
         /\ last(Of(n, S)) = bits_to_block(n) - 1 /\ bits_to_block(n) \in Nat
         /\ \A b \in 0 .. bits_to_block(n) - 1 : \A k \in Word :
              k \in Of(n, S).bits[b] <=> Place(b, k) \in S
<1>1. PICK m \in Nat : m = bits_to_block(n)  BY Sized
<1>2. PICK f : f = [b \in 0 .. m - 1 |-> {k \in Word : Place(b, k) \in S}]  OBVIOUS
<1>3. PICK x : x = Of(n, S)  OBVIOUS
<1>4. x.bits = f /\ x.nums = n  BY <1>1, <1>2, <1>3 DEF Of
<1>5. DOMAIN f = 0 .. m - 1 /\ \A b \in 0 .. m - 1 : f[b] = {k \in Word : Place(b, k) \in S}
  BY <1>2
<1>6. block(x) = m /\ last(x) = m - 1  BY <1>4, <1>5, BlockCount
<1>7. Ones(x) = S
  <2>1. ASSUME NEW i \in 0 .. n - 1  PROVE bit_index(i) \in f[block_index(i)] <=> i \in S
    BY <1>1, <1>5, BlockOf
  <2>. QED  BY <1>4, <2>1 DEF Ones
<1>8. Clean(x)
  <2>1. ASSUME NEW b \in 0 .. m - 1, NEW k \in f[b]  PROVE b * bits_per_block + k < n
    <3>1. Place(b, k) \in 0 .. n - 1  BY <1>5
    <3>. QED  BY <3>1 DEF Place
  <2>. QED  BY <1>4, <1>5, <2>1 DEF Clean
<1>9. IsBlocks(f, n)  BY <1>1, <1>2 DEF IsBlocks
<1>10. Is(x, n, S)  BY <1>1, <1>4, <1>6, <1>7, <1>8 DEF Is
<1>. QED  BY <1>1, <1>3, <1>4, <1>5, <1>6, <1>7, <1>8, <1>9, <1>10


\* Blocks that have the positions T, and perhaps some that are unused, are zeroed to T.
LEMMA Zeroed ==
  ASSUME NEW n \in Nat, NEW T \in SUBSET (0 .. n - 1), NEW f, IsBlocks(f, n),
         \A b \in 0 .. bits_to_block(n) - 1, k \in Word :
           Place(b, k) < n => (k \in f[b] <=> Place(b, k) \in T)
  PROVE  zero_unused_bits([bits |-> f, nums |-> n]) = Of(n, T)
<1>1. ASSUME NEW i \in 0 .. n - 1  PROVE bit_index(i) \in f[block_index(i)] <=> i \in T
  BY BlockOf
<1>2. Read(f, n) = T  BY <1>1 DEF Read
<1>. QED  BY <1>2, ZeroUnused

\* Blocks that have the positions T and no other bits.
LEMMA Exact ==
  ASSUME NEW n \in Nat, NEW T \in SUBSET (0 .. n - 1), NEW f, IsBlocks(f, n),
         \A b \in 0 .. bits_to_block(n) - 1, k \in Word : k \in f[b] <=> Place(b, k) \in T
  PROVE  [bits |-> f, nums |-> n] = Of(n, T)
<1>1. ASSUME NEW b \in 0 .. bits_to_block(n) - 1
      PROVE  f[b] = {k \in Word : Place(b, k) \in T}
  <2>1. f[b] \in SUBSET Word  BY DEF IsBlocks
  <2>. QED  BY <2>1
<1>2. f = [b \in 0 .. bits_to_block(n) - 1 |-> {k \in Word : Place(b, k) \in T}]
  BY <1>1 DEF IsBlocks
<1>. QED  BY <1>2 DEF Of

\* Every operation replaces the blocks and keeps the size.
LEMMA NewBits ==
  ASSUME NEW n, NEW S, NEW f
  PROVE  [Of(n, S) EXCEPT !.bits = f] = [bits |-> f, nums |-> n]
<1>1. PICK g : Of(n, S) = [bits |-> g, nums |-> n]  BY DEF Of
<1>2. [[bits |-> g, nums |-> n] EXCEPT !.bits = f] = [bits |-> f, nums |-> n]  OBVIOUS
<1>. QED  BY <1>1, <1>2

\* What the operations on all bits compute.
LEMMA FillFacts ==
  ASSUME NEW n \in Nat, NEW S \in SUBSET (0 .. n - 1)
  PROVE  /\ reset_all(Of(n, S)) = Of(n, {})
         /\ set_all(Of(n, S)) = Of(n, 0 .. n - 1)
         /\ flip(Of(n, S)) = Of(n, (0 .. n - 1) \ S)
<1>1. PICK m \in Nat : m = bits_to_block(n)  BY Sized
<1>2. PICK x : x = Of(n, S)  OBVIOUS
<1>3. /\ DOMAIN x.bits = 0 .. m - 1
      /\ \A b \in 0 .. m - 1 : \A k \in Word : k \in x.bits[b] <=> Place(b, k) \in S
  BY <1>1, <1>2, OfIs
<1>4. \A b \in 0 .. m - 1, k \in Word : Place(b, k) \in Nat
  <2>1. \A b \in 0 .. m - 1 : b \in Nat  BY <1>1
  <2>. QED  BY <2>1, Places
<1>5. reset_all(x) = Of(n, {})
  <2>1. PICK f : f = [b \in 0 .. m - 1 |-> {}]  OBVIOUS
  <2>2. reset_all(x) = [bits |-> f, nums |-> n]
    <3>1. reset_all(x) = [x EXCEPT !.bits = f]  BY <1>3, <2>1 DEF reset_all, Fill
    <3>. QED  BY <1>2, <3>1, NewBits
  <2>3. IsBlocks(f, n)  BY <1>1, <2>1 DEF IsBlocks
  <2>4. \A b \in 0 .. m - 1, k \in Word : k \in f[b] <=> Place(b, k) \in {}  BY <2>1
  <2>. QED  BY <1>1, <2>2, <2>3, <2>4, Exact
<1>6. set_all(x) = Of(n, 0 .. n - 1)
  <2>1. PICK f : f = [b \in 0 .. m - 1 |-> Word]  OBVIOUS
  <2>2. Fill(x, Word) = [bits |-> f, nums |-> n]
    <3>1. Fill(x, Word) = [x EXCEPT !.bits = f]  BY <1>3, <2>1 DEF Fill
    <3>. QED  BY <1>2, <3>1, NewBits
  <2>3. IsBlocks(f, n)  BY <1>1, <2>1 DEF IsBlocks
  <2>4. ASSUME NEW b \in 0 .. m - 1, NEW k \in Word, Place(b, k) < n
        PROVE  k \in f[b] <=> Place(b, k) \in 0 .. n - 1
    <3>1. Place(b, k) \in Nat  BY <1>4
    <3>2. k \in f[b]  BY <2>1
    <3>3. Place(b, k) \in 0 .. n - 1  BY <2>4, <3>1
    <3>. QED  BY <3>2, <3>3
  <2>5. zero_unused_bits([bits |-> f, nums |-> n]) = Of(n, 0 .. n - 1)
    BY <1>1, <2>3, <2>4, Zeroed
  <2>. QED  BY <2>2, <2>5 DEF set_all
<1>7. flip(x) = Of(n, (0 .. n - 1) \ S)
  <2>1. PICK f : f = [b \in 0 .. m - 1 |-> Word \ x.bits[b]]  OBVIOUS
  <2>2. [x EXCEPT !.bits = [b \in DOMAIN x.bits |-> Word \ x.bits[b]]] = [bits |-> f, nums |-> n]
    <3>1. PICK g : g = [b \in DOMAIN x.bits |-> Word \ x.bits[b]]  OBVIOUS
    <3>2. g = f  BY <1>3, <2>1, <3>1
    <3>3. [x EXCEPT !.bits = g] = [bits |-> f, nums |-> n]  BY <1>2, <3>2, NewBits
    <3>. QED  BY <3>1, <3>3
  <2>3. IsBlocks(f, n)  BY <1>1, <2>1 DEF IsBlocks
  <2>4. ASSUME NEW b \in 0 .. m - 1, NEW k \in Word, Place(b, k) < n
        PROVE  k \in f[b] <=> Place(b, k) \in (0 .. n - 1) \ S
    <3>1. Place(b, k) \in Nat  BY <1>4
    <3>2. k \in f[b] <=> Place(b, k) \notin S  BY <1>3, <2>1
    <3>3. Place(b, k) \in 0 .. n - 1  BY <2>4, <3>1
    <3>. QED  BY <3>2, <3>3
  <2>5. zero_unused_bits([bits |-> f, nums |-> n]) = Of(n, (0 .. n - 1) \ S)
    BY <1>1, <2>3, <2>4, Zeroed
  <2>. QED  BY <2>2, <2>5 DEF flip
<1>. QED  BY <1>2, <1>5, <1>6, <1>7

\* Bits of shifted words.
LEMMA Shifted ==
  ASSUME NEW A \in SUBSET Word, NEW r \in Nat, NEW k \in Word
  PROVE  /\ k \in Up(A, r) <=> k - r \in A
         /\ k \in Down(A, r) <=> k + r \in A
         /\ Up(A, r) \in SUBSET Word /\ Down(A, r) \in SUBSET Word
<1>1. \A j \in A : j \in Int  BY BlockAssumption DEF Word
<1>2. k \in Int  BY BlockAssumption DEF Word
<1>3. ASSUME NEW j \in A  PROVE (k = j + r <=> j = k - r) /\ (k = j - r <=> j = k + r)
  BY <1>1, <1>2
<1>. QED  BY <1>3 DEF Up, Down

\* Where bits come from that are shifted by d.
LEMMA ShiftPlaces ==
  ASSUME NEW d \in Nat, NEW b \in Nat, NEW k \in Word,
         NEW c, c = block_index(d), NEW r, r = bit_index(d)
  PROVE  /\ c \in Nat /\ r \in Nat /\ r < bits_per_block
         /\ b >= c /\ k >= r => k - r \in Word /\ Place(b - c, k - r) = Place(b, k) - d
         /\ k < r => k - r \notin Word
         /\ b > c /\ k < r => /\ k + (bits_per_block - r) \in Word
                              /\ Place(b - c - 1, k + (bits_per_block - r)) = Place(b, k) - d
         /\ k >= r => k + (bits_per_block - r) \notin Word
         /\ b < c \/ (b = c /\ k < r) => Place(b, k) < d
<1>1. PICK W \in Nat : W = bits_per_block  BY BlockAssumption
<1>2. c \in Nat /\ r \in 0 .. W - 1 /\ Place(c, r) = d  BY <1>1, Places DEF Word
<1>3. k \in 0 .. W - 1  BY <1>1 DEF Word
<1>4. PICK B \in Nat : B = b * W  BY <1>1
<1>5. PICK C \in Nat : C = c * W  BY <1>1, <1>2
<1>6. d = C + r /\ Place(b, k) = B + k  BY <1>1, <1>2, <1>4, <1>5 DEF Place
<1>7. (b - c) * W = B - C /\ (b - c - 1) * W = B - C - W  BY <1>1, <1>2, <1>4, <1>5
<1>8. Place(b - c, k - r) = B - C + (k - r)  BY <1>1, <1>7 DEF Place
<1>9. Place(b - c - 1, k + (bits_per_block - r)) = B - C - W + (k + (W - r))  BY <1>1, <1>7 DEF Place
<1>10. b < c => B + W <= C
  <2>1. SUFFICES ASSUME b < c  PROVE (b + 1) * W <= c * W
    BY <1>1, <1>4, <1>5
  <2>. QED  BY <1>1, <1>2, <2>1
<1>11. b = c => B = C  BY <1>4, <1>5
<1>12. Word = 0 .. W - 1  BY <1>1 DEF Word
<1>13. c \in Nat /\ r \in Nat /\ r < bits_per_block  BY <1>1, <1>2
<1>14. b >= c /\ k >= r => k - r \in Word /\ Place(b - c, k - r) = Place(b, k) - d
  <2>1. k >= r => k - r \in Word  BY <1>2, <1>3, <1>12
  <2>2. Place(b - c, k - r) = Place(b, k) - d  BY <1>2, <1>3, <1>4, <1>5, <1>6, <1>8
  <2>. QED  BY <2>1, <2>2
<1>15. k < r => k - r \notin Word  BY <1>2, <1>3, <1>12
<1>16. k < r => k + (bits_per_block - r) \in Word  BY <1>1, <1>2, <1>3, <1>12
<1>17. Place(b - c - 1, k + (bits_per_block - r)) = Place(b, k) - d
  BY <1>2, <1>3, <1>4, <1>5, <1>6, <1>9
<1>18. k >= r => k + (bits_per_block - r) \notin Word  BY <1>1, <1>2, <1>3, <1>12
<1>19. b < c \/ (b = c /\ k < r) => Place(b, k) < d
  BY <1>2, <1>3, <1>4, <1>5, <1>6, <1>10, <1>11
<1>. QED  BY <1>13, <1>14, <1>15, <1>16, <1>17, <1>18, <1>19


\* operator<<= moves every position up, and out over the end.
LEMMA ShlFacts ==
  ASSUME NEW n \in Nat, NEW S \in SUBSET (0 .. n - 1), NEW d \in Nat
  PROVE  shl(Of(n, S), d) = Of(n, {i + d : i \in S} \cap 0 .. n - 1)
<1>1. PICK m \in Nat : m = bits_to_block(n)  BY Sized
<1>2. PICK x : x = Of(n, S)  OBVIOUS
<1>3. /\ DOMAIN x.bits = 0 .. m - 1 /\ x.nums = n /\ IsBlocks(x.bits, n)
      /\ \A b \in 0 .. m - 1 : \A k \in Word : k \in x.bits[b] <=> Place(b, k) \in S
  BY <1>1, <1>2, OfIs
<1>4. PICK T : T = {i + d : i \in S} \cap 0 .. n - 1  OBVIOUS
<1>5. \A i \in S : i \in Nat /\ i < n  OBVIOUS
<1>6. T \in SUBSET (0 .. n - 1) /\ \A j \in Nat : j < n => (j \in T <=> j - d \in S)
  <2>1. T \in SUBSET (0 .. n - 1)  BY <1>4
  <2>2. ASSUME NEW j \in Nat, j < n  PROVE j \in T <=> j - d \in S
    <3>1. j \in 0 .. n - 1  BY <2>2
    <3>2. ASSUME NEW i \in S  PROVE j = i + d <=> i = j - d  BY <1>5
    <3>. QED  BY <1>4, <3>1, <3>2
  <2>. QED  BY <2>1, <2>2
<1>7. CASE d >= n
  <2>1. T = {}
    <3>1. ASSUME NEW i \in S  PROVE i + d \notin 0 .. n - 1  BY <1>5, <1>7
    <3>. QED  BY <1>4, <3>1
  <2>2. shl(x, d) = reset_all(x)  BY <1>3, <1>7 DEF shl
  <2>. QED  BY <1>2, <1>4, <2>1, <2>2, FillFacts
<1>8. CASE ~(d >= n) /\ d = 0
  <2>1. ASSUME NEW j \in 0 .. n - 1  PROVE j \in T <=> j \in S
    <3>1. j \in Nat /\ j < n /\ j - d = j  BY <1>8
    <3>. QED  BY <1>6, <3>1
  <2>2. T = S  BY <1>6, <2>1
  <2>3. shl(x, d) = x  BY <1>3, <1>8 DEF shl
  <2>. QED  BY <1>2, <1>4, <2>2, <2>3
<1>9. CASE ~(d >= n) /\ d # 0
  <2>1. PICK c : c = block_index(d)  OBVIOUS
  <2>2. PICK r : r = bit_index(d)  OBVIOUS
  <2>3. c \in Nat /\ r \in Nat /\ r \in Word /\ r < bits_per_block /\ bits_per_block - r \in Nat
    <3>1. c \in Nat /\ r \in Word  BY <2>1, <2>2, Places
    <3>. QED  BY <3>1, BlockAssumption DEF Word
  <2>4. PICK f : f = [b \in 0 .. m - 1 |->
                        IF b < c THEN {}
                        ELSE Up(x.bits[b - c], r) \cup
                             IF b = c THEN {} ELSE Down(x.bits[b - c - 1], bits_per_block - r)]
    OBVIOUS
  <2>5. shl(x, d) = zero_unused_bits([bits |-> f, nums |-> n])
    <3>1. shl(x, d) = zero_unused_bits([x EXCEPT !.bits = f])
      BY <1>3, <1>9, <2>1, <2>2, <2>4 DEF shl
    <3>2. [x EXCEPT !.bits = f] = [bits |-> f, nums |-> n]  BY <1>2, NewBits
    <3>. QED  BY <3>1, <3>2
  <2>6. ASSUME NEW b \in 0 .. m - 1
        PROVE  /\ b \in Nat
               /\ b >= c => b - c \in 0 .. m - 1 /\ x.bits[b - c] \in SUBSET Word
               /\ b > c => b - c - 1 \in 0 .. m - 1 /\ x.bits[b - c - 1] \in SUBSET Word
    <3>1. /\ b \in Nat /\ (b >= c => b - c \in 0 .. m - 1)
          /\ (b > c => b - c - 1 \in 0 .. m - 1)
      BY <1>1, <2>3
    <3>. QED  BY <1>1, <1>3, <3>1 DEF IsBlocks
  <2>7. IsBlocks(f, n)
    <3>1. ASSUME NEW b \in 0 .. m - 1  PROVE f[b] \in SUBSET Word
      <4>1. f[b] \subseteq Word  BY <2>4 DEF Up, Down
      <4>. QED  BY <4>1
    <3>. QED  BY <1>1, <2>4, <3>1 DEF IsBlocks
  <2>8. ASSUME NEW b \in 0 .. m - 1, NEW k \in Word, Place(b, k) < n
        PROVE  k \in f[b] <=> Place(b, k) \in T
    <3>1. b \in Nat  BY <2>6
    <3>2. PICK j \in Nat : j = Place(b, k) /\ j < n  BY <2>8, <3>1, Places
    <3>3. j \in T <=> j - d \in S  BY <1>6, <3>2
    <3>4. CASE b < c
      <4>1. j < d  BY <2>1, <2>2, <3>1, <3>2, <3>4, ShiftPlaces
      <4>2. j - d \notin S  BY <1>5, <4>1
      <4>3. k \notin f[b]  BY <2>4, <3>4
      <4>. QED  BY <3>2, <3>3, <4>2, <4>3
    <3>5. CASE ~(b < c)
      <4>0. b >= c  BY <2>3, <3>1, <3>5
      <4>1. k \in f[b] <=> \/ k \in Up(x.bits[b - c], r)
                           \/ b # c /\ k \in Down(x.bits[b - c - 1], bits_per_block - r)
        BY <2>4, <3>5
      <4>2. k \in Up(x.bits[b - c], r) <=> k - r \in x.bits[b - c]
        BY <2>3, <2>6, <4>0, Shifted
      <4>3. CASE k >= r
        <5>1. k - r \in Word /\ Place(b - c, k - r) = j - d
          BY <2>1, <2>2, <3>1, <3>2, <4>0, <4>3, ShiftPlaces
        <5>2. k \in Up(x.bits[b - c], r) <=> j - d \in S  BY <1>3, <2>6, <4>0, <4>2, <5>1
        <5>3. b # c => k \notin Down(x.bits[b - c - 1], bits_per_block - r)
          <6>1. SUFFICES ASSUME b # c  PROVE k \notin Down(x.bits[b - c - 1], bits_per_block - r)
            OBVIOUS
          <6>2. b > c  BY <2>3, <3>1, <4>0, <6>1
          <6>3. k + (bits_per_block - r) \notin Word
            BY <2>1, <2>2, <3>1, <4>3, ShiftPlaces
          <6>4. x.bits[b - c - 1] \in SUBSET Word  BY <2>6, <6>2
          <6>. QED  BY <2>3, <6>3, <6>4, Shifted
        <5>. QED  BY <3>2, <3>3, <4>1, <5>2, <5>3
      <4>4. CASE ~(k >= r)
        <5>0. k < r  BY <2>3, <4>4, BlockAssumption DEF Word
        <5>1. k \notin Up(x.bits[b - c], r)
          <6>1. k - r \notin Word  BY <2>1, <2>2, <3>1, <5>0, ShiftPlaces
          <6>. QED  BY <2>6, <4>0, <4>2, <6>1
        <5>2. CASE b = c
          <6>1. j < d  BY <2>1, <2>2, <3>1, <3>2, <5>0, <5>2, ShiftPlaces
          <6>2. j - d \notin S  BY <1>5, <6>1
          <6>. QED  BY <3>2, <3>3, <4>1, <5>1, <5>2, <6>2
        <5>3. CASE b # c
          <6>1. b > c  BY <2>3, <3>1, <4>0, <5>3
          <6>2. /\ k + (bits_per_block - r) \in Word
                /\ Place(b - c - 1, k + (bits_per_block - r)) = j - d
            BY <2>1, <2>2, <3>1, <3>2, <5>0, <6>1, ShiftPlaces
          <6>3. k \in Down(x.bits[b - c - 1], bits_per_block - r)
                <=> k + (bits_per_block - r) \in x.bits[b - c - 1]
            BY <2>3, <2>6, <6>1, Shifted
          <6>4. k + (bits_per_block - r) \in x.bits[b - c - 1] <=> j - d \in S
            BY <1>3, <2>6, <6>1, <6>2
          <6>. QED  BY <3>2, <3>3, <4>1, <5>1, <5>3, <6>3, <6>4
        <5>. QED  BY <5>2, <5>3
      <4>. QED  BY <4>3, <4>4
    <3>. QED  BY <3>4, <3>5
  <2>9. zero_unused_bits([bits |-> f, nums |-> n]) = Of(n, T)
    BY <1>1, <1>6, <2>7, <2>8, Zeroed
  <2>. QED  BY <1>2, <1>4, <2>5, <2>9
<1>. QED  BY <1>7, <1>8, <1>9


\* With one block to fill, the loop of operator>>= has no turn.
LEMMA NoTurn ==
  ASSUME NEW x, NEW r, NEW past, NEW c \in Int, last(x) = c
  PROVE  shr_loop(x, c, r, past) = x.bits
<1>. DEFINE step(b, i) ==
              IF i < c THEN b
              ELSE [b EXCEPT ![i - c] =
                      Down(b[i], r) \cup Up(IF i = last(x) THEN past ELSE b[i + 1], bits_per_block - r)]
            turns == last(x) - c
            Rec(g) == g = [t \in 0 .. turns |-> IF t = 0 THEN x.bits ELSE step(g[t - 1], turns + 1 - t)]
            G == CHOOSE g : Rec(g)
<1>1. turns = 0  OBVIOUS
<1>2. shr_loop(x, c, r, past) = G[turns]  BY DEF shr_loop
<1>3. \E g : Rec(g)
  <2>1. PICK g : g = [t \in 0 .. 0 |-> x.bits]  OBVIOUS
  <2>. HIDE DEF step
  <2>2. Rec(g)  BY <1>1, <2>1
  <2>. QED  BY <2>2
<1>. HIDE DEF step, turns
<1>4. Rec(G)
  <2>. HIDE DEF Rec
  <2>. QED  BY <1>3
<1>5. G[0] = x.bits  BY <1>1, <1>4
<1>. QED  BY <1>1, <1>2, <1>5


\* operator>>= moves every position down, and out below 0, when it shifts by whole
\* blocks or leaves one block.
LEMMA ShrFacts ==
  ASSUME NEW n \in Nat, NEW S \in SUBSET (0 .. n - 1), NEW d \in Nat, NEW past,
         bit_index(d) = 0 \/ block_index(d) = last(Of(n, S))
  PROVE  shr(Of(n, S), d, past) = Of(n, {i - d : i \in S} \cap 0 .. n - 1)
<1>1. PICK m \in Nat : m = bits_to_block(n)  BY Sized
<1>2. PICK x : x = Of(n, S)  OBVIOUS
<1>3. /\ DOMAIN x.bits = 0 .. m - 1 /\ x.nums = n /\ IsBlocks(x.bits, n)
      /\ block(x) = m /\ last(x) = m - 1
      /\ \A b \in 0 .. m - 1 : \A k \in Word : k \in x.bits[b] <=> Place(b, k) \in S
  BY <1>1, <1>2, OfIs
<1>4. PICK T : T = {i - d : i \in S} \cap 0 .. n - 1  OBVIOUS
<1>5. \A i \in S : i \in Nat /\ i < n  OBVIOUS
<1>6. T \in SUBSET (0 .. n - 1) /\ \A j \in Nat : j \in T <=> j + d \in S
  <2>1. T \in SUBSET (0 .. n - 1)  BY <1>4
  <2>2. ASSUME NEW j \in Nat  PROVE j \in T <=> j + d \in S
    <3>1. ASSUME NEW i \in S  PROVE j = i - d <=> i = j + d  BY <1>5
    <3>2. j + d \in S => j \in 0 .. n - 1
      <4>1. j + d \in S => j + d < n  BY <1>5
      <4>. QED  BY <4>1
    <3>. QED  BY <1>4, <3>1, <3>2
  <2>. QED  BY <2>1, <2>2
<1>7. CASE d >= n
  <2>1. T = {}
    <3>1. ASSUME NEW i \in S  PROVE i - d \notin 0 .. n - 1  BY <1>5, <1>7
    <3>. QED  BY <1>4, <3>1
  <2>2. shr(x, d, past) = reset_all(x)  BY <1>3, <1>7 DEF shr
  <2>. QED  BY <1>2, <1>4, <2>1, <2>2, FillFacts
<1>8. CASE ~(d >= n) /\ d = 0
  <2>1. ASSUME NEW j \in 0 .. n - 1  PROVE j \in T <=> j \in S
    <3>1. j \in Nat /\ j + d = j  BY <1>8
    <3>. QED  BY <1>6, <3>1
  <2>2. T = S  BY <1>6, <2>1
  <2>3. shr(x, d, past) = x  BY <1>3, <1>8 DEF shr
  <2>. QED  BY <1>2, <1>4, <2>2, <2>3
<1>9. CASE ~(d >= n) /\ d # 0
  <2>1. PICK c \in Nat : c = block_index(d)  BY Places
  <2>2. PICK r \in Word : r = bit_index(d)  BY Places
  <2>3. r \in Nat /\ bits_per_block \in Nat /\ r < bits_per_block  BY <2>2, BlockAssumption DEF Word
  <2>4. c \in 0 .. m - 1  BY <1>1, <1>9, <2>1, BlockOf
  <2>5. PICK moved : moved =
            IF r = 0
            THEN [b \in DOMAIN x.bits |-> IF b + c \in DOMAIN x.bits THEN x.bits[b + c] ELSE {}]
            ELSE [shr_loop(x, c, r, past) EXCEPT
                    ![last(x) - c] = Down(shr_loop(x, c, r, past)[last(x)], r)]
    OBVIOUS
  <2>6. PICK f : f = [b \in 0 .. m - 1 |-> IF b >= m - c THEN {} ELSE moved[b]]  OBVIOUS
  <2>7. shr(x, d, past) = [bits |-> f, nums |-> n]
    <3>1. shr(x, d, past) = [x EXCEPT !.bits = f]
      BY <1>3, <1>9, <2>1, <2>2, <2>5, <2>6 DEF shr
    <3>2. [x EXCEPT !.bits = f] = [bits |-> f, nums |-> n]  BY <1>2, NewBits
    <3>. QED  BY <3>1, <3>2
  <2>8. \A b \in 0 .. m - 1 : x.bits[b] \in SUBSET Word  BY <1>1, <1>3 DEF IsBlocks
  <2>9. ASSUME NEW b \in 0 .. m - 1, b < m - c
        PROVE  /\ b \in Nat /\ b + c \in 0 .. m - 1 /\ f[b] = moved[b]
               /\ f[b] = Down(x.bits[b + c], r)
    <3>1. b \in Nat /\ b + c \in 0 .. m - 1 /\ f[b] = moved[b]  BY <1>1, <2>1, <2>6, <2>9
    <3>2. PICK A \in SUBSET Word : A = x.bits[b + c]  BY <2>8, <3>1
    <3>3. CASE r = 0
      <4>1. moved[b] = A  BY <1>3, <2>5, <3>1, <3>2, <3>3
      <4>2. ASSUME NEW k \in Word  PROVE k \in Down(A, r) <=> k \in A
        <5>1. k + r = k  BY <3>3, BlockAssumption DEF Word
        <5>. QED  BY <2>3, <5>1, Shifted
      <4>3. Down(A, r) \subseteq Word  BY DEF Down
      <4>4. Down(A, r) = A  BY <4>2, <4>3
      <4>. QED  BY <3>1, <3>2, <4>1, <4>4
    <3>4. CASE r # 0
      <4>1. c = m - 1 /\ c = last(x)  BY <1>2, <1>3, <2>1, <2>2, <3>4
      <4>2. b = 0 /\ last(x) - c = 0 /\ b + c = last(x)  BY <1>1, <2>9, <4>1
      <4>3. shr_loop(x, c, r, past) = x.bits
        <5>1. c \in Int /\ last(x) = c  BY <2>1, <4>1
        <5>. QED  BY <5>1, NoTurn
      <4>4. moved = [x.bits EXCEPT ![0] = Down(x.bits[last(x)], r)]  BY <2>5, <3>4, <4>2, <4>3
      <4>5. moved[0] = Down(x.bits[last(x)], r)  BY <1>3, <4>2, <4>4
      <4>. QED  BY <3>1, <4>2, <4>5
    <3>. QED  BY <3>1, <3>3, <3>4
  <2>10. IsBlocks(f, n)
    <3>1. ASSUME NEW b \in 0 .. m - 1  PROVE f[b] \in SUBSET Word
      <4>1. CASE b >= m - c  BY <2>6, <4>1
      <4>2. CASE ~(b >= m - c)
        <5>1. b < m - c  BY <1>1, <2>1, <4>2
        <5>2. f[b] \subseteq Word  BY <2>9, <5>1 DEF Down
        <5>. QED  BY <5>2
      <4>. QED  BY <4>1, <4>2
    <3>. QED  BY <1>1, <2>6, <3>1 DEF IsBlocks
  <2>11. ASSUME NEW b \in 0 .. m - 1, NEW k \in Word  PROVE k \in f[b] <=> Place(b, k) \in T
    <3>1. b \in Nat /\ k \in Nat  BY <1>1, BlockAssumption DEF Word
    <3>2. PICK j \in Nat : j = Place(b, k)  BY <3>1, Places
    <3>3. j + d = Place(b + c, k + r)
      <4>1. d = Place(c, r)  BY <2>1, <2>2, Places
      <4>2. b * bits_per_block + k + (c * bits_per_block + r) = (b + c) * bits_per_block + (k + r)
        BY <2>1, <2>3, <3>1
      <4>. QED  BY <3>2, <4>1, <4>2 DEF Place
    <3>4. CASE b >= m - c
      <4>1. k \notin f[b]  BY <2>6, <3>4
      <4>2. j + d \notin S
        <5>1. SUFFICES ASSUME j + d \in S  PROVE FALSE
          OBVIOUS
        <5>2. (b + c) * bits_per_block <= j + d
          BY <2>1, <2>3, <3>1, <3>3 DEF Place
        <5>3. Place(b + c, 0) = (b + c) * bits_per_block /\ 0 \in Word /\ b + c \in Nat
          BY <2>1, <2>3, <3>1 DEF Place, Word
        <5>4. Place(b + c, 0) < n
          <6>1. j + d < n /\ Place(b + c, 0) \in Nat  BY <1>5, <5>1, <5>3, Places
          <6>. QED  BY <5>2, <5>3, <6>1
        <5>5. b + c < m  BY <1>1, <5>3, <5>4, Sized
        <5>. QED  BY <1>1, <2>1, <3>1, <3>4, <5>5
      <4>. QED  BY <1>6, <3>2, <4>1, <4>2
    <3>5. CASE ~(b >= m - c)
      <4>1. b < m - c  BY <1>1, <2>1, <3>1, <3>5
      <4>2. f[b] = Down(x.bits[b + c], r) /\ b + c \in 0 .. m - 1  BY <2>9, <4>1
      <4>3. k \in f[b] <=> k + r \in x.bits[b + c]
        <5>1. PICK A \in SUBSET Word : A = x.bits[b + c]  BY <2>8, <4>2
        <5>2. k \in Down(A, r) <=> k + r \in A  BY <2>3, Shifted
        <5>. QED  BY <4>2, <5>1, <5>2
      <4>4. CASE k + r \in Word
        <5>1. k + r \in x.bits[b + c] <=> j + d \in S  BY <1>3, <3>3, <4>2, <4>4
        <5>. QED  BY <1>6, <3>2, <4>3, <5>1
      <4>5. CASE k + r \notin Word
        <5>1. r # 0  BY <3>1, <4>5
        <5>2. c = m - 1  BY <1>2, <1>3, <2>1, <2>2, <5>1
        <5>3. b = 0  BY <1>1, <4>1, <5>2
        <5>4. j + d \notin S
          <6>1. SUFFICES ASSUME j + d \in S  PROVE FALSE
            OBVIOUS
          <6>2. k + r >= bits_per_block  BY <2>3, <3>1, <4>5 DEF Word
          <6>3. PICK C \in Nat : C = c * bits_per_block  BY <2>1, <2>3
          <6>4. b + c = c /\ j + d = C + (k + r)  BY <2>1, <3>3, <5>3, <6>3 DEF Place
          <6>5. Place(m, 0) = C + bits_per_block
            BY <1>1, <2>1, <2>3, <5>2, <6>3 DEF Place
          <6>6. 0 \in Word /\ Place(m, 0) \in Nat  BY <1>1, <2>3, Places DEF Word
          <6>7. Place(m, 0) < n
            <7>1. j + d < n  BY <1>5, <6>1
            <7>. QED  BY <2>3, <3>1, <6>2, <6>3, <6>4, <6>5, <7>1
          <6>8. m < m  BY <1>1, <6>6, <6>7, Sized
          <6>. QED  BY <1>1, <6>8
        <5>5. k \notin f[b]  BY <2>8, <4>2, <4>3, <4>5
        <5>. QED  BY <1>6, <3>2, <5>4, <5>5
      <4>. QED  BY <4>4, <4>5
    <3>. QED  BY <3>4, <3>5
  <2>12. [bits |-> f, nums |-> n] = Of(n, T)  BY <1>1, <1>6, <2>10, <2>11, Exact
  <2>. QED  BY <1>2, <1>4, <2>7, <2>12
<1>. QED  BY <1>7, <1>8, <1>9


Resized(g, m, n, q, v) ==
  [b \in 0 .. bits_to_block(q) - 1 |->
     CASE b > m - 1 -> IF v THEN Word ELSE {}
       [] b = m - 1 /\ v /\ q > n /\ bit_index(n) # 0 ->
            g[b] \cup {k \in Word : k >= bit_index(n)}
       [] OTHER -> g[b]]

\* resize() before it zeroes the unused bits: the blocks it adds, the block it
\* fills up and the ones it keeps.
LEMMA ResizeDef ==
  ASSUME NEW n \in Nat, NEW g, IsBlocks(g, n), NEW q \in Nat, NEW v \in BOOLEAN,
         NEW f, f = Resized(g, bits_to_block(n), n, q, v)
  PROVE  /\ resize([bits |-> g, nums |-> n], q, v) = zero_unused_bits([bits |-> f, nums |-> q])
         /\ IsBlocks(f, q) /\ bits_to_block(q) \in Nat /\ bits_to_block(n) \in Nat
         /\ \A b \in 0 .. bits_to_block(q) - 1 :
              /\ b > bits_to_block(n) - 1 => f[b] = IF v THEN Word ELSE {}
              /\ b = bits_to_block(n) - 1 /\ v /\ q > n /\ bit_index(n) # 0 =>
                   f[b] = g[b] \cup {k \in Word : k >= bit_index(n)}
              /\ b < bits_to_block(n) - 1 => f[b] = g[b]
              /\ b = bits_to_block(n) - 1 /\ ~(v /\ q > n /\ bit_index(n) # 0) => f[b] = g[b]
<1>1. PICK m \in Nat : m = bits_to_block(n)  BY Sized
<1>2. PICK p \in Nat : p = bits_to_block(q)  BY Sized
<1>3. PICK x : x = [bits |-> g, nums |-> n]  OBVIOUS
<1>4. x.bits = g /\ x.nums = n  BY <1>3
<1>5. DOMAIN g = 0 .. m - 1 /\ \A b \in 0 .. m - 1 : g[b] \in SUBSET Word  BY <1>1 DEF IsBlocks
<1>6. last(x) = m - 1 /\ extra_bits(x) = bit_index(n)
  BY <1>4, <1>5, BlockCount DEF extra_bits
<1>7. resize(x, q, v) = zero_unused_bits([bits |-> f, nums |-> q])
  BY <1>1, <1>4, <1>6 DEF resize, Resized
<1>8. f = Resized(g, m, n, q, v)  BY <1>1
<1>9. ASSUME NEW b \in 0 .. p - 1
      PROVE  /\ b > m - 1 => f[b] = IF v THEN Word ELSE {}
             /\ b = m - 1 /\ v /\ q > n /\ bit_index(n) # 0 =>
                  f[b] = g[b] \cup {k \in Word : k >= bit_index(n)}
             /\ b < m - 1 => f[b] = g[b]
             /\ b = m - 1 /\ ~(v /\ q > n /\ bit_index(n) # 0) => f[b] = g[b]
  <2>1. f[b] = CASE b > m - 1 -> IF v THEN Word ELSE {}
                 [] b = m - 1 /\ v /\ q > n /\ bit_index(n) # 0 ->
                      g[b] \cup {k \in Word : k >= bit_index(n)}
                 [] OTHER -> g[b]
    BY <1>2, <1>8 DEF Resized
  <2>2. b \in Nat  BY <1>2
  <2>3. ASSUME b > m - 1  PROVE f[b] = IF v THEN Word ELSE {}
    <3>1. ~(b = m - 1)  BY <1>1, <2>2, <2>3
    <3>. QED  BY <2>1, <2>3, <3>1
  <2>4. ASSUME b = m - 1, v, q > n, bit_index(n) # 0
        PROVE  f[b] = g[b] \cup {k \in Word : k >= bit_index(n)}
    <3>1. ~(b > m - 1)  BY <1>1, <2>2, <2>4
    <3>. QED  BY <2>1, <2>4, <3>1
  <2>5. ASSUME b < m - 1 \/ (b = m - 1 /\ ~(v /\ q > n /\ bit_index(n) # 0))
        PROVE  f[b] = g[b]
    <3>1. ~(b > m - 1) /\ ~(b = m - 1 /\ v /\ q > n /\ bit_index(n) # 0)  BY <1>1, <2>2, <2>5
    <3>. QED  BY <2>1, <3>1
  <2>. QED  BY <2>3, <2>4, <2>5
<1>10. ASSUME NEW b \in 0 .. p - 1  PROVE f[b] \in SUBSET Word
  <2>1. b > m - 1 \/ b \in 0 .. m - 1  BY <1>1, <1>2
  <2>2. b \in 0 .. m - 1 => b < m - 1 \/ b = m - 1  BY <1>1
  <2>3. CASE b > m - 1  BY <1>9, <2>3
  <2>4. CASE b \in 0 .. m - 1
    <3>1. g[b] \in SUBSET Word /\ {k \in Word : k >= bit_index(n)} \in SUBSET Word  BY <1>5, <2>4
    <3>2. f[b] = g[b] \/ f[b] = g[b] \cup {k \in Word : k >= bit_index(n)}  BY <1>9, <2>2, <2>4
    <3>. QED  BY <3>1, <3>2
  <2>. QED  BY <2>1, <2>3, <2>4
<1>11. IsBlocks(f, q)  BY <1>2, <1>8, <1>10 DEF IsBlocks, Resized
<1>. QED  BY <1>1, <1>2, <1>3, <1>7, <1>9, <1>11

\* resize() leaves the unused bits 0, whatever they were.
LEMMA ResizeShape ==
  ASSUME NEW n \in Nat, NEW g, IsBlocks(g, n), NEW q \in Nat, NEW v \in BOOLEAN
  PROVE  \E T \in SUBSET (0 .. q - 1) : resize([bits |-> g, nums |-> n], q, v) = Of(q, T)
<1>1. PICK f : f = Resized(g, bits_to_block(n), n, q, v)  OBVIOUS
<1>2. /\ resize([bits |-> g, nums |-> n], q, v) = zero_unused_bits([bits |-> f, nums |-> q])
      /\ IsBlocks(f, q)
  BY <1>1, ResizeDef
<1>3. zero_unused_bits([bits |-> f, nums |-> q]) = Of(q, Read(f, q))  BY <1>2, ZeroUnused
<1>4. Read(f, q) \in SUBSET (0 .. q - 1)  BY DEF Read
<1>. QED  BY <1>2, <1>3, <1>4

\* resize() keeps what is within the new size and fills what it adds.
LEMMA ResizeFacts ==
  ASSUME NEW n \in Nat, NEW S \in SUBSET (0 .. n - 1), NEW q \in Nat, NEW v \in BOOLEAN
  PROVE  resize(Of(n, S), q, v) = Of(q, (S \cap 0 .. q - 1) \cup IF v THEN n .. q - 1 ELSE {})
<1>1. PICK m \in Nat : m = bits_to_block(n)  BY Sized
<1>2. PICK p \in Nat : p = bits_to_block(q)  BY Sized
<1>3. PICK g : Of(n, S) = [bits |-> g, nums |-> n]  BY DEF Of
<1>4. Of(n, S).bits = g  BY <1>3
<1>5. /\ IsBlocks(g, n)
      /\ \A b \in 0 .. m - 1 : \A k \in Word : k \in g[b] <=> Place(b, k) \in S
  BY <1>1, <1>4, OfIs
<1>6. PICK f : f = Resized(g, m, n, q, v)  OBVIOUS
<1>7. /\ resize(Of(n, S), q, v) = zero_unused_bits([bits |-> f, nums |-> q])
      /\ IsBlocks(f, q)
      /\ \A b \in 0 .. p - 1 :
              /\ b > m - 1 => f[b] = IF v THEN Word ELSE {}
              /\ b = m - 1 /\ v /\ q > n /\ bit_index(n) # 0 =>
                   f[b] = g[b] \cup {k \in Word : k >= bit_index(n)}
              /\ b < m - 1 => f[b] = g[b]
              /\ b = m - 1 /\ ~(v /\ q > n /\ bit_index(n) # 0) => f[b] = g[b]
  BY <1>1, <1>2, <1>3, <1>5, <1>6, ResizeDef
<1>8. PICK T : T = (S \cap 0 .. q - 1) \cup IF v THEN n .. q - 1 ELSE {}  OBVIOUS
<1>9. /\ T \in SUBSET (0 .. q - 1)
      /\ \A j \in Nat : j < q => (j \in T <=> j \in S \/ (v /\ ~(j < n)))
  <2>1. T \in SUBSET (0 .. q - 1)  BY <1>8
  <2>2. ASSUME NEW j \in Nat, j < q  PROVE j \in T <=> j \in S \/ (v /\ ~(j < n))
    <3>1. j \in 0 .. q - 1 /\ (j \in n .. q - 1 <=> ~(j < n))  BY <2>2
    <3>. QED  BY <1>8, <3>1
  <2>. QED  BY <2>1, <2>2
<1>10. \A j \in S : j \in Nat /\ j < n  OBVIOUS
<1>11. bit_index(n) \in Word /\ \A k \in Word : k \in Nat  BY Places, BlockAssumption DEF Word
<1>12. ASSUME NEW b \in 0 .. p - 1, NEW k \in Word, Place(b, k) < q
       PROVE  k \in f[b] <=> Place(b, k) \in T
  <2>1. b \in Nat /\ k \in Nat  BY <1>2, <1>11
  <2>2. PICK j \in Nat : j = Place(b, k) /\ j < q  BY <1>12, <2>1, Places
  <2>3. j \in T <=> j \in S \/ (v /\ ~(j < n))  BY <1>9, <2>2
  <2>4. CASE b > m - 1
    <3>1. ~(j < n)
      <4>1. ~(b < m)  BY <1>1, <2>1, <2>4
      <4>. QED  BY <1>1, <2>1, <2>2, <4>1, Sized
    <3>2. j \notin S  BY <1>10, <3>1
    <3>3. k \in f[b] <=> v  BY <1>7, <2>4
    <3>. QED  BY <2>2, <2>3, <3>1, <3>2, <3>3
  <2>5. CASE b < m - 1
    <3>1. j < n  BY <1>1, <2>1, <2>2, <2>5, Sized
    <3>2. b \in 0 .. m - 1  BY <1>1, <2>1, <2>5
    <3>3. f[b] = g[b]  BY <1>7, <2>5
    <3>. QED  BY <1>5, <2>2, <2>3, <3>1, <3>2, <3>3
  <2>6. CASE b = m - 1
    <3>1. b \in 0 .. m - 1  BY <1>1, <2>1, <2>6
    <3>2. j < n <=> bit_index(n) = 0 \/ k < bit_index(n)  BY <1>1, <2>1, <2>2, <2>6, Sized
    <3>3. k \in g[b] <=> j \in S  BY <1>5, <2>2, <3>1
    <3>4. CASE v /\ q > n /\ bit_index(n) # 0
      <4>1. k \in f[b] <=> j \in S \/ k >= bit_index(n)  BY <1>7, <2>6, <3>3, <3>4
      <4>2. k >= bit_index(n) <=> ~(j < n)  BY <1>11, <3>2, <3>4
      <4>. QED  BY <2>2, <2>3, <3>4, <4>1, <4>2
    <3>5. CASE ~(v /\ q > n /\ bit_index(n) # 0)
      <4>1. f[b] = g[b]  BY <1>7, <2>6, <3>5
      <4>2. v => j < n
        <5>1. ~(q > n) => j < n  BY <2>2
        <5>. QED  BY <3>2, <3>5, <5>1
      <4>. QED  BY <2>2, <2>3, <3>3, <4>1, <4>2
    <3>. QED  BY <3>4, <3>5
  <2>7. b > m - 1 \/ b < m - 1 \/ b = m - 1  BY <1>1, <2>1
  <2>. QED  BY <2>4, <2>5, <2>6, <2>7
<1>13. zero_unused_bits([bits |-> f, nums |-> q]) = Of(q, T)
  BY <1>2, <1>7, <1>9, <1>12, Zeroed
<1>. QED  BY <1>7, <1>8, <1>13


\* set(i, bit) adds or removes one position.
LEMMA SetBitFacts ==
  ASSUME NEW n \in Nat, NEW S \in SUBSET (0 .. n - 1), NEW i \in 0 .. n - 1, NEW bit \in BOOLEAN,
         NEW T, T = IF bit THEN S \cup {i} ELSE S \ {i}
  PROVE  set_bit(Of(n, S), i, bit) = Of(n, T)
<1>1. PICK m \in Nat : m = bits_to_block(n)  BY Sized
<1>2. PICK g : Of(n, S) = [bits |-> g, nums |-> n]  BY DEF Of
<1>3. Of(n, S).bits = g  BY <1>2
<1>4. /\ g \in [0 .. m - 1 -> SUBSET Word]
      /\ \A b \in 0 .. m - 1 : \A k \in Word : k \in g[b] <=> Place(b, k) \in S
  BY <1>1, <1>3, OfIs DEF IsBlocks
<1>5. PICK c \in 0 .. m - 1 : c = block_index(i)  BY <1>1, BlockOf
<1>6. PICK r \in Word : r = bit_index(i)  BY BlockOf
<1>7. Place(c, r) = i  BY <1>5, <1>6, BlockOf
<1>8. PICK A \in SUBSET Word : A = IF bit THEN g[c] \cup {r} ELSE g[c] \ {r}  BY <1>4
<1>9. PICK f : f = [g EXCEPT ![c] = A]  OBVIOUS
<1>10. set_bit(Of(n, S), i, bit) = [bits |-> f, nums |-> n]
  <2>1. PICK x : x = [bits |-> g, nums |-> n]  OBVIOUS
  <2>2. set_bit(x, i, bit) = [x EXCEPT !.bits = [x.bits EXCEPT ![c] =
                                IF bit THEN x.bits[c] \cup {r} ELSE x.bits[c] \ {r}]]
    BY <1>5, <1>6 DEF set_bit
  <2>3. x.bits = g  BY <2>1
  <2>4. set_bit(x, i, bit) = [x EXCEPT !.bits = f]  BY <1>8, <1>9, <2>2, <2>3
  <2>5. [x EXCEPT !.bits = f] = [bits |-> f, nums |-> n]  BY <2>1
  <2>. QED  BY <1>2, <2>1, <2>4, <2>5
<1>11. IsBlocks(f, n)  BY <1>1, <1>4, <1>8, <1>9 DEF IsBlocks
<1>12. T = IF bit THEN S \cup {i} ELSE S \ {i}  OBVIOUS
<1>13. T \in SUBSET (0 .. n - 1)  BY <1>12
<1>14. ASSUME NEW b \in 0 .. m - 1, NEW k \in Word  PROVE k \in f[b] <=> Place(b, k) \in T
  <2>1. b \in Nat /\ c \in Nat  BY <1>1
  <2>2. Place(b, k) = i <=> b = c /\ k = r
    <3>1. /\ block_index(Place(b, k)) = b /\ bit_index(Place(b, k)) = k  BY <2>1, Places
    <3>. QED  BY <1>5, <1>6, <1>7, <3>1
  <2>3. k \in g[b] <=> Place(b, k) \in S  BY <1>4
  <2>4. CASE b = c
    <3>1. f[b] = A  BY <1>4, <1>9, <2>4
    <3>2. k \in A <=> IF bit THEN k \in g[b] \/ k = r ELSE k \in g[b] /\ k # r  BY <1>8, <2>4
    <3>. QED  BY <1>12, <2>2, <2>3, <2>4, <3>1, <3>2
  <2>5. CASE b # c
    <3>1. f[b] = g[b]  BY <1>4, <1>9, <2>5
    <3>. QED  BY <1>12, <2>2, <2>3, <2>5, <3>1
  <2>. QED  BY <2>4, <2>5
<1>15. [bits |-> f, nums |-> n] = Of(n, T)  BY <1>1, <1>11, <1>13, <1>14, Exact
<1>. QED  BY <1>10, <1>15

\* flip(i) changes the one position.
LEMMA FlipBitFacts ==
  ASSUME NEW n \in Nat, NEW S \in SUBSET (0 .. n - 1), NEW i \in 0 .. n - 1
  PROVE  flip_bit(Of(n, S), i) = Of(n, IF i \in S THEN S \ {i} ELSE S \cup {i})
<1>1. bit_index(i) \in Of(n, S).bits[block_index(i)] <=> i \in S
  BY BlockOf, OfIs
<1>2. PICK bit \in BOOLEAN : bit = (bit_index(i) \notin Of(n, S).bits[block_index(i)])  OBVIOUS
<1>3. flip_bit(Of(n, S), i) = set_bit(Of(n, S), i, bit)  BY <1>2 DEF flip_bit
<1>4. bit <=> i \notin S  BY <1>1, <1>2
<1>5. PICK T : T = IF bit THEN S \cup {i} ELSE S \ {i}  OBVIOUS
<1>6. set_bit(Of(n, S), i, bit) = Of(n, T)
  <2>1. bit \in BOOLEAN  BY <1>2
  <2>. QED  BY <1>5, <2>1, SetBitFacts
<1>7. T = IF i \in S THEN S \ {i} ELSE S \cup {i}  BY <1>4, <1>5
<1>. QED  BY <1>3, <1>6, <1>7

\* push_back() adds one position, with the bit given.
LEMMA PushFacts ==
  ASSUME NEW n \in Nat, NEW S \in SUBSET (0 .. n - 1), NEW bit \in BOOLEAN
  PROVE  push_back(Of(n, S), bit) = Of(n + 1, S \cup IF bit THEN {n} ELSE {})
<1>1. Of(n, S).nums = n  BY OfIs
<1>2. n + 1 \in Nat /\ n \in 0 .. n + 1 - 1 /\ S \in SUBSET (0 .. n + 1 - 1)  OBVIOUS
<1>3. (S \cap 0 .. n + 1 - 1) \cup (IF FALSE THEN n .. n + 1 - 1 ELSE {}) = S  BY <1>2
<1>4. resize(Of(n, S), n + 1, FALSE) = Of(n + 1, S)
  <2>1. PICK q \in Nat : q = n + 1  BY <1>2
  <2>2. PICK v \in BOOLEAN : v = FALSE  OBVIOUS
  <2>3. resize(Of(n, S), q, v) = Of(q, (S \cap 0 .. q - 1) \cup IF v THEN n .. q - 1 ELSE {})
    BY <2>1, <2>2, ResizeFacts
  <2>4. (S \cap 0 .. q - 1) \cup (IF v THEN n .. q - 1 ELSE {}) = S  BY <1>3, <2>1, <2>2
  <2>. QED  BY <2>1, <2>2, <2>3, <2>4
<1>5. PICK T : T = IF bit THEN S \cup {n} ELSE S \ {n}  OBVIOUS
<1>6. set_bit(Of(n + 1, S), n, bit) = Of(n + 1, T)
  <2>1. PICK q \in Nat : q = n + 1  BY <1>2
  <2>2. n \in 0 .. q - 1 /\ S \in SUBSET (0 .. q - 1)  BY <1>2, <2>1
  <2>3. set_bit(Of(q, S), n, bit) = Of(q, T)  BY <1>5, <2>1, <2>2, SetBitFacts
  <2>. QED  BY <2>1, <2>3
<1>7. T = S \cup IF bit THEN {n} ELSE {}
  <2>1. n \notin S  OBVIOUS
  <2>. QED  BY <1>5, <2>1
<1>. QED  BY <1>1, <1>4, <1>6, <1>7 DEF push_back

\* append() adds the bits of a word behind the last position.
LEMMA AppendFacts ==
  ASSUME NEW n \in Nat, NEW S \in SUBSET (0 .. n - 1), NEW A \in SUBSET Word
  PROVE  append(Of(n, S), A) = Of(n + bits_per_block, S \cup {n + k : k \in A})
<1>1. PICK m \in Nat : m = bits_to_block(n)  BY Sized
<1>2. PICK W \in Nat \ {0} : W = bits_per_block /\ Word = 0 .. W - 1
  BY BlockAssumption DEF Word
<1>3. PICK x : x = Of(n, S)  OBVIOUS
<1>4. /\ x.nums = n /\ block(x) = m /\ last(x) = m - 1
      /\ x.bits \in [0 .. m - 1 -> SUBSET Word]
      /\ \A b \in 0 .. m - 1 : \A k \in Word : k \in x.bits[b] <=> Place(b, k) \in S
  BY <1>1, <1>3, OfIs DEF IsBlocks
<1>5. PICK e \in Word : e = bit_index(n)  BY Places
<1>6. PICK q \in Nat : q = n + W  BY <1>2
<1>7. bits_to_block(q) = m + 1
  <2>1. PICK d \in Nat : d = block_index(n) /\ Place(d, e) = n  BY <1>5, Places
  <2>2. Place(d + 1, e) = q
    <3>1. e \in Int  BY <1>2
    <3>2. PICK D \in Int : D = d * W  BY <1>2, <2>1
    <3>3. (d + 1) * W = D + W  BY <1>2, <2>1, <3>2
    <3>4. Place(d + 1, e) = (d + 1) * W + e /\ n = d * W + e  BY <1>2, <2>1 DEF Place
    <3>5. Place(d + 1, e) = D + W + e /\ n = D + e  BY <3>2, <3>3, <3>4
    <3>. QED  BY <1>2, <1>6, <3>1, <3>2, <3>5
  <2>3. block_index(q) = d + 1 /\ bit_index(q) = e  BY <2>1, <2>2, Places
  <2>. QED  BY <1>1, <1>5, <2>1, <2>3 DEF bits_to_block, block_index, bit_index
<1>8. /\ e # 0 => n = Place(m - 1, e) /\ m # 0
      /\ e = 0 => n = Place(m, 0)
  <2>1. block_index(n) \in Nat /\ Place(block_index(n), bit_index(n)) = n  BY Places
  <2>2. /\ bit_index(n) # 0 => block_index(n) = m - 1
        /\ bit_index(n) = 0 => block_index(n) = m
    BY <1>1, Sized
  <2>. QED  BY <1>1, <1>5, <2>1, <2>2
<1>9. PICK f : f = [b \in 0 .. m |->
                      CASE b = m /\ e = 0 -> A
                        [] b = m /\ e # 0 -> Down(A, W - e)
                        [] b = m - 1 /\ e # 0 -> x.bits[b] \cup Up(A, e)
                        [] OTHER -> x.bits[b]]
  OBVIOUS
<1>10. append(x, A) = [bits |-> f, nums |-> q]
  BY <1>2, <1>4, <1>5, <1>6, <1>9 DEF append, extra_bits
<1>11. ASSUME NEW b \in 0 .. m
       PROVE  /\ b = m /\ e = 0 => f[b] = A
              /\ b = m /\ e # 0 => f[b] = Down(A, W - e)
              /\ b = m - 1 /\ e # 0 => f[b] = x.bits[b] \cup Up(A, e)
              /\ b < m - 1 \/ (b = m - 1 /\ e = 0) => f[b] = x.bits[b]
  <2>1. f[b] = CASE b = m /\ e = 0 -> A
                 [] b = m /\ e # 0 -> Down(A, W - e)
                 [] b = m - 1 /\ e # 0 -> x.bits[b] \cup Up(A, e)
                 [] OTHER -> x.bits[b]
    BY <1>9
  <2>2. /\ b = m => ~(b = m - 1)
        /\ b < m - 1 => ~(b = m) /\ ~(b = m - 1)
    BY <1>1
  <2>. QED  BY <2>1, <2>2
<1>12. e \in Nat /\ W - e \in Nat  BY <1>2, <1>5
<1>13. ASSUME NEW b \in 0 .. m
       PROVE  /\ b \in Nat /\ (b = m \/ b = m - 1 \/ b < m - 1)
              /\ b # m => b \in 0 .. m - 1 /\ x.bits[b] \in SUBSET Word
  BY <1>1, <1>4
<1>14. IsBlocks(f, q)
  <2>1. ASSUME NEW b \in 0 .. m  PROVE f[b] \in SUBSET Word
    <3>1. Down(A, W - e) \subseteq Word /\ Up(A, e) \subseteq Word  BY DEF Down, Up
    <3>. QED  BY <1>11, <1>13, <3>1
  <2>2. m + 1 - 1 = m  BY <1>1
  <2>. QED  BY <1>7, <1>9, <2>1, <2>2 DEF IsBlocks
<1>15. PICK T : T = S \cup {n + k : k \in A}  OBVIOUS
<1>16. /\ T \in SUBSET (0 .. q - 1)
       /\ \A j \in Nat : j < n => (j \in T <=> j \in S)
       /\ \A a \in Word : n + a \in T <=> a \in A
  <2>1. \A a \in Word : a \in Nat /\ a < W  BY <1>2
  <2>2. \A i \in S : i \in Nat /\ i < n  OBVIOUS
  <2>3. ASSUME NEW a \in A  PROVE n + a \in 0 .. q - 1  BY <1>6, <2>1
  <2>4. S \subseteq 0 .. q - 1  BY <1>6, <2>2
  <2>5. ASSUME NEW j \in Nat, j < n  PROVE j \in T <=> j \in S
    <3>1. ASSUME NEW a \in A  PROVE j # n + a  BY <2>1, <2>5
    <3>. QED  BY <1>15, <3>1
  <2>6. ASSUME NEW a \in Word  PROVE n + a \in T <=> a \in A
    <3>1. n + a \notin S  BY <2>1, <2>2
    <3>2. ASSUME NEW o \in A, n + a = n + o  PROVE a = o  BY <2>1, <3>2
    <3>. QED  BY <1>15, <3>1, <3>2
  <2>. QED  BY <1>15, <2>3, <2>4, <2>5, <2>6
<1>17. ASSUME NEW b \in 0 .. m, NEW k \in Word  PROVE k \in f[b] <=> Place(b, k) \in T
  <2>1. k \in Nat /\ k < W  BY <1>2
  <2>2. b \in Nat  BY <1>13
  <2>3. PICK j \in Nat : j = Place(b, k)  BY <2>2, Places
  <2>4. CASE b = m /\ e = 0
    <3>1. n = m * W + 0 /\ j = m * W + k  BY <1>2, <1>8, <2>3, <2>4 DEF Place
    <3>2. j = n + k
      <4>1. PICK M \in Int : M = m * W  BY <1>1, <1>2
      <4>. QED  BY <2>1, <3>1, <4>1
    <3>3. f[b] = A  BY <1>11, <2>4
    <3>. QED  BY <1>16, <2>3, <3>2, <3>3
  <2>5. CASE b = m /\ e # 0
    <3>1. n = (m - 1) * W + e /\ j = m * W + k  BY <1>2, <1>8, <2>3, <2>5 DEF Place
    <3>2. j = n + (k + (W - e))
      <4>1. PICK M \in Int : M = (m - 1) * W  BY <1>1, <1>2
      <4>2. m * W = M + W  BY <1>1, <1>2, <4>1
      <4>3. n = M + e /\ j = M + W + k  BY <3>1, <4>1, <4>2
      <4>. QED  BY <1>2, <1>12, <2>1, <4>1, <4>3
    <3>3. f[b] = Down(A, W - e)  BY <1>11, <2>5
    <3>4. k \in Down(A, W - e) <=> k + (W - e) \in A  BY <1>12, Shifted
    <3>5. CASE k + (W - e) \in Word  BY <1>16, <2>3, <3>2, <3>3, <3>4, <3>5
    <3>6. CASE k + (W - e) \notin Word
      <4>1. j \notin T
        <5>1. k + (W - e) >= W  BY <1>2, <1>12, <2>1, <3>6
        <5>2. j >= q  BY <1>6, <1>12, <2>1, <3>2, <5>1
        <5>. QED  BY <1>16, <5>2
      <4>. QED  BY <2>3, <3>3, <3>4, <3>6, <4>1
    <3>. QED  BY <3>5, <3>6
  <2>6. CASE b = m - 1 /\ e # 0
    <3>1. n = (m - 1) * W + e /\ j = (m - 1) * W + k  BY <1>2, <1>8, <2>3, <2>6 DEF Place
    <3>2. j = n + (k - e)
      <4>1. PICK M \in Int : M = (m - 1) * W  BY <1>1, <1>2
      <4>. QED  BY <1>12, <2>1, <3>1, <4>1
    <3>3. f[b] = x.bits[b] \cup Up(A, e)  BY <1>11, <2>6
    <3>4. k \in Up(A, e) <=> k - e \in A  BY <1>12, Shifted
    <3>5. b \in 0 .. m - 1  BY <1>1, <1>13, <2>6
    <3>6. k \in x.bits[b] <=> j \in S  BY <1>4, <2>3, <3>5
    <3>7. CASE k < e
      <4>1. j < n  BY <1>12, <2>1, <3>2, <3>7
      <4>2. k - e \notin A  BY <1>2, <1>12, <2>1, <3>7
      <4>. QED  BY <1>16, <2>3, <3>3, <3>4, <3>6, <4>1, <4>2
    <3>8. CASE ~(k < e)
      <4>1. k - e \in Word  BY <1>2, <1>12, <2>1, <3>8
      <4>2. j \notin S
        <5>1. ~(j < n)  BY <1>12, <2>1, <3>2, <3>8
        <5>. QED  BY <5>1
      <4>. QED  BY <1>16, <2>3, <3>2, <3>3, <3>4, <3>6, <4>1, <4>2
    <3>. QED  BY <3>7, <3>8
  <2>7. CASE b < m - 1 \/ (b = m - 1 /\ e = 0)
    <3>1. j < n  BY <1>1, <1>5, <2>2, <2>3, <2>7, Sized
    <3>2. f[b] = x.bits[b]  BY <1>11, <2>7
    <3>3. b \in 0 .. m - 1  BY <1>1, <1>13, <2>7
    <3>. QED  BY <1>4, <1>16, <2>3, <3>1, <3>2, <3>3
  <2>. QED  BY <1>13, <2>4, <2>5, <2>6, <2>7
<1>18. [bits |-> f, nums |-> q] = Of(q, T)
  <2>1. m + 1 - 1 = m  BY <1>1
  <2>. QED  BY <1>7, <1>14, <1>16, <1>17, <2>1, Exact
<1>. QED  BY <1>2, <1>3, <1>6, <1>10, <1>15, <1>18


\* Positions are in the order of their blocks, and of the bits of one block.
LEMMA PlaceOrder ==
  ASSUME NEW b \in Nat, NEW c \in Nat, NEW k \in Word, NEW l \in Word
  PROVE  /\ b < c => Place(b, k) < Place(c, l)
         /\ b = c => (Place(b, k) <= Place(c, l) <=> k <= l)
         /\ Place(b, k) \in Nat /\ Place(c, l) \in Nat /\ k \in Nat /\ l \in Nat
<1>1. k \in 0 .. bits_per_block - 1 /\ l \in 0 .. bits_per_block - 1 /\ bits_per_block \in Nat
  BY BlockAssumption DEF Word
<1>2. PICK B \in Nat : B = b * bits_per_block  BY <1>1
<1>3. PICK C \in Nat : C = c * bits_per_block  BY <1>1
<1>4. b < c => B + bits_per_block <= C
  <2>1. SUFFICES ASSUME b < c  PROVE (b + 1) * bits_per_block <= c * bits_per_block
    BY <1>1, <1>2, <1>3
  <2>. QED  BY <1>1, <2>1
<1>5. Place(b, k) = B + k /\ Place(c, l) = C + l  BY <1>2, <1>3 DEF Place
<1>6. b = c => B = C  BY <1>2, <1>3
<1>. QED  BY <1>1, <1>2, <1>3, <1>4, <1>5, <1>6

\* A least element is the minimum.
LEMMA MinIs ==
  ASSUME NEW S \in SUBSET Nat, NEW m \in S, \A j \in S : m <= j
  PROVE  Min(S) = m
<1>. DEFINE x == Min(S)
<1>1. x \in S /\ \A j \in S : x <= j  BY DEF Min
<1>. HIDE DEF x
<1>2. x \in Nat /\ m \in Nat /\ x <= m /\ m <= x  BY <1>1
<1>3. x = m  BY <1>2
<1>. QED  BY <1>3 DEF x

\* find_next() is the next position with a 1, over the end of a block too.
LEMMA FindNextFacts ==
  ASSUME NEW n \in Nat, NEW S \in SUBSET (0 .. n - 1), NEW i \in 0 .. n - 1,
         NEW A, A = {j \in S : j > i}
  PROVE  find_next(Of(n, S), i) = IF A = {} THEN npos ELSE Min(A)
<1>1. PICK m \in Nat : m = bits_to_block(n)  BY Sized
<1>2. PICK x : x = Of(n, S)  OBVIOUS
<1>3. /\ x.nums = n /\ DOMAIN x.bits = 0 .. m - 1
      /\ \A b \in 0 .. m - 1 : x.bits[b] \in SUBSET Word
      /\ \A b \in 0 .. m - 1 : \A k \in Word : k \in x.bits[b] <=> Place(b, k) \in S
  BY <1>1, <1>2, OfIs DEF IsBlocks
<1>4. A \in SUBSET Nat /\ \A j \in A : j \in 0 .. n - 1 /\ j \in S /\ j > i
  <2>1. \A j \in S : j \in 0 .. n - 1 /\ j \in Nat  OBVIOUS
  <2>. QED  BY <2>1
<1>5. CASE i >= n - 1
  <2>1. A = {}
    <3>. SUFFICES ASSUME NEW j \in A  PROVE FALSE
      OBVIOUS
    <3>1. j \in 0 .. n - 1 /\ j > i  BY <1>4
    <3>. QED  BY <1>5, <3>1
  <2>2. find_next(x, i) = npos  BY <1>3, <1>5 DEF find_next
  <2>. QED  BY <1>2, <2>1, <2>2
<1>6. CASE ~(i >= n - 1)
  <2>1. PICK q \in 0 .. n - 1 : q = i + 1  BY <1>6
  <2>2. PICK c \in 0 .. m - 1 : c = block_index(q)  BY <1>1, BlockOf
  <2>3. PICK r \in Word : r = bit_index(q)  BY BlockOf
  <2>4. Place(c, r) = q /\ c \in Nat /\ q \in Nat  BY <1>1, <2>2, <2>3, BlockOf
  <2>5. PICK rest : rest = {k \in x.bits[c] : k >= r}  OBVIOUS
  <2>6. PICK after : after = {b \in 0 .. m - 1 : b > c /\ x.bits[b] # {}}  OBVIOUS
  <2>7. find_next(x, i) = IF rest # {} THEN Place(c, Lowest(rest))
                          ELSE IF after = {} THEN npos
                          ELSE Place(Lowest(after), Lowest(x.bits[Lowest(after)]))
    <3>1. ~(x.nums = 0 \/ i >= x.nums - 1)  BY <1>3, <1>6
    <3>. QED  BY <1>3, <2>1, <2>2, <2>3, <2>5, <2>6, <3>1 DEF find_next, Place
  <2>8. \A k \in Word : k \in Nat  BY BlockAssumption DEF Word
  <2>9. rest \in SUBSET Nat /\ rest \in SUBSET Word /\ after \in SUBSET Nat
    BY <1>1, <1>3, <2>5, <2>6, <2>8
  <2>10. ASSUME NEW j \in A
         PROVE  \E b \in 0 .. m - 1, k \in Word :
                  /\ j = Place(b, k) /\ k \in x.bits[b]
                  /\ (b = c /\ k \in rest) \/ b \in after
    <3>1. j \in 0 .. n - 1 /\ j \in S /\ j > i  BY <1>4
    <3>2. PICK b \in 0 .. m - 1 : b = block_index(j)  BY <1>1, <3>1, BlockOf
    <3>3. PICK k \in Word : k = bit_index(j)  BY <3>1, BlockOf
    <3>4. Place(b, k) = j  BY <3>1, <3>2, <3>3, BlockOf
    <3>5. k \in x.bits[b]  BY <1>3, <3>1, <3>4
    <3>6. q <= j  BY <2>1, <3>1
    <3>7. b \in Nat  BY <1>1
    <3>8. ~(b < c)
      <4>1. SUFFICES ASSUME b < c  PROVE FALSE
        OBVIOUS
      <4>2. j < q /\ j \in Nat  BY <2>4, <3>4, <3>7, <4>1, PlaceOrder
      <4>. QED  BY <2>4, <3>6, <4>2
    <3>9. CASE b = c
      <4>1. r <= k  BY <2>4, <3>4, <3>6, <3>7, <3>9, PlaceOrder
      <4>2. k >= r  BY <2>8, <4>1
      <4>. QED  BY <2>5, <3>4, <3>5, <3>9, <4>2
    <3>10. CASE b # c
      <4>1. b > c  BY <2>4, <3>7, <3>8, <3>10
      <4>. QED  BY <2>6, <3>4, <3>5, <4>1
    <3>. QED  BY <3>9, <3>10
  <2>11. ASSUME NEW b \in 0 .. m - 1, NEW k \in x.bits[b], (b = c /\ k \in rest) \/ b \in after
         PROVE  Place(b, k) \in A
    <3>1. k \in Word /\ Place(b, k) \in S /\ b \in Nat  BY <1>1, <1>3
    <3>2. q <= Place(b, k) /\ Place(b, k) \in Nat
      <4>1. CASE b = c /\ k \in rest
        <5>1. r <= k  BY <2>5, <2>8, <3>1, <4>1
        <5>. QED  BY <2>4, <3>1, <4>1, <5>1, PlaceOrder
      <4>2. CASE b \in after
        <5>1. c < b  BY <2>4, <2>6, <3>1, <4>2
        <5>2. q < Place(b, k) /\ Place(b, k) \in Nat  BY <2>4, <3>1, <5>1, PlaceOrder
        <5>. QED  BY <2>4, <5>2
      <4>. QED  BY <2>11, <4>1, <4>2
    <3>3. Place(b, k) > i  BY <2>1, <3>2
    <3>. QED  BY <3>1, <3>3
  <2>12. CASE rest # {}
    <3>1. PICK l \in rest : l = Lowest(rest) /\ \A k \in rest : l <= k  BY <2>9, <2>12, LowestExists
    <3>2. PICK v : v = Place(c, l)  OBVIOUS
    <3>3. v \in A  BY <2>5, <2>11, <3>2
    <3>4. ASSUME NEW j \in A  PROVE v <= j
      <4>1. PICK b \in 0 .. m - 1, k \in Word :
                /\ j = Place(b, k) /\ k \in x.bits[b]
                /\ (b = c /\ k \in rest) \/ b \in after
        BY <2>10
      <4>2. b \in Nat /\ l \in Word  BY <1>1, <2>9
      <4>3. CASE b = c /\ k \in rest
        <5>1. l <= k  BY <3>1, <4>3
        <5>. QED  BY <2>4, <3>2, <4>1, <4>2, <4>3, <5>1, PlaceOrder
      <4>4. CASE b \in after
        <5>1. c < b  BY <2>4, <2>6, <4>2, <4>4
        <5>2. v < j /\ v \in Nat /\ j \in Nat  BY <2>4, <3>2, <4>1, <4>2, <5>1, PlaceOrder
        <5>. QED  BY <5>2
      <4>. QED  BY <4>1, <4>3, <4>4
    <3>5. Min(A) = v /\ A # {}  BY <1>4, <3>3, <3>4, MinIs
    <3>. QED  BY <1>2, <2>7, <2>12, <3>1, <3>2, <3>5
  <2>13. CASE rest = {} /\ after = {}
    <3>1. A = {}  BY <2>10, <2>13
    <3>. QED  BY <1>2, <2>7, <2>13, <3>1
  <2>14. CASE rest = {} /\ after # {}
    <3>1. PICK d \in after : d = Lowest(after) /\ \A b \in after : d <= b  BY <2>9, <2>14, LowestExists
    <3>2. d \in 0 .. m - 1 /\ d \in Nat /\ x.bits[d] # {} /\ x.bits[d] \in SUBSET Word
      BY <1>3, <2>6, <2>9
    <3>3. x.bits[d] \in SUBSET Nat  BY <2>8, <3>2
    <3>4. PICK l \in x.bits[d] : l = Lowest(x.bits[d]) /\ \A k \in x.bits[d] : l <= k
      BY <3>2, <3>3, LowestExists
    <3>5. PICK v : v = Place(d, l)  OBVIOUS
    <3>6. v \in A  BY <2>11, <3>2, <3>5
    <3>7. ASSUME NEW j \in A  PROVE v <= j
      <4>1. PICK b \in 0 .. m - 1, k \in Word :
                j = Place(b, k) /\ k \in x.bits[b] /\ b \in after
        BY <2>10, <2>14
      <4>2. b \in Nat /\ l \in Word /\ d <= b  BY <1>1, <3>1, <3>2, <4>1
      <4>3. CASE b = d
        <5>1. l <= k  BY <3>4, <4>1, <4>3
        <5>. QED  BY <3>2, <3>5, <4>1, <4>2, <4>3, <5>1, PlaceOrder
      <4>4. CASE b # d
        <5>1. d < b  BY <3>2, <4>2, <4>4
        <5>2. v < j /\ v \in Nat /\ j \in Nat  BY <3>2, <3>5, <4>1, <4>2, <5>1, PlaceOrder
        <5>. QED  BY <5>2
      <4>. QED  BY <4>3, <4>4
    <3>8. Min(A) = v /\ A # {}  BY <1>4, <3>6, <3>7, MinIs
    <3>. QED  BY <1>2, <2>7, <2>14, <3>1, <3>4, <3>5, <3>8
  <2>. QED  BY <2>12, <2>13, <2>14
<1>. QED  BY <1>5, <1>6


\* The positions in the first b blocks, and in block b.
Before(S, b) == {j \in S : block_index(j) < b}
Within(S, b) == {j \in S : block_index(j) = b}

\* The blocks are counted from the first to the last.
LEMMA BeforeEnds ==
  ASSUME NEW n \in Nat, NEW S \in SUBSET (0 .. n - 1)
  PROVE  Before(S, 0) = {} /\ Before(S, bits_to_block(n)) = S
<1>1. ASSUME NEW j \in S
      PROVE  block_index(j) \in Nat /\ block_index(j) < bits_to_block(n)
  <2>1. j \in 0 .. n - 1  OBVIOUS
  <2>2. bits_to_block(n) \in Nat  BY Sized
  <2>3. block_index(j) \in 0 .. bits_to_block(n) - 1  BY <2>1, BlockOf
  <2>. QED  BY <2>2, <2>3
<1>2. Before(S, 0) = {}
  <2>1. \A j \in S : ~(block_index(j) < 0)  BY <1>1
  <2>. QED  BY <2>1 DEF Before
<1>3. Before(S, bits_to_block(n)) = S  BY <1>1 DEF Before
<1>. QED  BY <1>1, <1>2, <1>3

LEMMA BeforeNext ==
  ASSUME NEW S \in SUBSET Nat, IsFiniteSet(S), NEW b \in Nat
  PROVE  IsFiniteSet(Before(S, b)) /\ Before(S, b + 1) = Before(S, b) \cup Within(S, b)
<1>1. ASSUME NEW j \in S
      PROVE  block_index(j) < b + 1 <=> block_index(j) < b \/ block_index(j) = b
  <2>1. block_index(j) \in Nat  BY Places
  <2>. QED  BY <2>1
<1>2. Before(S, b) \in SUBSET S  BY DEF Before
<1>3. IsFiniteSet(Before(S, b))  BY <1>2, FS_Subset
<1>. QED  BY <1>1, <1>3 DEF Before, Within

\* A block has as many 1s as there are positions in it.
LEMMA BlockOnes ==
  ASSUME NEW n \in Nat, NEW S \in SUBSET (0 .. n - 1), NEW b \in 0 .. bits_to_block(n) - 1,
         NEW B, B = Within(S, b)
  PROVE  /\ IsFiniteSet(B) /\ Cardinality(B) = Cardinality(Of(n, S).bits[b])
         /\ Cardinality(B) \in Nat
<1>1. b \in Nat  BY Sized
<1>2. PICK A : A = Of(n, S).bits[b]  OBVIOUS
<1>3. A \in SUBSET Word /\ \A k \in Word : k \in A <=> Place(b, k) \in S
  BY <1>2, OfIs DEF IsBlocks
<1>4. IsFiniteSet(A)
  <2>1. IsFiniteSet(Word)  BY BlockAssumption, FS_Interval DEF Word
  <2>. QED  BY <1>3, <2>1, FS_Subset
<1>5. PICK f : f = [k \in A |-> Place(b, k)]  OBVIOUS
<1>6. ASSUME NEW k \in A  PROVE f[k] \in B /\ bit_index(f[k]) = k
  <2>1. k \in Word /\ f[k] = Place(b, k) /\ Place(b, k) \in S  BY <1>3, <1>5
  <2>. QED  BY <1>1, <2>1, Places DEF Within
<1>7. ASSUME NEW j \in B  PROVE \E k \in A : f[k] = j
  <2>1. j \in 0 .. n - 1 /\ j \in S /\ block_index(j) = b  BY DEF Within
  <2>2. bit_index(j) \in Word /\ Place(b, bit_index(j)) = j  BY <2>1, BlockOf
  <2>3. bit_index(j) \in A  BY <1>3, <2>1, <2>2
  <2>. QED  BY <1>5, <2>2, <2>3
<1>8. f \in [A -> B]  BY <1>5, <1>6
<1>9. \A k, l \in A : f[k] = f[l] => k = l  BY <1>6
<1>10. f \in Bijection(A, B)
  BY <1>7, <1>8, <1>9 DEF Bijection, Injection, Surjection, IsInjective
<1>11. ExistsBijection(A, B)  BY <1>10 DEF ExistsBijection
<1>. QED  BY <1>2, <1>4, <1>11, FS_Bijection, FS_CardinalityType

\* count() adds up the blocks to the number of positions.
LEMMA CountFacts ==
  ASSUME NEW n \in Nat, NEW S \in SUBSET (0 .. n - 1)
  PROVE  count(Of(n, S)) = Cardinality(S)
<1>1. PICK m \in Nat : m = bits_to_block(n)  BY Sized
<1>2. PICK x : x = Of(n, S)  OBVIOUS
<1>3. block(x) = m  BY <1>1, <1>2, OfIs
<1>. DEFINE Rec(g) == g = [b \in 0 .. m |-> IF b = 0 THEN 0 ELSE g[b - 1] + Cardinality(x.bits[b - 1])]
            c == CHOOSE g : Rec(g)
<1>4. count(x) = c[m]  BY <1>3 DEF count
<1>5. PICK e : e = [b \in 0 .. m |-> Cardinality(Before(S, b))]  OBVIOUS
<1>6. e[0] = 0 /\ e[m] = Cardinality(S)
  <2>1. Before(S, 0) = {} /\ Before(S, m) = S  BY <1>1, BeforeEnds
  <2>2. 0 \in 0 .. m /\ m \in 0 .. m  BY <1>1
  <2>3. e[0] = Cardinality({}) /\ e[m] = Cardinality(S)  BY <1>5, <2>1, <2>2
  <2>. QED  BY <2>3, FS_EmptySet
<1>7. ASSUME NEW b \in 0 .. m - 1  PROVE e[b + 1] = e[b] + Cardinality(x.bits[b])
  <2>1. b \in Nat /\ b \in 0 .. m /\ b + 1 \in 0 .. m  BY <1>1
  <2>2. PICK A : A = Before(S, b)  OBVIOUS
  <2>3. PICK B : B = Within(S, b)  OBVIOUS
  <2>4. IsFiniteSet(B) /\ Cardinality(B) = Cardinality(x.bits[b]) /\ Cardinality(B) \in Nat
    BY <1>1, <1>2, <2>3, BlockOnes
  <2>5. IsFiniteSet(A) /\ Before(S, b + 1) = A \cup B
    <3>1. S \in SUBSET Nat  OBVIOUS
    <3>2. IsFiniteSet(S)
      <4>1. IsFiniteSet(0 .. n - 1)  BY FS_Interval
      <4>. QED  BY <4>1, FS_Subset
    <3>. QED  BY <2>1, <2>2, <2>3, <3>1, <3>2, BeforeNext
  <2>6. A \cap B = {}
    <3>1. \A j \in A : j \in S /\ block_index(j) < b  BY <2>2 DEF Before
    <3>2. ~(b < b)  BY <2>1
    <3>. QED  BY <2>3, <3>1, <3>2 DEF Within
  <2>7. Cardinality(A \cup B) = Cardinality(A) + Cardinality(B)
    <3>1. Cardinality(A \cup B) = Cardinality(A) + Cardinality(B) - Cardinality(A \cap B)
      BY <2>4, <2>5, FS_Union
    <3>2. Cardinality(A \cap B) = 0  BY <2>6, FS_EmptySet
    <3>3. Cardinality(A) \in Nat  BY <2>5, FS_CardinalityType
    <3>. QED  BY <2>4, <3>1, <3>2, <3>3
  <2>8. e[b] = Cardinality(A) /\ e[b + 1] = Cardinality(A \cup B)  BY <1>5, <2>1, <2>2, <2>5
  <2>. QED  BY <2>4, <2>7, <2>8
<1>8. Rec(e)
  <2>1. ASSUME NEW b \in 0 .. m
        PROVE  e[b] = IF b = 0 THEN 0 ELSE e[b - 1] + Cardinality(x.bits[b - 1])
    <3>1. CASE b = 0  BY <1>6, <3>1
    <3>2. CASE b # 0
      <4>1. b - 1 \in 0 .. m - 1 /\ b - 1 + 1 = b  BY <1>1, <3>2
      <4>. QED  BY <1>7, <3>2, <4>1
    <3>. QED  BY <3>1, <3>2
  <2>2. e = [b \in 0 .. m |-> e[b]]  BY <1>5
  <2>. QED  BY <2>1, <2>2
<1>9. Rec(c)  BY <1>8
<1>10. \A b \in 0 .. m : c[b] = IF b = 0 THEN 0 ELSE c[b - 1] + Cardinality(x.bits[b - 1])
  <2>. HIDE DEF c
  <2>. QED  BY <1>9
<1>. HIDE DEF c, Rec
<1>11. \A b \in 0 .. m : c[b] = e[b]
  <2>1. PICK D : D = {b \in 0 .. m : c[b] # e[b]}  OBVIOUS
  <2>2. SUFFICES ASSUME D # {}  PROVE FALSE
    BY <2>1
  <2>3. D \in SUBSET Nat  BY <2>1
  <2>4. PICK d \in D : \A b \in D : d <= b  BY <2>2, <2>3, LowestExists
  <2>5. d \in 0 .. m /\ c[d] # e[d]  BY <2>1
  <2>6. d # 0  BY <1>6, <1>10, <2>5
  <2>7. d - 1 \in 0 .. m - 1 /\ d - 1 \in 0 .. m /\ ~(d <= d - 1) /\ d - 1 + 1 = d  BY <1>1, <2>5, <2>6
  <2>8. c[d - 1] = e[d - 1]  BY <2>1, <2>4, <2>7
  <2>9. e[d] = e[d - 1] + Cardinality(x.bits[d - 1])  BY <1>7, <2>7
  <2>. QED  BY <1>10, <2>5, <2>6, <2>8, <2>9
<1>12. m \in 0 .. m  BY <1>1
<1>. QED  BY <1>2, <1>4, <1>6, <1>11, <1>12


\* The block that each of the operations on two bitsets makes of two blocks.
Pairs(op, A, B) ==
  CASE op = "and" -> A \cap B
    [] op = "or" -> A \cup B
    [] op = "xor" -> (A \ B) \cup (B \ A)
    [] op = "minus" -> A \ B

Operation(op, x, y) ==
  CASE op = "and" -> and(x, y)
    [] op = "or" -> or(x, y)
    [] op = "xor" -> xor(x, y)
    [] op = "minus" -> minus(x, y)

Paired == {"and", "or", "xor", "minus"}

\* &=, |=, ^= and -= work block by block if the sizes are the same.
LEMMA OperationDef ==
  ASSUME NEW op \in Paired, NEW f, NEW g, DOMAIN f = DOMAIN g, NEW n
  PROVE  Operation(op, [bits |-> f, nums |-> n], [bits |-> g, nums |-> n]) =
           [bits |-> [b \in DOMAIN f |-> Pairs(op, f[b], g[b])], nums |-> n]
<1>1. PICK x : x = [bits |-> f, nums |-> n]  OBVIOUS
<1>2. PICK y : y = [bits |-> g, nums |-> n]  OBVIOUS
<1>3. x.bits = f /\ y.bits = g  BY <1>1, <1>2
<1>4. Both(x, y) = DOMAIN f  BY <1>3 DEF Both
<1>5. \A h : [x EXCEPT !.bits = h] = [bits |-> h, nums |-> n]  BY <1>1
<1>6. PICK h : h = [b \in DOMAIN f |-> Pairs(op, f[b], g[b])]  OBVIOUS
<1>7. Operation(op, x, y) = [x EXCEPT !.bits = h]
  <2>1. CASE op = "and"
    <3>1. Operation(op, x, y) = and(x, y) /\ h = [b \in DOMAIN f |-> f[b] \cap g[b]]
      BY <1>6, <2>1 DEF Operation, Pairs
    <3>. QED  BY <1>3, <1>4, <3>1 DEF and, Combine
  <2>2. CASE op = "or"
    <3>1. Operation(op, x, y) = or(x, y) /\ h = [b \in DOMAIN f |-> f[b] \cup g[b]]
      BY <1>6, <2>2 DEF Operation, Pairs
    <3>. QED  BY <1>3, <1>4, <3>1 DEF or, Combine
  <2>3. CASE op = "xor"
    <3>1. Operation(op, x, y) = xor(x, y) /\ h = [b \in DOMAIN f |-> (f[b] \ g[b]) \cup (g[b] \ f[b])]
      BY <1>6, <2>3 DEF Operation, Pairs
    <3>. QED  BY <1>3, <1>4, <3>1 DEF xor, Combine
  <2>4. CASE op = "minus"
    <3>1. Operation(op, x, y) = minus(x, y) /\ h = [b \in DOMAIN f |-> f[b] \ g[b]]
      BY <1>6, <2>4 DEF Operation, Pairs
    <3>. QED  BY <1>3, <1>4, <3>1 DEF minus, Combine
  <2>. QED  BY <2>1, <2>2, <2>3, <2>4 DEF Paired
<1>. QED  BY <1>1, <1>2, <1>5, <1>6, <1>7

\* The operations on two bitsets of one size combine their positions.
LEMMA PairFacts ==
  ASSUME NEW n \in Nat, NEW S \in SUBSET (0 .. n - 1), NEW T \in SUBSET (0 .. n - 1),
         NEW op \in Paired
  PROVE  /\ Operation(op, Of(n, S), Of(n, T)) = Of(n, Pairs(op, S, T))
         /\ Pairs(op, S, T) \in SUBSET (0 .. n - 1)
<1>1. PICK m \in Nat : m = bits_to_block(n)  BY Sized
<1>2. PICK f : Of(n, S) = [bits |-> f, nums |-> n]  BY DEF Of
<1>3. PICK g : Of(n, T) = [bits |-> g, nums |-> n]  BY DEF Of
<1>4. Of(n, S).bits = f /\ Of(n, T).bits = g  BY <1>2, <1>3
<1>5. /\ f \in [0 .. m - 1 -> SUBSET Word] /\ g \in [0 .. m - 1 -> SUBSET Word]
      /\ \A b \in 0 .. m - 1 : \A k \in Word : k \in f[b] <=> Place(b, k) \in S
      /\ \A b \in 0 .. m - 1 : \A k \in Word : k \in g[b] <=> Place(b, k) \in T
  BY <1>1, <1>4, OfIs DEF IsBlocks
<1>6. PICK h : h = [b \in 0 .. m - 1 |-> Pairs(op, f[b], g[b])]  OBVIOUS
<1>7. Operation(op, Of(n, S), Of(n, T)) = [bits |-> h, nums |-> n]
  <2>1. DOMAIN f = 0 .. m - 1 /\ DOMAIN g = 0 .. m - 1  BY <1>5
  <2>. QED  BY <1>2, <1>3, <1>6, <2>1, OperationDef
<1>8. PICK U : U = Pairs(op, S, T)  OBVIOUS
<1>9. ASSUME NEW A, NEW B, NEW V, A \in SUBSET V, B \in SUBSET V
      PROVE  Pairs(op, A, B) \in SUBSET V
  <2>1. op = "and" \/ op = "or" \/ op = "xor" \/ op = "minus"  BY DEF Paired
  <2>2. CASE op = "and"  BY <1>9, <2>2 DEF Pairs
  <2>3. CASE op = "or"  BY <1>9, <2>3 DEF Pairs
  <2>4. CASE op = "xor"  BY <1>9, <2>4 DEF Pairs
  <2>5. CASE op = "minus"  BY <1>9, <2>5 DEF Pairs
  <2>. QED  BY <2>1, <2>2, <2>3, <2>4, <2>5
<1>10. ASSUME NEW A, NEW B, NEW C, NEW D, NEW i, NEW j, i \in A <=> j \in C, i \in B <=> j \in D
       PROVE  i \in Pairs(op, A, B) <=> j \in Pairs(op, C, D)
  <2>1. op = "and" \/ op = "or" \/ op = "xor" \/ op = "minus"  BY DEF Paired
  <2>2. CASE op = "and"  BY <1>10, <2>2 DEF Pairs
  <2>3. CASE op = "or"  BY <1>10, <2>3 DEF Pairs
  <2>4. CASE op = "xor"  BY <1>10, <2>4 DEF Pairs
  <2>5. CASE op = "minus"  BY <1>10, <2>5 DEF Pairs
  <2>. QED  BY <2>1, <2>2, <2>3, <2>4, <2>5
<1>11. U \in SUBSET (0 .. n - 1)  BY <1>8, <1>9
<1>12. IsBlocks(h, n)
  <2>1. ASSUME NEW b \in 0 .. m - 1  PROVE h[b] \in SUBSET Word
    <3>1. h[b] = Pairs(op, f[b], g[b]) /\ f[b] \in SUBSET Word /\ g[b] \in SUBSET Word  BY <1>5, <1>6
    <3>. QED  BY <1>9, <3>1
  <2>. QED  BY <1>1, <1>6, <2>1 DEF IsBlocks
<1>13. ASSUME NEW b \in 0 .. m - 1, NEW k \in Word  PROVE k \in h[b] <=> Place(b, k) \in U
  <2>1. h[b] = Pairs(op, f[b], g[b])  BY <1>6
  <2>2. (k \in f[b] <=> Place(b, k) \in S) /\ (k \in g[b] <=> Place(b, k) \in T)  BY <1>5
  <2>. QED  BY <1>8, <1>10, <2>1, <2>2
<1>14. [bits |-> h, nums |-> n] = Of(n, U)  BY <1>1, <1>11, <1>12, <1>13, Exact
<1>. QED  BY <1>7, <1>8, <1>11, <1>14


\* A block that is not 0 has a highest 1.
LEMMA MaxOfWord ==
  ASSUME NEW S \in SUBSET Word, S # {}
  PROVE  Max(S) \in S
<1>1. PICK W \in Nat : Word = 0 .. W - 1  BY BlockAssumption DEF Word
<1>2. PICK R : R = {W - i : i \in S}  OBVIOUS
<1>3. \A i \in S : i \in Nat /\ W - i \in Nat  BY <1>1
<1>4. R \in SUBSET Nat /\ R # {}  BY <1>2, <1>3
<1>5. PICK l \in R : \A j \in R : l <= j  BY <1>4, LowestExists
<1>6. PICK m \in S : l = W - m  BY <1>2, <1>5
<1>7. ASSUME NEW j \in S  PROVE m >= j
  <2>1. W - m <= W - j  BY <1>2, <1>5, <1>6
  <2>. QED  BY <1>1, <1>3, <2>1
<1>. QED  BY <1>7 DEF Max

\* Of two different words one is less than the other, and not both.
LEMMA WordOrder ==
  ASSUME NEW A \in SUBSET Word, NEW B \in SUBSET Word
  PROVE  /\ A = B => ~WordLess(A, B)
         /\ A # B => (WordLess(A, B) <=> ~WordLess(B, A))
<1>1. PICK D : D = (A \ B) \cup (B \ A)  OBVIOUS
<1>2. D = (B \ A) \cup (A \ B) /\ D \in SUBSET Word  BY <1>1
<1>3. ASSUME A # B  PROVE WordLess(A, B) <=> ~WordLess(B, A)
  <2>1. D # {}  BY <1>1, <1>3
  <2>2. Max(D) \in D  BY <1>2, <2>1, MaxOfWord
  <2>3. (WordLess(A, B) <=> Max(D) \in B) /\ (WordLess(B, A) <=> Max(D) \in A)
    BY <1>1, <1>2, <1>3 DEF WordLess
  <2>. QED  BY <1>1, <2>2, <2>3
<1>. QED  BY <1>3 DEF WordLess

\* The first block that two bitsets differ in decides, if there is one.
LEMMA Decides ==
  ASSUME NEW x, NEW y, NEW p \in Nat, Both(x, y) = 0 .. p - 1, NEW d \in 0 .. p - 1,
         x.bits[d] \in SUBSET Word, y.bits[d] \in SUBSET Word,
         x.bits[d] # y.bits[d], \A c \in 0 .. p - 1 : c < d => x.bits[c] = y.bits[c]
  PROVE  less(x, y) <=> WordLess(x.bits[d], y.bits[d])
<1>1. ASSUME WordLess(x.bits[d], y.bits[d])  PROVE less(x, y)
  BY <1>1 DEF less
<1>2. ASSUME less(x, y)  PROVE WordLess(x.bits[d], y.bits[d])
  <2>1. PICK b \in 0 .. p - 1 : /\ WordLess(x.bits[b], y.bits[b])
                                /\ \A c \in 0 .. p - 1 : c < b => x.bits[c] = y.bits[c]
    BY <1>2 DEF less
  <2>2. x.bits[b] # y.bits[b]  BY <2>1 DEF WordLess
  <2>3. ~(b < d) /\ ~(d < b)  BY <2>1, <2>2
  <2>4. b = d  BY <2>3
  <2>. QED  BY <2>1, <2>4
<1>. QED  BY <1>1, <1>2

\* operator< and operator== are one total order.
LEMMA Order ==
  ASSUME NEW n \in Nat, NEW S \in SUBSET (0 .. n - 1), NEW x, x = Of(n, S),
         NEW q \in Nat, NEW T \in SUBSET (0 .. q - 1), NEW y, y = Of(q, T)
  PROVE  /\ less(x, y) \/ less(y, x) \/ x = y
         /\ ~(less(x, y) /\ less(y, x)) /\ ~(less(x, y) /\ x = y) /\ ~(less(y, x) /\ x = y)
<1>1. PICK m \in Nat : m = bits_to_block(n)  BY Sized
<1>2. PICK k \in Nat : k = bits_to_block(q)  BY Sized
<1>3. /\ x.nums = n /\ DOMAIN x.bits = 0 .. m - 1
      /\ \A b \in 0 .. m - 1 : x.bits[b] \in SUBSET Word
  <2>1. /\ x.nums = n /\ DOMAIN x.bits = 0 .. bits_to_block(n) - 1 /\ IsBlocks(x.bits, n)
    BY OfIs
  <2>. QED  BY <1>1, <2>1 DEF IsBlocks
<1>4. /\ y.nums = q /\ DOMAIN y.bits = 0 .. k - 1
      /\ \A b \in 0 .. k - 1 : y.bits[b] \in SUBSET Word
  <2>1. /\ y.nums = q /\ DOMAIN y.bits = 0 .. bits_to_block(q) - 1 /\ IsBlocks(y.bits, q)
    BY OfIs
  <2>. QED  BY <1>2, <2>1 DEF IsBlocks
<1>5. PICK p \in Nat : /\ p = IF m < k THEN m ELSE k
                       /\ 0 .. p - 1 = (0 .. m - 1) \cap (0 .. k - 1)
  BY <1>1, <1>2
<1>6. Both(x, y) = 0 .. p - 1 /\ Both(y, x) = 0 .. p - 1  BY <1>3, <1>4, <1>5 DEF Both
<1>7. \A b \in 0 .. p - 1 : x.bits[b] \in SUBSET Word /\ y.bits[b] \in SUBSET Word
  BY <1>3, <1>4, <1>5
<1>8. CASE \A b \in 0 .. p - 1 : x.bits[b] = y.bits[b]
  <2>1. ASSUME NEW b \in 0 .. p - 1
        PROVE  ~WordLess(x.bits[b], y.bits[b]) /\ ~WordLess(y.bits[b], x.bits[b])
    BY <1>8 DEF WordLess
  <2>2. less(x, y) <=> n < q  BY <1>3, <1>4, <1>6, <1>8, <2>1 DEF less
  <2>3. less(y, x) <=> q < n  BY <1>3, <1>4, <1>6, <1>8, <2>1 DEF less
  <2>4. x = y <=> n = q
    <3>1. ASSUME n = q  PROVE x = y
      <4>1. m = k /\ p = m  BY <1>1, <1>2, <1>5, <3>1
      <4>2. PICK f : x = [bits |-> f, nums |-> n]  BY DEF Of
      <4>3. PICK g : y = [bits |-> g, nums |-> q]  BY DEF Of
      <4>4. x.bits = f /\ y.bits = g  BY <4>2, <4>3
      <4>5. f \in [0 .. m - 1 -> SUBSET Word] /\ g \in [0 .. m - 1 -> SUBSET Word]
        BY <1>1, <1>2, <4>1, <4>4, OfIs DEF IsBlocks
      <4>6. f = g  BY <1>8, <4>1, <4>4, <4>5
      <4>. QED  BY <3>1, <4>2, <4>3, <4>6
    <3>. QED  BY <1>3, <1>4, <3>1
  <2>5. (n < q \/ q < n \/ n = q) /\ ~(n < q /\ q < n) /\ ~(n < q /\ n = q) /\ ~(q < n /\ n = q)
    OBVIOUS
  <2>. QED  BY <2>2, <2>3, <2>4, <2>5
<1>9. CASE \E b \in 0 .. p - 1 : x.bits[b] # y.bits[b]
  <2>1. PICK D : D = {b \in 0 .. p - 1 : x.bits[b] # y.bits[b]}  OBVIOUS
  <2>2. D \in SUBSET Nat /\ D # {}  BY <1>5, <1>9, <2>1
  <2>3. PICK d \in D : \A b \in D : d <= b  BY <2>2, LowestExists
  <2>4. d \in 0 .. p - 1 /\ x.bits[d] # y.bits[d] /\ y.bits[d] # x.bits[d]  BY <2>1
  <2>5. ASSUME NEW c \in 0 .. p - 1, c < d  PROVE x.bits[c] = y.bits[c]
    <3>1. ~(d <= c)  BY <1>5, <2>4, <2>5
    <3>. QED  BY <2>1, <2>3, <3>1
  <2>6. x.bits[d] \in SUBSET Word /\ y.bits[d] \in SUBSET Word  BY <1>7, <2>4
  <2>7. less(x, y) <=> WordLess(x.bits[d], y.bits[d])  BY <1>5, <1>6, <2>4, <2>5, <2>6, Decides
  <2>8. less(y, x) <=> WordLess(y.bits[d], x.bits[d])
    <3>1. \A c \in 0 .. p - 1 : c < d => y.bits[c] = x.bits[c]  BY <2>5
    <3>. QED  BY <1>5, <1>6, <2>4, <2>6, <3>1, Decides
  <2>9. WordLess(x.bits[d], y.bits[d]) <=> ~WordLess(y.bits[d], x.bits[d])  BY <2>4, <2>6, WordOrder
  <2>10. x # y  BY <2>4
  <2>. QED  BY <2>7, <2>8, <2>9, <2>10
<1>. QED  BY <1>8, <1>9

\* One of three, counted.
LEMMA OneOf ==
  ASSUME NEW P \in BOOLEAN, NEW Q \in BOOLEAN, NEW R \in BOOLEAN,
         P \/ Q \/ R, ~(P /\ Q), ~(P /\ R), ~(Q /\ R)
  PROVE  Cardinality({c \in {<<1, P>>, <<2, Q>>, <<3, R>>} : c[2]}) = 1
<1>1. PICK a, b, d : a = <<1, P>> /\ b = <<2, Q>> /\ d = <<3, R>>  OBVIOUS
<1>2. <<1, P>>[2] = P /\ <<2, Q>>[2] = Q /\ <<3, R>>[2] = R  OBVIOUS
<1>3. (a[2] <=> P) /\ (b[2] <=> Q) /\ (d[2] <=> R)  BY <1>1, <1>2, Zenon
<1>4. PICK A : A = {c \in {a, b, d} : c[2]}  OBVIOUS
<1>5. A = {a} \/ A = {b} \/ A = {d}  BY <1>3, <1>4
<1>6. Cardinality(A) = 1  BY <1>5, FS_Singleton
<1>. QED  BY <1>1, <1>4, <1>6


\* The part of OfIs that BitsetOperations asks of a result.
LEMMA IsOf ==
  ASSUME NEW n \in Nat, NEW S \in SUBSET (0 .. n - 1)
  PROVE  Is(Of(n, S), n, S)
BY OfIs

\* Every bitmap the pool gets into, cut or extended, has its unused bits 0, even
\* though the one the constructor fills has not.
LEMMA BitmapOf ==
  ASSUME TypeOK, NEW x \in Bitmaps
  PROVE  \E n \in Nat : \E S \in SUBSET (0 .. n - 1) : x = Of(n, S)
<1>1. Sizes \in SUBSET Nat  BY BlockAssumption, CountAssumption DEF Sizes
<1>2. PICK n \in Sizes, v \in BOOLEAN : x = resize([bits |-> bits_, nums |-> count_], n, v)
  BY DEF Bitmaps
<1>3. IsBlocks(bits_, count_)  BY DEF TypeOK, IsBlocks, Blocks
<1>. QED  BY <1>1, <1>2, <1>3, CountAssumption, ResizeShape

\* A bitset whose unused bits are 0 is the canonical one of its positions.
LEMMA BitsetOf ==
  ASSUME NEW y \in Bitsets
  PROVE  \E n \in Nat : \E S \in SUBSET (0 .. n - 1) : y = Of(n, S)
<1>1. Sizes \in SUBSET Nat  BY BlockAssumption, CountAssumption DEF Sizes
<1>2. PICK n \in Sizes : y \in [bits : [0 .. bits_to_block(n) - 1 -> SUBSET Word], nums : {n}] /\ Clean(y)
  BY DEF Bitsets
<1>3. PICK f : f = y.bits  OBVIOUS
<1>4. y = [bits |-> f, nums |-> n] /\ f \in [0 .. bits_to_block(n) - 1 -> SUBSET Word] /\ y.nums = n
  BY <1>2, <1>3
<1>5. IsBlocks(f, n)  BY <1>4 DEF IsBlocks
<1>6. \A b \in 0 .. bits_to_block(n) - 1 : \A k \in f[b] : Place(b, k) < n
  BY <1>2, <1>3, <1>4 DEF Clean, Place
<1>7. y = Of(n, Read(f, n))  BY <1>1, <1>4, <1>5, <1>6, Canonical
<1>8. Read(f, n) \in SUBSET (0 .. n - 1)  BY DEF Read
<1>. QED  BY <1>1, <1>7, <1>8

\* All operations on one bitset.
LEMMA Operations ==
  ASSUME TypeOK
  PROVE  BitsetOperations
<1>. SUFFICES ASSUME NEW x \in Bitmaps
     PROVE  LET n == x.nums
                S == Ones(x)
            IN  /\ Clean(x)
                /\ Is(flip(x), n, (0 .. n - 1) \ S) /\ Is(set_all(x), n, 0 .. n - 1)
                /\ \A d \in Sizes :
                     /\ Is(shl(x, d), n, {i + d : i \in S} \cap 0 .. n - 1)
                     /\ bit_index(d) = 0 \/ block_index(d) = last(x) =>
                          \A past \in SUBSET Word :
                            Is(shr(x, d, past), n, {i - d : i \in S} \cap 0 .. n - 1)
                /\ \A m \in Sizes, v \in BOOLEAN :
                     Is(resize(x, m, v), m, (S \cap 0 .. m - 1) \cup IF v THEN n .. m - 1 ELSE {})
                /\ \A v \in BOOLEAN : Is(push_back(x, v), n + 1, S \cup IF v THEN {n} ELSE {})
                /\ \A T \in SUBSET Word :
                     Is(append(x, T), n + bits_per_block, S \cup {n + k : k \in T})
                /\ \A i \in 0 .. n - 1 :
                     /\ Is(flip_bit(x, i), n, IF i \in S THEN S \ {i} ELSE S \cup {i})
                     /\ LET after == {j \in S : j > i}
                        IN  find_next(x, i) = IF after = {} THEN npos ELSE Min(after)
                /\ count(x) = Cardinality(S)
  BY DEF BitsetOperations
<1>1. PICK n \in Nat : \E S \in SUBSET (0 .. n - 1) : x = Of(n, S)  BY BitmapOf
<1>2. PICK S \in SUBSET (0 .. n - 1) : x = Of(n, S)  BY <1>1
<1>3. x.nums = n /\ Ones(x) = S /\ Clean(x)  BY <1>2, OfIs
<1>4. Sizes \in SUBSET Nat  BY BlockAssumption, CountAssumption DEF Sizes
<1>5. Is(flip(x), n, (0 .. n - 1) \ S) /\ Is(set_all(x), n, 0 .. n - 1)
  <2>1. (0 .. n - 1) \ S \in SUBSET (0 .. n - 1) /\ 0 .. n - 1 \in SUBSET (0 .. n - 1)  OBVIOUS
  <2>2. flip(x) = Of(n, (0 .. n - 1) \ S) /\ set_all(x) = Of(n, 0 .. n - 1)  BY <1>2, FillFacts
  <2>. QED  BY <2>1, <2>2, IsOf
<1>6. ASSUME NEW d \in Sizes
      PROVE  /\ Is(shl(x, d), n, {i + d : i \in S} \cap 0 .. n - 1)
             /\ bit_index(d) = 0 \/ block_index(d) = last(x) =>
                  \A past \in SUBSET Word :
                    Is(shr(x, d, past), n, {i - d : i \in S} \cap 0 .. n - 1)
  <2>1. PICK A : A = {i + d : i \in S} \cap 0 .. n - 1  OBVIOUS
  <2>2. PICK B : B = {i - d : i \in S} \cap 0 .. n - 1  OBVIOUS
  <2>3. A \in SUBSET (0 .. n - 1) /\ B \in SUBSET (0 .. n - 1)  BY <2>1, <2>2
  <2>4. d \in Nat  BY <1>4
  <2>5. Is(shl(x, d), n, A)
    <3>1. shl(x, d) = Of(n, A)  BY <1>2, <2>1, <2>4, ShlFacts
    <3>. QED  BY <2>3, <3>1, IsOf
  <2>6. ASSUME bit_index(d) = 0 \/ block_index(d) = last(x), NEW past \in SUBSET Word
        PROVE  Is(shr(x, d, past), n, B)
    <3>1. shr(x, d, past) = Of(n, B)  BY <1>2, <2>2, <2>4, <2>6, ShrFacts
    <3>. QED  BY <2>3, <3>1, IsOf
  <2>. QED  BY <2>1, <2>2, <2>5, <2>6
<1>7. ASSUME NEW m \in Sizes, NEW v \in BOOLEAN
      PROVE  Is(resize(x, m, v), m, (S \cap 0 .. m - 1) \cup IF v THEN n .. m - 1 ELSE {})
  <2>1. PICK A : A = (S \cap 0 .. m - 1) \cup IF v THEN n .. m - 1 ELSE {}  OBVIOUS
  <2>2. m \in Nat /\ A \in SUBSET (0 .. m - 1)
    <3>1. m \in Nat /\ n .. m - 1 \subseteq 0 .. m - 1  BY <1>4
    <3>. QED  BY <2>1, <3>1
  <2>3. resize(x, m, v) = Of(m, A)  BY <1>2, <2>1, <2>2, ResizeFacts
  <2>. QED  BY <2>1, <2>2, <2>3, IsOf
<1>8. ASSUME NEW v \in BOOLEAN
      PROVE  Is(push_back(x, v), n + 1, S \cup IF v THEN {n} ELSE {})
  <2>1. PICK A : A = S \cup IF v THEN {n} ELSE {}  OBVIOUS
  <2>2. n + 1 \in Nat /\ A \in SUBSET (0 .. n + 1 - 1)
    <3>1. n + 1 \in Nat /\ 0 .. n - 1 \subseteq 0 .. n + 1 - 1 /\ n \in 0 .. n + 1 - 1  OBVIOUS
    <3>. QED  BY <2>1, <3>1
  <2>3. push_back(x, v) = Of(n + 1, A)  BY <1>2, <2>1, PushFacts
  <2>. QED  BY <2>1, <2>2, <2>3, IsOf
<1>9. ASSUME NEW T \in SUBSET Word
      PROVE  Is(append(x, T), n + bits_per_block, S \cup {n + k : k \in T})
  <2>1. PICK A : A = S \cup {n + k : k \in T}  OBVIOUS
  <2>2. PICK q \in Nat : q = n + bits_per_block  BY BlockAssumption
  <2>3. A \in SUBSET (0 .. q - 1)
    <3>1. bits_per_block \in Nat /\ \A k \in Word : k \in 0 .. bits_per_block - 1
      BY BlockAssumption DEF Word
    <3>2. ASSUME NEW k \in T  PROVE n + k \in 0 .. q - 1  BY <2>2, <3>1
    <3>3. 0 .. n - 1 \subseteq 0 .. q - 1  BY <2>2, <3>1
    <3>. QED  BY <2>1, <3>2, <3>3
  <2>4. append(x, T) = Of(q, A)  BY <1>2, <2>1, <2>2, AppendFacts
  <2>. QED  BY <2>1, <2>2, <2>3, <2>4, IsOf
<1>10. ASSUME NEW i \in 0 .. n - 1
       PROVE  /\ Is(flip_bit(x, i), n, IF i \in S THEN S \ {i} ELSE S \cup {i})
              /\ find_next(x, i) = IF {j \in S : j > i} = {} THEN npos ELSE Min({j \in S : j > i})
  <2>1. PICK A : A = IF i \in S THEN S \ {i} ELSE S \cup {i}  OBVIOUS
  <2>2. A \in SUBSET (0 .. n - 1)  BY <2>1
  <2>3. flip_bit(x, i) = Of(n, A)
    <3>1. flip_bit(Of(n, S), i) = Of(n, IF i \in S THEN S \ {i} ELSE S \cup {i})  BY FlipBitFacts
    <3>. QED  BY <1>2, <2>1, <3>1
  <2>4. Is(flip_bit(x, i), n, A)  BY <2>2, <2>3, IsOf
  <2>5. PICK B : B = {j \in S : j > i}  OBVIOUS
  <2>6. find_next(x, i) = IF B = {} THEN npos ELSE Min(B)  BY <1>2, <2>5, FindNextFacts
  <2>. QED  BY <2>1, <2>4, <2>5, <2>6
<1>11. count(x) = Cardinality(S)  BY <1>2, CountFacts
<1>. QED  BY <1>3, <1>5, <1>6, <1>7, <1>8, <1>9, <1>10, <1>11

\* All operations on two bitsets.
LEMMA PairsOrdered ==
  ASSUME TypeOK
  PROVE  BitsetPairs
<1>. SUFFICES ASSUME NEW x \in Bitmaps, NEW y \in Bitsets
     PROVE  LET S == Ones(x)
                T == Ones(y)
                n == x.nums
            IN  /\ y.nums = n =>
                     /\ Is(and(x, y), n, S \cap T) /\ Is(or(x, y), n, S \cup T)
                     /\ Is(xor(x, y), n, (S \ T) \cup (T \ S)) /\ Is(minus(x, y), n, S \ T)
                /\ Cardinality({c \in {<<1, less(x, y)>>, <<2, less(y, x)>>, <<3, x = y>>} : c[2]}) = 1
  BY DEF BitsetPairs
<1>1. PICK n \in Nat : \E S \in SUBSET (0 .. n - 1) : x = Of(n, S)  BY BitmapOf
<1>2. PICK S \in SUBSET (0 .. n - 1) : x = Of(n, S)  BY <1>1
<1>3. PICK q \in Nat : \E S1 \in SUBSET (0 .. q - 1) : y = Of(q, S1)  BY BitsetOf
<1>4. PICK T \in SUBSET (0 .. q - 1) : y = Of(q, T)  BY <1>3
<1>5. x.nums = n /\ Ones(x) = S  BY <1>2, OfIs
<1>6. y.nums = q /\ Ones(y) = T  BY <1>4, OfIs
<1>7. ASSUME n = q
      PROVE  /\ Is(and(x, y), n, S \cap T) /\ Is(or(x, y), n, S \cup T)
             /\ Is(xor(x, y), n, (S \ T) \cup (T \ S)) /\ Is(minus(x, y), n, S \ T)
  <2>1. ASSUME NEW op \in Paired  PROVE Is(Operation(op, x, y), n, Pairs(op, S, T))
    <3>1. /\ Operation(op, x, y) = Of(n, Pairs(op, S, T))
          /\ Pairs(op, S, T) \in SUBSET (0 .. n - 1)
      BY <1>2, <1>4, <1>7, PairFacts
    <3>. QED  BY <3>1, IsOf
  <2>2. Is(and(x, y), n, S \cap T)
    <3>1. Operation("and", x, y) = and(x, y) /\ Pairs("and", S, T) = S \cap T
      BY DEF Operation, Pairs
    <3>. QED  BY <2>1, <3>1 DEF Paired
  <2>3. Is(or(x, y), n, S \cup T)
    <3>1. Operation("or", x, y) = or(x, y) /\ Pairs("or", S, T) = S \cup T
      BY DEF Operation, Pairs
    <3>. QED  BY <2>1, <3>1 DEF Paired
  <2>4. Is(xor(x, y), n, (S \ T) \cup (T \ S))
    <3>1. Operation("xor", x, y) = xor(x, y) /\ Pairs("xor", S, T) = (S \ T) \cup (T \ S)
      BY DEF Operation, Pairs
    <3>. QED  BY <2>1, <3>1 DEF Paired
  <2>5. Is(minus(x, y), n, S \ T)
    <3>1. Operation("minus", x, y) = minus(x, y) /\ Pairs("minus", S, T) = S \ T
      BY DEF Operation, Pairs
    <3>. QED  BY <2>1, <3>1 DEF Paired
  <2>. QED  BY <2>2, <2>3, <2>4, <2>5
<1>8. Cardinality({c \in {<<1, less(x, y)>>, <<2, less(y, x)>>, <<3, x = y>>} : c[2]}) = 1
  <2>1. PICK P \in BOOLEAN : P = less(x, y)  BY DEF less
  <2>2. PICK Q \in BOOLEAN : Q = less(y, x)  BY DEF less
  <2>3. PICK R \in BOOLEAN : R = (x = y)  OBVIOUS
  <2>4. (P \/ Q \/ R) /\ ~(P /\ Q) /\ ~(P /\ R) /\ ~(Q /\ R)
    <3>1. /\ less(x, y) \/ less(y, x) \/ x = y
          /\ ~(less(x, y) /\ less(y, x)) /\ ~(less(x, y) /\ x = y) /\ ~(less(y, x) /\ x = y)
      BY <1>2, <1>4, Order
    <3>. QED  BY <2>1, <2>2, <2>3, <3>1
  <2>5. Cardinality({c \in {<<1, P>>, <<2, Q>>, <<3, R>>} : c[2]}) = 1  BY <2>4, OneOf
  <2>. QED  BY <2>1, <2>2, <2>3, <2>5
<1>. QED  BY <1>5, <1>6, <1>7, <1>8

\* Every operation of bitset on one bitset computes what it should on its
\* positions and keeps the unused bits 0, for every block width, size and shift
\* (>>= by whole blocks or down to one block only).
THEOREM BitsetComputes == Spec => []BitsetOperations
BY Operations, PoolTypes, PTL

\* Bitsets of one size combine as sets, and operator< and operator== make one
\* total order of bitsets of any sizes.
THEOREM BitsetOrder == Spec => []BitsetPairs
BY PairsOrdered, PoolTypes, PTL
=============================================================================
