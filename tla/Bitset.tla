------------------------------- MODULE Bitset -------------------------------
(***************************************************************************)
(* The operations of bitset (bitset.cpp) that the pool does not use, as    *)
(* operators on a bitset: its blocks, each the set of the positions of its *)
(* 1 bits, and the number of its bits.  They are applied to every bitmap   *)
(* the pool gets into, cut or extended to other sizes.                     *)
(***************************************************************************)
EXTENDS IoBufs, FiniteSets, FiniteSetsExt

block(x) == Cardinality(DOMAIN x.bits)
last(x)  == block(x) - 1

extra_bits(x) == bit_index(x.nums)

zero_unused_bits(x) ==
  IF extra_bits(x) = 0 THEN x
  ELSE [x EXCEPT !.bits[last(x)] = {k \in @ : k < extra_bits(x)}]

\* The shifts of a block.
Up(S, r)   == {k + r : k \in S} \cap Word
Down(S, r) == {k - r : k \in S} \cap Word

Fill(x, S) == [x EXCEPT !.bits = [b \in DOMAIN x.bits |-> S]]
reset_all(x) == Fill(x, {})
set_all(x)   == zero_unused_bits(Fill(x, Word))
flip(x) == zero_unused_bits([x EXCEPT !.bits = [b \in DOMAIN x.bits |-> Word \ x.bits[b]]])

\* Defect: bits are shifted into the unused part of the last block.
shl_dirty(x, n) ==
  IF n >= x.nums THEN reset_all(x)
  ELSE IF n = 0 THEN x
  ELSE LET div == block_index(n)
           r   == bit_index(n)
       IN  [x EXCEPT !.bits = [b \in DOMAIN x.bits |->
              IF b < div THEN {}
              ELSE Up(x.bits[b - div], r) \cup
                   IF b = div THEN {} ELSE Down(x.bits[b - div - 1], bits_per_block - r)]]

\* operator<<=: from the top, so that each block is read before it is written.
shl(x, n) ==
  IF n >= x.nums THEN reset_all(x)
  ELSE IF n = 0 THEN x
  ELSE LET div == block_index(n)
           r   == bit_index(n)
       IN  zero_unused_bits([x EXCEPT !.bits = [b \in DOMAIN x.bits |->
              IF b < div THEN {}
              ELSE Up(x.bits[b - div], r) \cup
                   IF b = div THEN {} ELSE Down(x.bits[b - div - 1], bits_per_block - r)]])

\* The loop of operator>>= for r # 0, also from the top, so that a block may be
\* written before it is read.  past is what it reads behind the last block; what it
\* writes in front of the first is outside the bitset.
shr_loop(x, div, r, past) ==
  LET step(b, i) ==
        IF i < div THEN b
        ELSE [b EXCEPT ![i - div] =
                Down(b[i], r) \cup Up(IF i = last(x) THEN past ELSE b[i + 1], bits_per_block - r)]
      turns == last(x) - div
      looped[t \in 0 .. turns] == IF t = 0 THEN x.bits ELSE step(looped[t - 1], turns + 1 - t)
  IN  looped[turns]

shr(x, n, past) ==
  LET div == block_index(n)
      r   == bit_index(n)
      looped == shr_loop(x, div, r, past)
      moved  == IF r = 0
                THEN [b \in DOMAIN x.bits |-> IF b + div \in DOMAIN x.bits THEN x.bits[b + div] ELSE {}]
                ELSE [looped EXCEPT ![last(x) - div] = Down(looped[last(x)], r)]
  IN  IF n >= x.nums THEN reset_all(x)
      ELSE IF n = 0 THEN x
      ELSE [x EXCEPT !.bits = [b \in DOMAIN x.bits |->
                                 IF b >= block(x) - div THEN {} ELSE moved[b]]]

\* The operations on two bitsets go as far as the shorter one has blocks.
Both(x, y) == DOMAIN x.bits \cap DOMAIN y.bits
Combine(x, y, op(_, _)) ==
  [x EXCEPT !.bits = [b \in DOMAIN x.bits |-> IF b \in Both(x, y) THEN op(x.bits[b], y.bits[b])
                                              ELSE x.bits[b]]]
and(x, y)   == Combine(x, y, LAMBDA S, T : S \cap T)
or(x, y)    == Combine(x, y, LAMBDA S, T : S \cup T)
xor(x, y)   == Combine(x, y, LAMBDA S, T : (S \ T) \cup (T \ S))
minus(x, y) == Combine(x, y, LAMBDA S, T : S \ T)

\* S is less than T as a number.
WordLess(S, T) == S # T /\ Max((S \ T) \cup (T \ S)) \in T

\* Defect: the sizes are not compared.
less_no_size(x, y) ==
  \E b \in Both(x, y) : /\ WordLess(x.bits[b], y.bits[b])
                        /\ \A c \in Both(x, y) : c < b => x.bits[c] = y.bits[c]

less(x, y) ==
  \/ \E b \in Both(x, y) : /\ WordLess(x.bits[b], y.bits[b])
                           /\ \A c \in Both(x, y) : c < b => x.bits[c] = y.bits[c]
  \/ /\ \A b \in Both(x, y) : x.bits[b] = y.bits[b]
     /\ x.nums < y.nums

resize(x, n, value) ==
  LET grown == [b \in 0 .. bits_to_block(n) - 1 |->
                  CASE b > last(x) -> IF value THEN Word ELSE {}
                    [] b = last(x) /\ value /\ n > x.nums /\ extra_bits(x) # 0 ->
                         x.bits[b] \cup {k \in Word : k >= extra_bits(x)}
                    [] OTHER -> x.bits[b]]
  IN  zero_unused_bits([bits |-> grown, nums |-> n])

set_bit(x, i, bit) ==
  [x EXCEPT !.bits[block_index(i)] = IF bit THEN @ \cup {bit_index(i)} ELSE @ \ {bit_index(i)}]

flip_bit(x, i) ==
  set_bit(x, i, bit_index(i) \notin x.bits[block_index(i)])

push_back(x, bit) == set_bit(resize(x, x.nums + 1, FALSE), x.nums, bit)

append(x, S) ==
  LET excess == extra_bits(x)
  IN  [nums |-> x.nums + bits_per_block,
       bits |-> [b \in 0 .. block(x) |->
                   CASE b = block(x) /\ excess = 0 -> S
                     [] b = block(x) /\ excess # 0 -> Down(S, bits_per_block - excess)
                     [] b = last(x) /\ excess # 0  -> x.bits[b] \cup Up(S, excess)
                     [] OTHER -> x.bits[b]]]

count(x) ==
  LET n[b \in 0 .. block(x)] == IF b = 0 THEN 0 ELSE n[b - 1] + Cardinality(x.bits[b - 1])
  IN  n[block(x)]

find_next(x, i) ==
  LET bi    == block_index(i + 1)
      rest  == {k \in x.bits[bi] : k >= bit_index(i + 1)}
      after == {b \in DOMAIN x.bits : b > bi /\ x.bits[b] # {}}
  IN  CASE x.nums = 0 \/ i >= x.nums - 1 -> npos
        [] OTHER -> IF rest # {} THEN bi * bits_per_block + Lowest(rest)
                    ELSE IF after = {} THEN npos
                    ELSE Lowest(after) * bits_per_block + Lowest(x.bits[Lowest(after)])
-----------------------------------------------------------------------------
(* Properties *)

\* What a bitset stands for, and that it keeps its unused bits 0.
Ones(x)  == {i \in 0 .. x.nums - 1 : bit_index(i) \in x.bits[block_index(i)]}
Clean(x) == \A b \in DOMAIN x.bits : \A k \in x.bits[b] : b * bits_per_block + k < x.nums
Is(x, n, S) == x.nums = n /\ block(x) = bits_to_block(n) /\ Ones(x) = S /\ Clean(x)

\* The pool's bitmap, cut or extended, by less than two blocks.
Sizes == 0 .. count_ + bits_per_block
Bitmaps == {resize([bits |-> bits_, nums |-> count_], n, value) : n \in Sizes, value \in BOOLEAN}

\* All bitsets of these sizes.
Bitsets == UNION {{x \in [bits : [0 .. bits_to_block(n) - 1 -> SUBSET Word], nums : {n}] : Clean(x)} :
                    n \in Sizes}

\* Every operation on one bitset computes what it should on its positions and
\* leaves the unused bits 0, for all sizes and shifts, but for >>=, which does so
\* if it shifts by whole blocks or leaves one block.
BitsetOperations ==
  \A x \in Bitmaps :
    LET n == x.nums
        S == Ones(x)
    IN  /\ Clean(x)
        /\ Is(flip(x), n, (0 .. n - 1) \ S) /\ Is(set_all(x), n, 0 .. n - 1)
        /\ \A d \in Sizes :
             /\ Is(shl(x, d), n, {i + d : i \in S} \cap 0 .. n - 1)
             /\ bit_index(d) = 0 \/ block_index(d) = last(x) =>
                  \A past \in SUBSET Word :
                    Is(shr(x, d, past), n, {i - d : i \in S} \cap 0 .. n - 1)
        /\ \A m \in Sizes, v \in BOOLEAN :
             Is(resize(x, m, v), m, (S \cap 0 .. m - 1) \cup IF v THEN n .. m - 1 ELSE {})
        /\ \A v \in BOOLEAN : Is(push_back(x, v), n + 1, S \cup IF v THEN {n} ELSE {})
        /\ \A T \in SUBSET Word :
             Is(append(x, T), n + bits_per_block, S \cup {n + k : k \in T})
        /\ \A i \in 0 .. n - 1 :
             /\ Is(flip_bit(x, i), n, IF i \in S THEN S \ {i} ELSE S \cup {i})
             /\ LET after == {j \in S : j > i}
                IN  find_next(x, i) = IF after = {} THEN npos ELSE Min(after)
        /\ count(x) = Cardinality(S)

\* Bitsets of one size are combined as sets and leave the unused bits 0; of
\* different sizes, operator< and operator== agree on one order of all of them.
BitsetPairs ==
  \A x \in Bitmaps, y \in Bitsets :
    LET S == Ones(x)
        T == Ones(y)
        n == x.nums
    IN  /\ y.nums = n =>
             /\ Is(and(x, y), n, S \cap T) /\ Is(or(x, y), n, S \cup T)
             /\ Is(xor(x, y), n, (S \ T) \cup (T \ S)) /\ Is(minus(x, y), n, S \ T)
        /\ Cardinality({c \in {<<1, less(x, y)>>, <<2, less(y, x)>>, <<3, x = y>>} : c[2]}) = 1
=============================================================================
