------------------------------- MODULE LpmTree -------------------------------
(***************************************************************************)
(* lpmtree (lpmtree.hpp): a tree of characters.  A node is the sequence of *)
(* characters on the way to it; the root is <<>>.  value maps the nodes    *)
(* that have one to their value.                                           *)
(***************************************************************************)
EXTENDS Integers, Sequences, FiniteSets, SequencesExt

Null == <<>>       \* no value; a value is <<v>>

Prefix(s, n) == SubSeq(s, 1, n)

EmptyTree == [nodes |-> {<<>>}, value |-> [n \in {<<>>} |-> Null], values_ |-> <<>>]

\* Defect: nodes on the way to a new one lose their value.
insert_clears(tree, index, v) ==
  LET path == {Prefix(index, n) : n \in 0 .. Len(index)}
      nodes == tree.nodes \cup path
  IN  [nodes |-> nodes,
       value |-> [n \in nodes |-> IF n = index THEN <<v>>
                                  ELSE IF n \in tree.nodes \ path THEN tree.value[n] ELSE Null],
       values_ |-> tree.values_]

insert(tree, index, v) ==
  LET nodes == tree.nodes \cup {Prefix(index, n) : n \in 0 .. Len(index)}
  IN  [nodes |-> nodes,
       value |-> [n \in nodes |-> IF n = index THEN <<v>>
                                  ELSE IF n \in tree.nodes THEN tree.value[n] ELSE Null],
       values_ |-> IF \E i \in DOMAIN tree.values_ : tree.values_[i] = v
                   THEN tree.values_ ELSE Append(tree.values_, v)]

\* The walk goes down while there is a child for the next character, and keeps
\* the last value it has met.  The value of the root is not looked at.
search(tree, index) ==
  LET met == {n \in 1 .. Len(index) : /\ \A m \in 1 .. n : Prefix(index, m) \in tree.nodes
                                      /\ tree.value[Prefix(index, n)] # Null}
  IN  IF met = {} THEN [found |-> Null, prefix |-> <<>>]
      ELSE [found |-> tree.value[Prefix(index, Max(met))], prefix |-> Prefix(index, Max(met))]

\* The tree after a series of insertions <<index, value>>.
Grown(series) ==
  LET tree[i \in 0 .. Len(series)] ==
        IF i = 0 THEN EmptyTree ELSE insert(tree[i - 1], series[i][1], series[i][2])
  IN  tree[Len(series)]

\* What search() should return: the value that was inserted last under the longest
\* nonempty prefix of the index under which one was inserted at all.
LongestPrefix(series, index) ==
  LET hits == {i \in DOMAIN series : /\ series[i][1] # <<>> /\ IsPrefix(series[i][1], index)}
      best == CHOOSE i \in hits : \A j \in hits :
                \/ Len(series[j][1]) < Len(series[i][1])
                \/ Len(series[j][1]) = Len(series[i][1]) /\ j <= i
  IN  IF hits = {} THEN [found |-> Null, prefix |-> <<>>]
      ELSE [found |-> <<series[best][2]>>, prefix |-> series[best][1]]
=============================================================================
