---------------------------- MODULE MasterProofs ----------------------------
(***************************************************************************)
(* For every number of workers and processes, and whatever dies, fails or  *)
(* escapes: the books of the monitor balance.                              *)
(***************************************************************************)
EXTENDS Master, FiniteSetTheorems, FunctionTheorems, TLAPS

Shape ==
  /\ pc \in [Pids -> Points]
  /\ left \in [Pids -> Nat]
  /\ parent \in [Pids -> Pids \cup {Kernel}]
  /\ failed \in [Pids -> Nat]
  /\ deaths \in 0 .. MaxDeaths

\* The monitor stays in its own loop, and only a process in the loop has forks
\* left to make; a process that has ended has neither forks nor children.
PlacesInv ==
  /\ pc[Root] \in {"loop", "monitor"}
  /\ \A p \in Pids : pc[p] = "monitor" => left[p] = 0
  /\ \A p \in Pids : pc[p] \in {"free", "zombie"} =>
                       left[p] = 0 /\ failed[p] = 0 /\ Children(p) = {}
  /\ \A p \in Pids : pc[p] # "free" => parent[p] # p

\* The children of p, the forks it has left and those that have failed.
Books(p) == Cardinality(Children(p)) + left[p] + failed[p]

BooksInv == \A p \in Pids : Books(p) <= process

\* TypeOK bounds left by process; that needs the books of every process, those
\* that have fallen back into a loop included.
IInv == Shape /\ PlacesInv /\ BooksInv /\ NoneForgotten

LEMMA RootIsPid == Root \in Pids /\ Kernel \notin Pids
BY PidAssumption DEF Root, Kernel, Pids

\* A set of processes has a number of elements.
LEMMA PidSets ==
  ASSUME NEW S \in SUBSET Pids
  PROVE  IsFiniteSet(S) /\ Cardinality(S) \in Nat
<1>1. IsFiniteSet(Pids)  BY FS_Interval, PidAssumption DEF Pids
<1>2. IsFiniteSet(S)  BY <1>1, FS_Subset
<1>. QED  BY <1>2, FS_CardinalityType

LEMMA ChildrenArePids ==
  ASSUME NEW p
  PROVE  Children(p) \in SUBSET Pids /\ Zombies(p) \in SUBSET Children(p)
BY DEF Children, Zombies

\* The books of p as natural numbers.
LEMMA BooksType ==
  ASSUME Shape, NEW p \in Pids
  PROVE  Cardinality(Children(p)) \in Nat /\ left[p] \in Nat /\ failed[p] \in Nat
BY PidSets, ChildrenArePids DEF Shape

LEMMA InitIInv ==
  ASSUME Init  PROVE IInv
<1>1. \A p \in Pids : Children(p) = {}
  BY RootIsPid DEF Init, Children
<1>2. \A p \in Pids : Cardinality(Children(p)) = 0
  BY <1>1, FS_EmptySet
<1>3. Shape
  BY RootIsPid, ProcessAssumption, DeathAssumption DEF Init, Shape, Points
<1>4. PlacesInv  BY <1>1, RootIsPid DEF Init, PlacesInv
<1>5. \A p \in Pids : Books(p) = left[p]
  BY <1>2, ProcessAssumption DEF Init, Books
<1>6. BooksInv /\ Books(Root) = process
  BY <1>5, RootIsPid, ProcessAssumption DEF Init, BooksInv
<1>. QED  BY <1>3, <1>4, <1>6 DEF IInv, NoneForgotten, Books

\* If no process's books grow, and the monitor's stay the same, they balance.
LEMMA BooksBalance ==
  ASSUME IInv, \A q \in Pids : Books(q)' <= process, Books(Root)' = Books(Root)
  PROVE  BooksInv' /\ NoneForgotten'
BY DEF IInv, BooksInv, NoneForgotten, Books

LEMMA ForkIInv ==
  ASSUME IInv, NEW p \in Pids, NEW c \in Pids, do_fork(p, c)  PROVE IInv'
<1>0. /\ pc[p] = "loop" /\ left[p] > 0 /\ pc[c] = "free" /\ c # p
      /\ pc' = [pc EXCEPT ![c] = "serve"]
      /\ left' = [left EXCEPT ![p] = @ - 1, ![c] = left[p] - 1]
      /\ parent' = [parent EXCEPT ![c] = p]
      /\ failed' = failed /\ deaths' = deaths
  BY DEF do_fork, Free
<1>. USE DEF IInv
<1>1. Shape'  BY <1>0 DEF Shape, Points
<1>2. c # Root  BY <1>0 DEF PlacesInv
<1>3. ASSUME NEW q \in Pids
      PROVE  Children(q)' = IF q = p THEN Children(q) \cup {c} ELSE Children(q)
  BY <1>0 DEF Children, Shape
<1>4. c \notin Children(p)  BY <1>0 DEF Children
<1>5. Cardinality(Children(p)') = Cardinality(Children(p)) + 1
  BY <1>3, <1>4, PidSets, ChildrenArePids, FS_AddElement
<1>6. left[c] = 0 /\ failed[c] = 0 /\ Cardinality(Children(c)) = 0
  BY <1>0, FS_EmptySet DEF PlacesInv
<1>7. PlacesInv'
  <2>1. pc'[Root] \in {"loop", "monitor"}  BY <1>0, <1>2 DEF PlacesInv
  <2>2. \A q \in Pids : q # c => pc'[q] = pc[q] /\ parent'[q] = parent[q]
    BY <1>0 DEF Shape
  <2>3. pc'[c] = "serve" /\ parent'[c] = p  BY <1>0 DEF Shape
  <2>4. \A q \in Pids : q # c /\ q # p => left'[q] = left[q]
    BY <1>0 DEF Shape
  <2>5. pc'[p] = "loop" /\ failed' = failed  BY <1>0, <2>2
  <2>6. \A q \in Pids : pc'[q] = "monitor" => left'[q] = 0
    BY <2>2, <2>3, <2>4, <2>5 DEF PlacesInv
  <2>7. \A q \in Pids : pc'[q] \in {"free", "zombie"} =>
                            left'[q] = 0 /\ failed'[q] = 0 /\ Children(q)' = {}
    BY <1>3, <2>2, <2>3, <2>4, <2>5 DEF PlacesInv
  <2>8. \A q \in Pids : pc'[q] # "free" => parent'[q] # q
    BY <1>0, <2>2, <2>3 DEF PlacesInv
  <2>. QED  BY <2>1, <2>6, <2>7, <2>8 DEF PlacesInv
<1>8. \A q \in Pids : q # c /\ q # p => Books(q)' = Books(q)
  BY <1>0, <1>3 DEF Books, Shape
<1>9. Books(p)' = Books(p)
  BY <1>0, <1>5, BooksType DEF Books, Shape
<1>10. Books(c)' <= process
  <2>1. Books(c)' = left[p] - 1
    BY <1>0, <1>3, <1>6, BooksType DEF Books, Shape
  <2>2. Books(p) <= process  BY DEF BooksInv
  <2>. QED  BY <2>1, <2>2, BooksType, ProcessAssumption DEF Books
<1>11. \A q \in Pids : Books(q)' <= process
  BY <1>8, <1>9, <1>10 DEF BooksInv
<1>. QED  BY <1>1, <1>2, <1>7, <1>8, <1>9, <1>11, RootIsPid, BooksBalance

LEMMA ForkFailsIInv ==
  ASSUME IInv, NEW p \in Pids, fork_fails(p)  PROVE IInv'
<1>0. /\ pc[p] = "loop" /\ left[p] > 0
      /\ left' = [left EXCEPT ![p] = @ - 1]
      /\ failed' = [failed EXCEPT ![p] = @ + 1]
      /\ pc' = pc /\ parent' = parent /\ deaths' = deaths
  BY DEF fork_fails
<1>. USE DEF IInv
<1>1. Shape'  BY <1>0 DEF Shape
<1>2. \A q \in Pids : Children(q)' = Children(q)  BY <1>0 DEF Children
<1>3. PlacesInv'  BY <1>0, <1>2 DEF PlacesInv, Shape
<1>4. \A q \in Pids : Books(q)' = Books(q)
  BY <1>0, <1>2, BooksType DEF Books, Shape
<1>. QED  BY <1>1, <1>3, <1>4, RootIsPid, BooksBalance DEF BooksInv

LEMMA MonitorIInv ==
  ASSUME IInv, NEW p \in Pids, monitor(p) \/ escapes(p)  PROVE IInv'
<1>0. /\ pc[p] \in {"loop", "serve"} /\ (pc'[p] = "monitor" => left[p] = 0)
      /\ pc' = [pc EXCEPT ![p] = IF monitor(p) THEN "monitor" ELSE "loop"]
      /\ left' = left /\ parent' = parent /\ failed' = failed /\ deaths' = deaths
  BY DEF monitor, escapes, IInv, Shape
<1>. USE DEF IInv
<1>1. Shape'  BY <1>0 DEF Shape, Points
<1>2. \A q \in Pids : Children(q)' = Children(q)  BY <1>0 DEF Children, Shape
<1>3. PlacesInv'
  <2>1. pc'[p] \in {"loop", "monitor"}  BY <1>0 DEF Shape
  <2>2. \A q \in Pids : q # p => pc'[q] = pc[q]  BY <1>0 DEF Shape
  <2>. QED  BY <1>0, <1>2, <2>1, <2>2 DEF PlacesInv
<1>4. \A q \in Pids : Books(q)' = Books(q)  BY <1>0, <1>2 DEF Books
<1>. QED  BY <1>1, <1>3, <1>4, RootIsPid, BooksBalance DEF BooksInv

\* What the loop of waitpid() takes from the children is what it counts.
LEMMA CheckIInv ==
  ASSUME IInv, NEW p \in Pids, check(p)  PROVE IInv'
<1>. DEFINE Z == Zombies(p)
<1>0. /\ pc[p] = "monitor"
      /\ pc' = [q \in Pids |-> IF q \in Z THEN "free"
                               ELSE IF q = p THEN "loop" ELSE pc[q]]
      /\ left' = [left EXCEPT ![p] = Cardinality(Z)]
      /\ parent' = parent /\ failed' = failed /\ deaths' = deaths
  BY DEF check
<1>. USE DEF IInv
<1>1. Z \in SUBSET Children(p) /\ Z \in SUBSET Pids
  BY ChildrenArePids
<1>2. \A z \in Z : pc[z] = "zombie" /\ parent[z] = p  BY DEF Zombies, Children
<1>3. p \notin Z /\ Root \notin Z  BY <1>0, <1>2 DEF PlacesInv
<1>4. left[p] = 0  BY <1>0 DEF PlacesInv
<1>5. Cardinality(Z) \in Nat /\ IsFiniteSet(Z)  BY <1>1, PidSets
<1>. HIDE DEF Z
<1>6. Shape'
  BY <1>0, <1>5 DEF Shape, Points
<1>7. ASSUME NEW q \in Pids
      PROVE  Children(q)' = IF q = p THEN Children(q) \ Z ELSE Children(q)
  <2>1. \A x \in Pids : pc'[x] # "free" <=> pc[x] # "free" /\ x \notin Z
    BY <1>0
  <2>. QED  BY <1>0, <1>2, <2>1 DEF Children
<1>8. Cardinality(Children(p)') = Cardinality(Children(p)) - Cardinality(Z)
  <2>1. IsFiniteSet(Children(p))  BY PidSets, ChildrenArePids
  <2>2. Children(p) \cap Z = Z  BY <1>1
  <2>. QED  BY <1>7, <2>1, <2>2, FS_Difference
<1>9. PlacesInv'
  <2>1. pc'[p] = "loop"  BY <1>0, <1>3
  <2>2. pc'[Root] \in {"loop", "monitor"}
    BY <1>0, <1>3, RootIsPid DEF PlacesInv
  <2>3. \A q \in Pids : q # p => left'[q] = left[q] /\ Children(q)' = Children(q)
    BY <1>0, <1>7 DEF Shape
  <2>4. \A q \in Pids : q \in Z => pc[q] = "zombie" /\ pc'[q] = "free"
    BY <1>0, <1>2
  <2>5. \A q \in Pids : q \notin Z /\ q # p => pc'[q] = pc[q]  BY <1>0
  <2>. QED  BY <1>0, <2>1, <2>2, <2>3, <2>4, <2>5 DEF PlacesInv
<1>10. \A q \in Pids : q # p => Books(q)' = Books(q)
  BY <1>0, <1>7 DEF Books, Shape
<1>11. Books(p)' = Books(p)
  <2>1. left'[p] = Cardinality(Z) /\ failed'[p] = failed[p]  BY <1>0 DEF Shape
  <2>. QED  BY <1>4, <1>5, <1>8, <2>1, BooksType DEF Books
<1>. QED  BY <1>6, <1>9, <1>10, <1>11, RootIsPid, BooksBalance DEF BooksInv

\* A death changes the books of nobody but the dead: its parent still has it, as
\* a zombie, and its own children go to the kernel.
LEMMA DiesIInv ==
  ASSUME IInv, NEW p \in Pids, dies(p)  PROVE IInv'
<1>0. /\ p # Root /\ pc[p] \in {"loop", "serve", "monitor"}
      /\ deaths < MaxDeaths /\ deaths' = deaths + 1
      /\ pc' = [q \in Pids |-> IF q = p THEN IF parent[p] = Kernel THEN "free" ELSE "zombie"
                               ELSE IF q \in Zombies(p) THEN "free" ELSE pc[q]]
      /\ left' = [left EXCEPT ![p] = 0]
      /\ parent' = [q \in Pids |-> IF q \in Children(p) THEN Kernel ELSE parent[q]]
      /\ failed' = [failed EXCEPT ![p] = 0]
  BY DEF dies, Running
<1>. USE DEF IInv
<1>1. parent[p] # p /\ p \notin Children(p)  BY <1>0 DEF PlacesInv, Children
<1>2. \A z \in Zombies(p) : z \in Children(p) /\ pc[z] = "zombie"
  BY DEF Zombies
<1>3. Shape'
  BY <1>0, DeathAssumption DEF Shape, Points
<1>4. Children(p)' = {}
  <2>1. ASSUME NEW x \in Pids, pc'[x] # "free", parent'[x] = p  PROVE FALSE
    <3>1. x \notin Children(p) /\ parent[x] = p  BY <1>0, <2>1, RootIsPid
    <3>2. x # p  BY <1>1, <3>1
    <3>3. pc[x] = "free"  BY <3>1 DEF Children
    <3>. QED  BY <1>0, <2>1, <3>2, <3>3
  <2>. QED  BY <2>1 DEF Children
<1>5. ASSUME NEW q \in Pids, q # p  PROVE Children(q)' = Children(q)
  <2>1. ASSUME NEW x \in Pids
        PROVE  pc'[x] # "free" /\ parent'[x] = q <=> pc[x] # "free" /\ parent[x] = q
    <3>1. CASE x = p
      BY <1>0, <1>1, <3>1, RootIsPid
    <3>2. CASE x # p /\ x \in Children(p)
      <4>1. parent[x] = p /\ parent'[x] = Kernel  BY <1>0, <3>2 DEF Children
      <4>. QED  BY <4>1, <1>5, RootIsPid
    <3>3. CASE x # p /\ x \notin Children(p)
      <4>1. pc'[x] = pc[x] /\ parent'[x] = parent[x]  BY <1>0, <1>2, <3>3
      <4>. QED  BY <4>1
    <3>. QED  BY <3>1, <3>2, <3>3
  <2>. QED  BY <2>1 DEF Children
<1>6. pc'[p] \in {"free", "zombie"} /\ left'[p] = 0 /\ failed'[p] = 0
  BY <1>0 DEF Shape
<1>7. \A q \in Pids : q # p => left'[q] = left[q] /\ failed'[q] = failed[q]
  BY <1>0 DEF Shape
<1>8. PlacesInv'
  <2>1. Root \notin Zombies(p)  BY <1>2 DEF PlacesInv
  <2>2. pc'[Root] \in {"loop", "monitor"}
    BY <1>0, <2>1, RootIsPid DEF PlacesInv
  <2>3. \A q \in Pids : q # p =>
          pc'[q] = pc[q] \/ (pc[q] = "zombie" /\ pc'[q] = "free")
    BY <1>0, <1>2
  <2>4. \A q \in Pids : pc'[q] # "free" => parent'[q] # q
    BY <1>0, <1>1, <2>3, RootIsPid DEF PlacesInv
  <2>. QED  BY <1>4, <1>5, <1>6, <1>7, <2>2, <2>3, <2>4 DEF PlacesInv
<1>9. Books(p)' <= process
  BY <1>4, <1>6, FS_EmptySet, ProcessAssumption DEF Books
<1>10. \A q \in Pids : q # p => Books(q)' = Books(q)
  BY <1>5, <1>7 DEF Books
<1>11. \A q \in Pids : Books(q)' <= process  BY <1>9, <1>10 DEF BooksInv
<1>. QED  BY <1>0, <1>3, <1>8, <1>10, <1>11, RootIsPid, BooksBalance

LEMMA StepIInv ==
  ASSUME IInv, [Next]_vars  PROVE IInv'
<1>1. CASE UNCHANGED vars
  BY <1>1 DEF vars, IInv, Shape, PlacesInv, BooksInv, Books, NoneForgotten, Children
<1>2. CASE Next
  BY <1>2, ForkIInv, ForkFailsIInv, MonitorIInv, CheckIInv, DiesIInv DEF Next, step
<1>. QED  BY <1>1, <1>2

LEMMA IInvImplies ==
  ASSUME IInv  PROVE TypeOK /\ NoneForgotten
<1>1. ASSUME NEW p \in Pids  PROVE left[p] \in 0 .. process
  <2>1. Books(p) <= process  BY DEF IInv, BooksInv
  <2>. QED  BY <2>1, BooksType, ProcessAssumption DEF Books, IInv
<1>2. TypeOK  BY <1>1 DEF IInv, Shape, TypeOK
<1>. QED  BY <1>2 DEF IInv

\* check() counts every dead worker once, whatever dies while it reaps and forks:
\* the monitor never forgets a worker and never starts one too many.
THEOREM MonitorBooks == Spec => [](TypeOK /\ NoneForgotten)
<1>1. Init => IInv  BY InitIInv
<1>2. IInv /\ [Next]_vars => IInv'  BY StepIInv
<1>3. IInv => TypeOK /\ NoneForgotten  BY IInvImplies
<1>. QED  BY <1>1, <1>2, <1>3, PTL DEF Spec
-----------------------------------------------------------------------------
(* The tree of forks *)

\* Until a worker dies, the processes can be told apart by sets of numbers of
\* forks: D[p] has the forks of which p, or the ancestor it was copied from, was
\* the child.  They are forks its loop has behind it, and any two processes
\* differ in one that both have behind them.
Named(D) ==
  /\ D \in [Pids -> SUBSET (1 .. process)]
  /\ \A p \in Running : \A i \in D[p] : i > left[p]
  /\ \A p, q \in Running : p # q =>
       \E i \in 1 .. process : i > left[p] /\ i > left[q] /\ ~(i \in D[p] <=> i \in D[q])

TreeInv ==
  deaths = 0 => /\ \A p \in Pids : pc[p] # "zombie"
                /\ \E D : Named(D)

LEMMA InitTree ==
  ASSUME Init  PROVE TreeInv
<1>1. Running = {Root}  BY RootIsPid DEF Init, Running
<1>2. PICK D : D = [p \in Pids |-> {}]  OBVIOUS
<1>3. Named(D)
  <2>1. D \in [Pids -> SUBSET (1 .. process)] /\ D[Root] = {}  BY <1>2, RootIsPid
  <2>2. \A p \in Running : p = Root  BY <1>1
  <2>3. \A p \in Running : \A i \in D[p] : i > left[p]  BY <2>1, <2>2
  <2>. QED  BY <2>1, <2>2, <2>3 DEF Named
<1>4. \A p \in Pids : pc[p] # "zombie"  BY DEF Init
<1>. QED  BY <1>3, <1>4 DEF TreeInv

\* The child of a fork gets the number of that fork.
LEMMA ForkTree ==
  ASSUME IInv, TreeInv, NEW p \in Pids, NEW c \in Pids, do_fork(p, c)  PROVE TreeInv'
<1>0. /\ pc[p] = "loop" /\ left[p] > 0 /\ pc[c] = "free" /\ c # p
      /\ pc' = [pc EXCEPT ![c] = "serve"]
      /\ left' = [left EXCEPT ![p] = @ - 1, ![c] = left[p] - 1]
      /\ deaths' = deaths
  BY DEF do_fork, Free
<1>. SUFFICES ASSUME deaths = 0
              PROVE  (\A q \in Pids : pc'[q] # "zombie") /\ \E D : Named(D)'
  BY <1>0 DEF TreeInv
<1>s. Shape /\ TypeOK  BY IInvImplies DEF IInv
<1>1. \A q \in Pids : pc'[q] # "zombie"
  BY <1>0, <1>s DEF TreeInv, Shape
<1>2. PICK D : Named(D)  BY DEF TreeInv
<1>3. PICK L \in Nat : L = left[p] /\ L > 0 /\ L \in 1 .. process
  BY <1>0, <1>s DEF TypeOK
<1>4. PICK D2 : D2 = [D EXCEPT ![c] = D[p] \cup {L}]  OBVIOUS
<1>5. p \in Running /\ c \notin Running /\ Running' = Running \cup {c}
  BY <1>0, <1>s DEF Running, Shape
<1>6. /\ left'[p] = L - 1 /\ left'[c] = L - 1
      /\ \A q \in Running : q # p => left'[q] = left[q]
      /\ \A q \in Running : left[q] \in Nat /\ q \in Pids
  BY <1>0, <1>3, <1>5, <1>s DEF Shape, Running
<1>7. /\ D2 \in [Pids -> SUBSET (1 .. process)] /\ D2[c] = D[p] \cup {L}
      /\ \A q \in Running : D2[q] = D[q]
  BY <1>2, <1>3, <1>4, <1>5, <1>6 DEF Named
<1>8. \A i \in D[p] : i \in Int /\ i > L
  <2>1. \A i \in D[p] : i \in 1 .. process  BY <1>2 DEF Named
  <2>2. \A i \in D[p] : i > L  BY <1>2, <1>3, <1>5 DEF Named
  <2>. QED  BY <2>1, <2>2
<1>9. ASSUME NEW q \in Running', NEW i \in D2[q]  PROVE i > left'[q]
  <2>0. i \in Int  BY <1>5, <1>6, <1>7
  <2>1. CASE q = c
    BY <2>0, <2>1, <1>3, <1>6, <1>7, <1>8
  <2>2. CASE q = p
    BY <2>0, <2>2, <1>3, <1>5, <1>6, <1>7, <1>8
  <2>3. CASE q # c /\ q # p
    <3>1. q \in Running /\ D2[q] = D[q] /\ left'[q] = left[q]  BY <2>3, <1>5, <1>6, <1>7
    <3>. QED  BY <3>1, <1>2 DEF Named
  <2>. QED  BY <2>1, <2>2, <2>3
<1>10. ASSUME NEW q \in Running, NEW r \in Running, q # r
       PROVE  \E i \in 1 .. process :
                /\ i > left'[q] /\ i > left'[r] /\ i > left[q] /\ i > left[r]
                /\ ~(i \in D2[q] <=> i \in D2[r])
  <2>1. PICK i \in 1 .. process :
          i > left[q] /\ i > left[r] /\ ~(i \in D[q] <=> i \in D[r])
    BY <1>2, <1>10 DEF Named
  <2>2. left'[q] <= left[q] /\ left'[r] <= left[r] /\ left'[q] \in Int /\ left'[r] \in Int
    BY <1>3, <1>6
  <2>3. left[q] \in Int /\ left[r] \in Int /\ i \in Int  BY <1>6
  <2>4. i > left'[q] /\ i > left'[r]  BY <2>1, <2>2, <2>3
  <2>. QED  BY <2>1, <2>4, <1>7
<1>11. ASSUME NEW q \in Running
       PROVE  \E i \in 1 .. process :
                i > left'[q] /\ i > left'[c] /\ ~(i \in D2[q] <=> i \in D2[c])
  <2>1. CASE q = p
    <3>1. L > left'[q] /\ L > left'[c]  BY <2>1, <1>3, <1>6
    <3>2. L \notin D2[q]
      <4>1. L \notin D[p]  BY <1>3, <1>8
      <4>. QED  BY <4>1, <2>1, <1>7
    <3>3. L \in D2[c]  BY <1>7
    <3>. QED  BY <3>1, <3>2, <3>3, <1>3
  <2>2. CASE q # p
    <3>1. PICK i \in 1 .. process :
            /\ i > left'[q] /\ i > left[p]
            /\ ~(i \in D2[q] <=> i \in D2[p])
      BY <2>2, <1>5, <1>10
    <3>2. i > left'[c] /\ i # L  BY <3>1, <1>3, <1>6
    <3>3. i \in D2[p] <=> i \in D2[c]  BY <3>2, <1>5, <1>7
    <3>. QED  BY <3>1, <3>2, <3>3
  <2>. QED  BY <2>1, <2>2
<1>12. ASSUME NEW q \in Running', NEW r \in Running', q # r
       PROVE  \E i \in 1 .. process :
                i > left'[q] /\ i > left'[r] /\ ~(i \in D2[q] <=> i \in D2[r])
  <2>1. CASE q \in Running /\ r \in Running  BY <2>1, <1>10, <1>12
  <2>2. CASE r = c /\ q \in Running  BY <2>2, <1>11
  <2>3. CASE q = c /\ r \in Running  BY <2>3, <1>11
  <2>. QED  BY <2>1, <2>2, <2>3, <1>5, <1>12
<1>13. Named(D2)'  BY <1>7, <1>9, <1>12 DEF Named
<1>. QED  BY <1>1, <1>13

\* A step that ends no process and adds none, and puts no fork back.
LEMMA QuietTree ==
  ASSUME TreeInv, deaths' = deaths, Running' = Running,
         \A q \in Pids : pc'[q] = "zombie" => pc[q] = "zombie",
         \A q \in Running : left[q] \in Nat /\ left'[q] \in Nat /\ left'[q] <= left[q]
  PROVE  TreeInv'
<1>. SUFFICES ASSUME deaths = 0
              PROVE  (\A q \in Pids : pc'[q] # "zombie") /\ \E D : Named(D)'
  BY DEF TreeInv
<1>1. \A q \in Pids : pc'[q] # "zombie"  BY DEF TreeInv
<1>2. PICK D : Named(D)  BY DEF TreeInv
<1>3. ASSUME NEW q \in Running, NEW i \in Int, i > left[q]  PROVE i > left'[q]
  BY <1>3
<1>4. ASSUME NEW q \in Running, NEW i \in D[q]  PROVE i \in Int /\ i > left'[q]
  <2>1. q \in Pids  BY DEF Running
  <2>2. i \in 1 .. process /\ i > left[q]  BY <1>2, <2>1 DEF Named
  <2>. QED  BY <2>2, <1>3
<1>5. ASSUME NEW q \in Running, NEW r \in Running, q # r
      PROVE  \E i \in 1 .. process :
               i > left'[q] /\ i > left'[r] /\ ~(i \in D[q] <=> i \in D[r])
  <2>1. PICK i \in 1 .. process :
          i > left[q] /\ i > left[r] /\ ~(i \in D[q] <=> i \in D[r])
    BY <1>2, <1>5 DEF Named
  <2>. QED  BY <2>1, <1>3
<1>6. Named(D)'  BY <1>2, <1>4, <1>5 DEF Named
<1>. QED  BY <1>1, <1>6

LEMMA StepTree ==
  ASSUME IInv, TreeInv, [Next]_vars  PROVE TreeInv'
<1>s. Shape  BY DEF IInv
<1>l. \A q \in Running : left[q] \in Nat  BY <1>s DEF Shape, Running
<1>1. CASE UNCHANGED vars
  <2>1. UNCHANGED <<pc, left, deaths>>  BY <1>1 DEF vars
  <2>2. Running' = Running  BY <2>1 DEF Running
  <2>. QED  BY <1>l, <2>1, <2>2, QuietTree
<1>2. ASSUME NEW p \in Pids, NEW c \in Pids, do_fork(p, c)  PROVE TreeInv'
  BY <1>2, ForkTree
<1>3. ASSUME NEW p \in Pids, fork_fails(p)  PROVE TreeInv'
  <2>1. /\ pc' = pc /\ deaths' = deaths /\ left' = [left EXCEPT ![p] = @ - 1]
        /\ left[p] > 0 /\ left[p] \in Nat
    BY <1>3, <1>s DEF fork_fails, Shape
  <2>2. Running' = Running  BY <2>1 DEF Running
  <2>3. \A q \in Running : left'[q] = left[q] \/ (q = p /\ left'[q] = left[q] - 1)
    BY <2>1, <1>s DEF Shape, Running
  <2>. QED  BY <1>l, <2>1, <2>2, <2>3, QuietTree
<1>4. ASSUME NEW p \in Pids, monitor(p) \/ escapes(p)  PROVE TreeInv'
  <2>1. /\ left' = left /\ deaths' = deaths /\ pc[p] \in {"loop", "serve"}
        /\ pc' = [pc EXCEPT ![p] = IF monitor(p) THEN "monitor" ELSE "loop"]
    BY <1>4, <1>s DEF monitor, escapes, Shape
  <2>2. Running' = Running  BY <2>1, <1>s DEF Running, Shape
  <2>3. \A q \in Pids : pc'[q] = "zombie" => pc[q] = "zombie"
    BY <2>1, <1>s DEF Shape
  <2>. QED  BY <1>l, <2>1, <2>2, <2>3, QuietTree
<1>5. ASSUME NEW p \in Pids, check(p)  PROVE TreeInv'
  <2>1. deaths' = deaths /\ Zombies(p) # {}  BY <1>5 DEF check
  <2>2. deaths # 0  BY <2>1 DEF TreeInv, Zombies, Children
  <2>. QED  BY <2>1, <2>2 DEF TreeInv
<1>6. ASSUME NEW p \in Pids, dies(p)  PROVE TreeInv'
  <2>1. deaths' = deaths + 1 /\ deaths \in Nat
    BY <1>6, <1>s, DeathAssumption DEF dies, Shape
  <2>2. deaths' # 0  BY <2>1
  <2>. QED  BY <2>2 DEF TreeInv
<1>. QED  BY <1>1, <1>2, <1>3, <1>4, <1>5, <1>6 DEF Next, step

\* As many names as there are sets of forks.
LEMMA TreeBounded ==
  ASSUME IInv, TreeInv  PROVE ForkTreeBounded
<1>. SUFFICES ASSUME deaths = 0  PROVE Cardinality(Running) <= 2 ^ process
  BY DEF ForkTreeBounded
<1>1. PICK D : Named(D)  BY DEF TreeInv
<1>. DEFINE T == SUBSET (1 .. process)
            f == [p \in Running |-> D[p]]
<1>2. IsFiniteSet(1 .. process) /\ Cardinality(1 .. process) = process
  BY FS_Interval, ProcessAssumption
<1>3. IsFiniteSet(T) /\ Cardinality(T) = 2 ^ process
  BY <1>2, FS_SUBSET
<1>4. f \in Injection(Running, T)
  <2>1. f \in [Running -> T]  BY <1>1 DEF Named, Running
  <2>2. \A p, q \in Running : f[p] = f[q] => p = q
    BY <1>1 DEF Named
  <2>. QED  BY <2>1, <2>2, Fun_IsInj
<1>. HIDE DEF f, T
<1>5. Cardinality(Running) <= Cardinality(T)  BY <1>3, <1>4, FS_Injection
<1>. QED  BY <1>3, <1>5

\* Exceptions that leave RunLoop() put children back into the loop of main(), and
\* theirs; until a worker dies there are no more than 2^CpuUsed processes.
THEOREM ForksBounded == Spec => []ForkTreeBounded
<1>1. Init => IInv /\ TreeInv  BY InitIInv, InitTree
<1>2. (IInv /\ TreeInv) /\ [Next]_vars => (IInv /\ TreeInv)'  BY StepIInv, StepTree
<1>3. IInv /\ TreeInv => ForkTreeBounded  BY TreeBounded
<1>. QED  BY <1>1, <1>2, <1>3, PTL DEF Spec

\* What TypeOK says of the processes; in particular no loop ever has more forks
\* left to make than CpuUsed, one that check() or an exception started included.
THEOREM MasterTypes == Spec => []TypeOK
  BY MonitorBooks, PTL
=============================================================================
