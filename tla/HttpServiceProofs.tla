-------------------------- MODULE HttpServiceProofs --------------------------
(***************************************************************************)
(* For every number of workers, clients and descriptors, and every width   *)
(* of the counter: connection numbers repeat as late as they can.          *)
(***************************************************************************)
EXTENDS HttpService, FiniteSetTheorems, TLAPS

\* A worker's counter is the number of its accepts, and a connection's number is
\* that of its accept, as far as they fit.
CounterInv ==
  \A w \in Workers :
    /\ accepted[w] \in Nat
    /\ conid[w] = accepted[w] % Conids
    /\ \A c \in conns[w] :
         c.n \in Nat /\ c.n <= accepted[w] /\ c.id = c.n % Conids

Shape ==
  /\ accepted \in [Workers -> Nat]
  /\ DOMAIN conid = Workers /\ DOMAIN conns = Workers

IInv == Shape /\ CounterInv

\* A number is told by its quotient and remainder.
LEMMA QuotRem ==
  ASSUME NEW n \in Nat
  PROVE  /\ n \div Conids \in Nat /\ n % Conids \in 0 .. Conids - 1
         /\ n = Conids * (n \div Conids) + (n % Conids)
BY LimitAssumption

LEMMA RemUnique ==
  ASSUME NEW q \in Nat, NEW r \in 0 .. Conids - 1
  PROVE  (Conids * q + r) % Conids = r
BY LimitAssumption

\* Adding 1 to the remainder, or to the number: the same.
LEMMA NextRem ==
  ASSUME NEW n \in Nat
  PROVE  ((n % Conids) + 1) % Conids = (n + 1) % Conids
<1>. DEFINE q == n \div Conids
            r == n % Conids
<1>0. Conids \in Nat /\ Conids > 0  BY LimitAssumption
<1>1. q \in Nat /\ r \in 0 .. Conids - 1 /\ n = Conids * q + r  BY QuotRem
<1>. HIDE DEF q, r
<1>2. CASE r + 1 < Conids
  <2>1. n + 1 = Conids * q + (r + 1)  BY <1>0, <1>1
  <2>2. (n + 1) % Conids = r + 1  BY <1>0, <1>1, <1>2, <2>1, RemUnique
  <2>3. (r + 1) % Conids = r + 1  BY <1>0, <1>1, <1>2
  <2>. QED  BY <2>2, <2>3 DEF r
<1>3. CASE r + 1 = Conids
  <2>1. n + 1 = Conids * (q + 1) + 0  BY <1>0, <1>1, <1>3
  <2>2. (n + 1) % Conids = 0  BY <1>0, <1>1, <2>1, RemUnique
  <2>3. (r + 1) % Conids = 0  BY <1>0, <1>1, <1>3
  <2>. QED  BY <2>2, <2>3 DEF r
<1>. QED  BY <1>0, <1>1, <1>2, <1>3

\* Two numbers with the same remainder are a whole turn apart.
LEMMA FarApart ==
  ASSUME NEW a \in Nat, NEW b \in Nat, a < b, a % Conids = b % Conids
  PROVE  b - a >= Conids
<1>. DEFINE qa == a \div Conids
            qb == b \div Conids
            r == a % Conids
<1>0. Conids \in Nat /\ Conids > 0  BY LimitAssumption
<1>1. qa \in Nat /\ r \in Nat /\ a = Conids * qa + r  BY QuotRem, <1>0
<1>2. qb \in Nat /\ b = Conids * qb + r  BY QuotRem, <1>0
<1>. HIDE DEF qa, qb, r
<1>3. b - a = Conids * (qb - qa)  BY <1>0, <1>1, <1>2
<1>4. qb - qa >= 1
  <2>1. SUFFICES ASSUME qb <= qa  PROVE FALSE  BY <1>1, <1>2
  <2>2. Conids * qb <= Conids * qa  BY <1>0, <1>1, <1>2, <2>1
  <2>. QED  BY <1>0, <1>1, <1>2, <2>2
<1>. QED  BY <1>0, <1>1, <1>2, <1>3, <1>4

LEMMA InitIInv ==
  ASSUME Init  PROVE IInv
BY LimitAssumption DEF Init, IInv, Shape, CounterInv

\* The accepts of one worker, successful or not.
LEMMA AcceptIInv ==
  ASSUME IInv, NEW w \in Workers, accept(w) \/ accept_throws(w)  PROVE IInv'
<1>. DEFINE new == [n |-> accepted[w] + 1, id |-> next_conid(w)]
<1>0. /\ accepted' = [accepted EXCEPT ![w] = @ + 1]
      /\ conid' = [conid EXCEPT ![w] = next_conid(w)]
      /\ \/ conns' = [conns EXCEPT ![w] = @ \cup {new}]
         \/ conns' = [conns EXCEPT ![w] = {}]
  BY DEF accept, accept_throws
<1>1. next_conid(w) = (accepted[w] + 1) % Conids
  BY NextRem DEF IInv, CounterInv, next_conid
<1>2. Shape'  BY <1>0 DEF IInv, Shape
<1>3. new.n = accepted[w] + 1 /\ new.id = (accepted[w] + 1) % Conids
  BY <1>1
<1>. HIDE DEF new
<1>4. ASSUME NEW v \in Workers, v # w
      PROVE  accepted'[v] = accepted[v] /\ conid'[v] = conid[v] /\ conns'[v] = conns[v]
  BY <1>0, <1>4 DEF IInv, Shape
<1>5. /\ accepted'[w] = accepted[w] + 1 /\ conid'[w] = (accepted[w] + 1) % Conids
      /\ conns'[w] \subseteq conns[w] \cup {new}
  BY <1>0, <1>1 DEF IInv, Shape
<1>6. accepted[w] \in Nat
      /\ \A c \in conns[w] : c.n \in Nat /\ c.n <= accepted[w] /\ c.id = c.n % Conids
  BY DEF IInv, CounterInv
<1>7. \A c \in conns'[w] :
         c.n \in Nat /\ c.n <= accepted[w] + 1 /\ c.id = c.n % Conids
  BY <1>3, <1>5, <1>6
<1>8. CounterInv'
  BY <1>4, <1>5, <1>6, <1>7 DEF IInv, CounterInv
<1>. QED  BY <1>2, <1>8 DEF IInv

\* Every other step leaves the counters alone and adds no connection.
LEMMA QuietIInv ==
  ASSUME IInv, accepted' = accepted, conid' = conid, DOMAIN conns' = Workers,
         \A w \in Workers : conns'[w] \subseteq conns[w]
  PROVE  IInv'
BY DEF IInv, Shape, CounterInv

LEMMA StepIInv ==
  ASSUME IInv, [Next]_vars  PROVE IInv'
<1>1. CASE UNCHANGED vars
  BY <1>1, QuietIInv DEF vars, IInv, Shape
<1>2. CASE client
  BY <1>2, QuietIInv DEF client, IInv, Shape
<1>3. ASSUME NEW w \in Workers, start(w) \/ wait(w) \/ accept_fails(w)
      PROVE  IInv'
  BY <1>3, QuietIInv DEF start, wait, accept_fails, IInv, Shape
<1>4. ASSUME NEW w \in Workers, destroyed(w)  PROVE IInv'
  <2>1. PICK c \in conns[w] : conns' = [conns EXCEPT ![w] = @ \ {c}]
    BY <1>4 DEF destroyed
  <2>2. accepted' = accepted /\ conid' = conid  BY <1>4 DEF destroyed
  <2>. QED  BY <2>1, <2>2, QuietIInv DEF IInv, Shape
<1>. QED  BY <1>1, <1>2, <1>3, <1>4, AcceptIInv DEF Next, loop

\* conid++ wraps around, so connection numbers can repeat; two live connections
\* that share one are at least 2^32 accepts of that worker apart.
THEOREM ConnectionNumbers == Spec => []IdsFarApart
<1>1. Init => IInv  BY InitIInv
<1>2. IInv /\ [Next]_vars => IInv'  BY StepIInv
<1>3. IInv => IdsFarApart
  BY FarApart DEF IInv, CounterInv, IdsFarApart
<1>. QED  BY <1>1, <1>2, <1>3, PTL DEF Spec
-----------------------------------------------------------------------------
(* Types *)

\* TypeOK bounds the accepts of a worker by the clients; that needs the queue: a
\* client is in it or has been accepted, by one worker.
TypeInv ==
  /\ sem \in Nat
  /\ pc \in [Workers -> {"start", "wait", "accept", "returned", "dead"}]
  /\ conid \in [Workers -> 0 .. Conids - 1]
  /\ conns \in [Workers -> SUBSET Connection]
  /\ accepted \in [Workers -> Nat]
  /\ clients \in 0 .. MaxClients /\ backlog \in 0 .. clients

Descriptors == \A w \in Workers : IsFiniteSet(conns[w]) /\ Cardinality(conns[w]) <= MaxFds

Queued == \A w \in Workers : accepted[w] + backlog <= clients

TInv == TypeInv /\ Descriptors /\ Queued

LEMMA InitTInv ==
  ASSUME Init  PROVE TInv
<1>1. TypeInv
  BY LimitAssumption, ClientAssumption DEF Init, TypeInv, Connection
<1>2. \A w \in Workers : conns[w] = {}  BY DEF Init
<1>3. Descriptors
  BY <1>2, FS_EmptySet, LimitAssumption DEF Descriptors
<1>4. Queued  BY DEF Init, Queued
<1>. QED  BY <1>1, <1>3, <1>4 DEF TInv

\* semop() on the number -1 changes nothing.
LEMMA SemKept ==
  ASSUME NEW op, Guarded(op)  PROVE sem' = sem
BY DEF Guarded, semop, semid_

LEMMA ConidType ==
  ASSUME TypeInv, NEW w \in Workers  PROVE next_conid(w) \in 0 .. Conids - 1
<1>1. conid[w] + 1 \in Nat  BY LimitAssumption DEF TypeInv
<1>. QED  BY <1>1, QuotRem DEF next_conid

\* accept(): one client less in the queue, one more of this worker.
LEMMA AcceptTInv ==
  ASSUME TInv, NEW w \in Workers, accept(w) \/ accept_throws(w)  PROVE TInv'
<1>. DEFINE new == [n |-> accepted[w] + 1, id |-> next_conid(w)]
<1>0. /\ backlog > 0 /\ backlog' = backlog - 1 /\ clients' = clients /\ sem' = sem
      /\ Cardinality(conns[w]) < MaxFds
      /\ accepted' = [accepted EXCEPT ![w] = @ + 1]
      /\ conid' = [conid EXCEPT ![w] = next_conid(w)]
      /\ \/ pc' = [pc EXCEPT ![w] = "wait"] /\ conns' = [conns EXCEPT ![w] = @ \cup {new}]
         \/ pc' = [pc EXCEPT ![w] = "dead"] /\ conns' = [conns EXCEPT ![w] = {}]
  BY SemKept DEF accept, accept_throws
<1>t. TypeInv /\ Descriptors /\ Queued  BY DEF TInv
<1>1. next_conid(w) \in 0 .. Conids - 1  BY <1>t, ConidType
<1>2. new \in Connection  BY <1>1, <1>t DEF TypeInv, Connection
<1>. HIDE DEF new
<1>3. /\ pc' \in [Workers -> {"start", "wait", "accept", "returned", "dead"}]
      /\ conid' \in [Workers -> 0 .. Conids - 1]
  BY <1>0, <1>1, <1>t DEF TypeInv
<1>4. conns' \in [Workers -> SUBSET Connection] /\ accepted' \in [Workers -> Nat]
  BY <1>0, <1>2, <1>t DEF TypeInv
<1>5. backlog' \in 0 .. clients' /\ clients' \in 0 .. MaxClients /\ sem' \in Nat
  BY <1>0, <1>t, ClientAssumption DEF TypeInv
<1>6. ASSUME NEW v \in Workers  PROVE accepted'[v] + backlog' <= clients'
  <2>1. accepted[v] + backlog <= clients /\ accepted[v] \in Nat /\ backlog \in Nat /\ clients \in Nat
    BY <1>t, ClientAssumption DEF Queued, TypeInv
  <2>2. accepted'[v] = IF v = w THEN accepted[v] + 1 ELSE accepted[v]
    BY <1>0, <1>t DEF TypeInv
  <2>. QED  BY <1>0, <2>1, <2>2
<1>7. ASSUME NEW v \in Workers
      PROVE  IsFiniteSet(conns'[v]) /\ Cardinality(conns'[v]) <= MaxFds
  <2>0. IsFiniteSet(conns[v]) /\ Cardinality(conns[v]) <= MaxFds  BY <1>t DEF Descriptors
  <2>1. CASE v # w
    BY <2>0, <2>1, <1>0, <1>t DEF TypeInv
  <2>2. CASE v = w /\ conns'[v] = {}
    BY <2>2, FS_EmptySet, LimitAssumption
  <2>3. CASE v = w /\ conns'[v] = conns[v] \cup {new}
    <3>1. IsFiniteSet(conns'[v])  BY <2>0, <2>3, FS_AddElement
    <3>2. \/ Cardinality(conns'[v]) = Cardinality(conns[v])
          \/ Cardinality(conns'[v]) = Cardinality(conns[v]) + 1
      BY <2>0, <2>3, FS_AddElement
    <3>3. Cardinality(conns[v]) \in Nat /\ MaxFds \in Nat
      BY <2>0, FS_CardinalityType, LimitAssumption
    <3>. QED  BY <3>1, <3>2, <3>3, <2>3, <1>0
  <2>. QED  BY <2>1, <2>2, <2>3, <1>0, <1>t DEF TypeInv
<1>. QED  BY <1>3, <1>4, <1>5, <1>6, <1>7 DEF TInv, TypeInv, Descriptors, Queued

LEMMA StepTInv ==
  ASSUME TInv, [Next]_vars  PROVE TInv'
<1>t. TypeInv /\ Descriptors /\ Queued  BY DEF TInv
<1>1. CASE UNCHANGED vars
  BY <1>1 DEF vars, TInv, TypeInv, Descriptors, Queued
<1>2. CASE client
  <2>0. /\ clients < MaxClients /\ clients' = clients + 1 /\ backlog' = backlog + 1
        /\ UNCHANGED <<sem, pc, conid, conns, accepted>>
    BY <1>2 DEF client
  <2>1. clients' \in 0 .. MaxClients /\ backlog' \in 0 .. clients'
    BY <2>0, <1>t, ClientAssumption DEF TypeInv
  <2>2. TypeInv'  BY <2>0, <2>1, <1>t DEF TypeInv
  <2>3. Descriptors'  BY <2>0, <1>t DEF Descriptors
  <2>4. ASSUME NEW v \in Workers  PROVE accepted[v] + (backlog + 1) <= clients + 1
    <3>1. accepted[v] + backlog <= clients /\ accepted[v] \in Nat /\ backlog \in Nat /\ clients \in Nat
      BY <1>t, ClientAssumption DEF Queued, TypeInv
    <3>. QED  BY <3>1
  <2>5. Queued'  BY <2>0, <2>4 DEF Queued
  <2>. QED  BY <2>2, <2>3, <2>5 DEF TInv
<1>3. ASSUME NEW w \in Workers, start(w) \/ wait(w) \/ accept_fails(w)  PROVE TInv'
  <2>1. /\ UNCHANGED <<sem, conid, conns, accepted, clients, backlog>>
        /\ \E to \in {"wait", "accept"} : pc' = [pc EXCEPT ![w] = to]
    BY <1>3, SemKept DEF start, wait, accept_fails
  <2>2. TypeInv'  BY <2>1, <1>t DEF TypeInv
  <2>3. Descriptors' /\ Queued'  BY <2>1, <1>t DEF Descriptors, Queued
  <2>. QED  BY <2>2, <2>3 DEF TInv
<1>4. ASSUME NEW w \in Workers, destroyed(w)  PROVE TInv'
  <2>1. PICK c \in conns[w] : conns' = [conns EXCEPT ![w] = @ \ {c}]
    BY <1>4 DEF destroyed
  <2>2. UNCHANGED <<sem, pc, conid, accepted, clients, backlog>>  BY <1>4 DEF destroyed
  <2>3. TypeInv'  BY <2>1, <2>2, <1>t DEF TypeInv
  <2>4. ASSUME NEW v \in Workers
        PROVE  IsFiniteSet(conns'[v]) /\ Cardinality(conns'[v]) <= MaxFds
    <3>0. IsFiniteSet(conns[v]) /\ Cardinality(conns[v]) <= MaxFds  BY <1>t DEF Descriptors
    <3>1. CASE v # w
      BY <3>0, <3>1, <2>1, <1>t DEF TypeInv
    <3>2. CASE v = w
      <4>1. conns'[v] = conns[v] \ {c} /\ c \in conns[v]  BY <3>2, <2>1, <1>t DEF TypeInv
      <4>2. IsFiniteSet(conns'[v]) /\ Cardinality(conns'[v]) = Cardinality(conns[v]) - 1
        BY <3>0, <4>1, FS_RemoveElement
      <4>3. Cardinality(conns[v]) \in Nat /\ MaxFds \in Nat
        BY <3>0, FS_CardinalityType, LimitAssumption
      <4>. QED  BY <3>0, <4>2, <4>3
    <3>. QED  BY <3>1, <3>2
  <2>5. Queued'  BY <2>2, <1>t DEF Queued
  <2>. QED  BY <2>3, <2>4, <2>5 DEF TInv, Descriptors
<1>. QED  BY <1>1, <1>2, <1>3, <1>4, AcceptTInv DEF Next, loop

\* A worker has no more connections than file descriptors, its counter stays
\* below 2^32, and no worker accepts more clients than came.
THEOREM ServiceTypes == Spec => []TypeOK
<1>1. Init => TInv  BY InitTInv
<1>2. TInv /\ [Next]_vars => TInv'  BY StepTInv
<1>3. TInv => TypeOK
  <2>. SUFFICES ASSUME TInv  PROVE TypeOK
    OBVIOUS
  <2>1. ASSUME NEW w \in Workers  PROVE accepted[w] \in 0 .. MaxClients
    <3>1. /\ accepted[w] + backlog <= clients /\ accepted[w] \in Nat /\ backlog \in Nat
          /\ clients \in 0 .. MaxClients
      BY ClientAssumption DEF TInv, Queued, TypeInv
    <3>. QED  BY <3>1, ClientAssumption
  <2>2. accepted \in [Workers -> 0 .. MaxClients]  BY <2>1 DEF TInv, TypeInv
  <2>3. \A w \in Workers : conns[w] \subseteq Connection /\ Cardinality(conns[w]) <= MaxFds
    BY DEF TInv, TypeInv, Descriptors
  <2>. QED  BY <2>2, <2>3 DEF TInv, TypeInv, TypeOK
<1>. QED  BY <1>1, <1>2, <1>3, PTL DEF Spec
==============================================================================
