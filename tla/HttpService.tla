---------------------------- MODULE HttpService ----------------------------
(***************************************************************************)
(* The accept loops of the workers, http_service::start() (server.cpp),    *)
(* over the listening socket and the semaphore (semops.cpp) that all of    *)
(* them inherit.  Each worker is one process; what a connection does after *)
(* it is accepted is the subject of HttpConnection.                        *)
(***************************************************************************)
EXTENDS Integers, FiniteSets

CONSTANTS
  Workers,
  reuse_port,    \* options.reuse_port
  Conids,        \* how many values conid has: 2^32
  MaxFds,        \* connections a worker has file descriptors for
  Resets,        \* a client may reset before it is accepted
  MaxClients     \* bound: clients in all

ASSUME OptionAssumption == reuse_port \in {0, 1} /\ Resets \in BOOLEAN
ASSUME LimitAssumption == Conids \in Nat \ {0} /\ MaxFds \in Nat \ {0}
ASSUME ClientAssumption == MaxClients \in Nat

VARIABLES
  sem,       \* the value of the semaphore the constructor of semops created
  pc,        \* where the accept coroutine of each worker is
  conid,     \* its counter of connections
  conns,     \* its live connections: number of the accept, connection number
  accepted,  \* the accepts it has made
  clients,   \* clients so far
  backlog    \* those that wait in the queue of the listening socket

vars == <<sem, pc, conid, conns, accepted, clients, backlog>>

Connection == [n : Nat, id : Nat]
-----------------------------------------------------------------------------
(* semops.cpp *)

\* The constructor assigns the result of semget() to a local variable of the
\* same name: the member keeps its initial value.
semid_ == -1

\* semop() on the member: on -1 it fails at once, which nobody looks at.
semop(op) ==
  IF semid_ = -1 THEN UNCHANGED sem ELSE sem + op >= 0 /\ sem' = sem + op

\* Only taken when the port is not shared between several listening sockets.
Guarded(op) == IF reuse_port = 0 THEN semop(op) ELSE UNCHANGED sem
-----------------------------------------------------------------------------
Init ==
  /\ sem = 1
  /\ pc = [w \in Workers |-> "start"]
  /\ conid = [w \in Workers |-> 0]
  /\ conns = [w \in Workers |-> {}]
  /\ accepted = [w \in Workers |-> 0]
  /\ clients = 0 /\ backlog = 0

\* start() up to its loop: the modules' on_process_init().
start(w) ==
  /\ pc[w] = "start" /\ pc' = [pc EXCEPT ![w] = "wait"]
  /\ UNCHANGED <<sem, conid, conns, accepted, clients, backlog>>

\* sem_->wait(), and on into accept().
wait(w) ==
  /\ pc[w] = "wait" /\ pc' = [pc EXCEPT ![w] = "accept"]
  /\ Guarded(-1)
  /\ UNCHANGED <<conid, conns, accepted, clients, backlog>>

\* Defect: the counter is only advanced past numbers that are free again.
next_conid_reuses(w) == (Cardinality(conns[w]) + 1) % Conids

\* Defect: the counter is wider than the part of the number it is put in.
next_conid_wide(w) == conid[w] + 1

\* conid++, an unsigned integer.
next_conid(w) == (conid[w] + 1) % Conids

\* accept() returns a connection: sem_->wake(), the constructor of the
\* connection, and its coroutine is started.
accept(w) ==
  /\ pc[w] = "accept" /\ backlog > 0 /\ Cardinality(conns[w]) < MaxFds
  /\ Guarded(1)
  /\ backlog' = backlog - 1
  /\ accepted' = [accepted EXCEPT ![w] = @ + 1]
  /\ conid' = [conid EXCEPT ![w] = next_conid(w)]
  /\ conns' = [conns EXCEPT ![w] =
                 @ \cup {[n |-> accepted[w] + 1, id |-> next_conid(w)]}]
  /\ pc' = [pc EXCEPT ![w] = "wait"]
  /\ UNCHANGED clients

\* The same, but the client has reset the connection: the constructor throws in
\* the accept coroutine, and the whole worker goes.
accept_throws(w) ==
  /\ Resets
  /\ pc[w] = "accept" /\ backlog > 0 /\ Cardinality(conns[w]) < MaxFds
  /\ Guarded(1)
  /\ backlog' = backlog - 1
  /\ accepted' = [accepted EXCEPT ![w] = @ + 1]
  /\ conid' = [conid EXCEPT ![w] = next_conid(w)]
  /\ conns' = [conns EXCEPT ![w] = {}]
  /\ pc' = [pc EXCEPT ![w] = "dead"]
  /\ UNCHANGED clients

\* Defect: an error of accept() ends the loop.
accept_fails_returns(w) ==
  /\ pc[w] = "accept" /\ backlog > 0 /\ Cardinality(conns[w]) >= MaxFds
  /\ Guarded(1)
  /\ pc' = [pc EXCEPT ![w] = "returned"]
  /\ UNCHANGED <<conid, conns, accepted, clients, backlog>>

\* accept() fails for want of a file descriptor: sem_->wake() and continue.
accept_fails(w) ==
  /\ pc[w] = "accept" /\ backlog > 0 /\ Cardinality(conns[w]) >= MaxFds
  /\ Guarded(1)
  /\ pc' = [pc EXCEPT ![w] = "wait"]
  /\ UNCHANGED <<conid, conns, accepted, clients, backlog>>

\* A connection is destroyed, for one of the reasons in HttpConnection.
destroyed(w) ==
  /\ pc[w] # "dead"
  /\ \E c \in conns[w] : conns' = [conns EXCEPT ![w] = @ \ {c}]
  /\ UNCHANGED <<sem, pc, conid, accepted, clients, backlog>>

client ==
  /\ clients < MaxClients /\ clients' = clients + 1
  /\ backlog' = backlog + 1
  /\ UNCHANGED <<sem, pc, conid, conns, accepted>>
-----------------------------------------------------------------------------
loop(w) == start(w) \/ wait(w) \/ accept(w) \/ accept_throws(w) \/ accept_fails(w)

Next == client \/ \E w \in Workers : loop(w) \/ destroyed(w)

Spec == Init /\ [][Next]_vars

\* The scheduler of a worker runs its accept coroutine when it can go on.  That
\* a connection ends is not assumed: while accept() fails at once the accept
\* coroutine has no reason to let any other coroutine run.
FairSpec == Spec /\ \A w \in Workers : WF_vars(loop(w))
-----------------------------------------------------------------------------
(* Properties *)

TypeOK ==
  /\ sem \in Nat
  /\ pc \in [Workers -> {"start", "wait", "accept", "returned", "dead"}]
  /\ conid \in [Workers -> 0 .. Conids - 1]
  /\ \A w \in Workers : conns[w] \subseteq Connection /\ Cardinality(conns[w]) <= MaxFds
  /\ accepted \in [Workers -> 0 .. MaxClients]
  /\ clients \in 0 .. MaxClients /\ backlog \in 0 .. clients

\* handler.hpp asks for numbers that are unique in the process; the counter gives
\* the next best: they repeat only after all of them have been used, so
\* two live connections with the same number are at least 2^32 accepts apart,
\* whichever of those between them have ended or failed.
IdsFarApart ==
  \A w \in Workers : \A a, b \in conns[w] :
    a.n < b.n /\ a.id = b.id => b.n - a.n >= Conids

\* No client waits for ever while a worker lives that has a file descriptor for
\* it, also when that worker had run out of them before.
ClientsServed ==
  <>[](backlog = 0 \/ \A w \in Workers :
                        pc[w] = "dead" \/ Cardinality(conns[w]) >= MaxFds)
=============================================================================
