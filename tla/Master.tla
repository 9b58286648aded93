------------------------------- MODULE Master -------------------------------
(***************************************************************************)
(* The process manager of cohttp.cpp: main() forks the workers and then    *)
(* monitors them, check() reaps the dead ones every five seconds and forks *)
(* as many again.  A process forked by do_fork() has a copy of its         *)
(* parent's stack, hence of the loop do_fork() was called from: an         *)
(* exception that leaves the worker's RunLoop() is caught in do_fork(),    *)
(* which then returns into that loop, in the child.                        *)
(***************************************************************************)
EXTENDS Integers, FiniteSets

CONSTANTS
  process,       \* CpuUsed: how many workers to run
  MaxPids,       \* the processes the system can hold
  ForkFails,     \* fork() may also fail for want of memory
  Throws,        \* an exception may leave the RunLoop() of a worker
  MaxDeaths      \* bound: how many workers die

ASSUME ProcessAssumption == process \in Nat
ASSUME PidAssumption == MaxPids \in Nat \ {0}
ASSUME FaultAssumption == ForkFails \in BOOLEAN /\ Throws \in BOOLEAN
ASSUME DeathAssumption == MaxDeaths \in Nat

Pids == 1 .. MaxPids
Root == 1        \* the process main() was started in
Kernel == 0      \* the parent of orphans, which reaps them at once

VARIABLES
  pc,        \* where each process is, see Points
  left,      \* iterations left in the loop that calls do_fork()
  parent,    \* the parent of each process
  failed,    \* (history) the forks of each process that have failed
  deaths     \* the workers that have died

vars == <<pc, left, parent, failed, deaths>>

\* "loop": in the for loop of main() or of check(); "serve": in the RunLoop()
\* of do_fork(); "monitor": in a RunLoop() with the timer of check() armed.
Points == {"free", "loop", "serve", "monitor", "zombie"}

Running == {p \in Pids : pc[p] \in {"loop", "serve", "monitor"}}
Free == {p \in Pids : pc[p] = "free"}
Children(p) == {c \in Pids : pc[c] # "free" /\ parent[c] = p}
Zombies(p) == {c \in Children(p) : pc[c] = "zombie"}
-----------------------------------------------------------------------------
\* main() up to its for loop.
Init ==
  /\ pc = [p \in Pids |-> IF p = Root THEN "loop" ELSE "free"]
  /\ left = [p \in Pids |-> IF p = Root THEN process ELSE 0]
  /\ parent = [p \in Pids |-> Kernel]
  /\ failed = [p \in Pids |-> 0]
  /\ deaths = 0

\* Defect: the loop counts the fork only after do_fork() has returned, so the
\* child that falls back into the loop makes it again.
do_fork_again(p, c) ==
  /\ pc[p] = "loop" /\ left[p] > 0 /\ c \in Free
  /\ pc' = [pc EXCEPT ![c] = "serve"]
  /\ left' = [left EXCEPT ![p] = @ - 1, ![c] = left[p]]
  /\ parent' = [parent EXCEPT ![c] = p]
  /\ UNCHANGED <<failed, deaths>>

\* do_fork() in process p; the child c sets up its modules and its service,
\* whose errors are logged and ignored, and enters RunLoop().
do_fork(p, c) ==
  /\ pc[p] = "loop" /\ left[p] > 0 /\ c \in Free
  /\ pc' = [pc EXCEPT ![c] = "serve"]
  /\ left' = [left EXCEPT ![p] = @ - 1, ![c] = left[p] - 1]
  /\ parent' = [parent EXCEPT ![c] = p]
  /\ UNCHANGED <<failed, deaths>>

\* fork() returns -1, which do_fork() does not look at.
fork_fails(p) ==
  /\ pc[p] = "loop" /\ left[p] > 0
  /\ ForkFails \/ Free = {}
  /\ left' = [left EXCEPT ![p] = @ - 1]
  /\ failed' = [failed EXCEPT ![p] = @ + 1]
  /\ UNCHANGED <<pc, parent, deaths>>

\* Defect: check() does not arm its timer again.
monitor_once(p) ==
  /\ pc[p] = "loop" /\ left[p] = 0
  /\ pc' = [pc EXCEPT ![p] = IF deaths > 0 THEN "serve" ELSE "monitor"]
  /\ UNCHANGED <<left, parent, failed, deaths>>

\* The loop is done; the timer of check() is (re-)armed.
monitor(p) ==
  /\ pc[p] = "loop" /\ left[p] = 0
  /\ pc' = [pc EXCEPT ![p] = "monitor"]
  /\ UNCHANGED <<left, parent, failed, deaths>>

\* Defect: one worker is restarted for all those that have exited.
check_restarts_one(p) ==
  /\ pc[p] = "monitor" /\ Zombies(p) # {}
  /\ pc' = [q \in Pids |-> IF q \in Zombies(p) THEN "free"
                           ELSE IF q = p THEN "loop" ELSE pc[q]]
  /\ left' = [left EXCEPT ![p] = 1]
  /\ UNCHANGED <<parent, failed, deaths>>

\* Defect: the call of waitpid() that finds no more zombies is counted too.
check_counts_last(p) ==
  /\ pc[p] = "monitor" /\ Zombies(p) # {}
  /\ pc' = [q \in Pids |-> IF q \in Zombies(p) THEN "free"
                           ELSE IF q = p THEN "loop" ELSE pc[q]]
  /\ left' = [left EXCEPT ![p] = Cardinality(Zombies(p)) + 1]
  /\ UNCHANGED <<parent, failed, deaths>>

\* The timer expires: check() reaps every zombie and counts them.
check(p) ==
  /\ pc[p] = "monitor" /\ Zombies(p) # {}
  /\ pc' = [q \in Pids |-> IF q \in Zombies(p) THEN "free"
                           ELSE IF q = p THEN "loop" ELSE pc[q]]
  /\ left' = [left EXCEPT ![p] = Cardinality(Zombies(p))]
  /\ UNCHANGED <<parent, failed, deaths>>

\* A worker dies, by a signal or by an exception that leaves a coroutine.  Its
\* own children, if it has any, become orphans.
dies(p) ==
  /\ p \in Running \ {Root} /\ deaths < MaxDeaths
  /\ deaths' = deaths + 1
  /\ pc' = [q \in Pids |-> IF q = p THEN IF parent[p] = Kernel THEN "free" ELSE "zombie"
                           ELSE IF q \in Zombies(p) THEN "free" ELSE pc[q]]
  /\ left' = [left EXCEPT ![p] = 0]
  /\ parent' = [q \in Pids |-> IF q \in Children(p) THEN Kernel ELSE parent[q]]
  /\ failed' = [failed EXCEPT ![p] = 0]

\* An exception leaves the RunLoop() of a worker (see shutdown in
\* HttpConnection).  do_fork() catches it, logs "forking service failed", and
\* returns.
escapes(p) ==
  /\ Throws /\ pc[p] = "serve"
  /\ pc' = [pc EXCEPT ![p] = "loop"]
  /\ UNCHANGED <<left, parent, failed, deaths>>
-----------------------------------------------------------------------------
step(p) == (\E c \in Pids : do_fork(p, c)) \/ fork_fails(p) \/ monitor(p) \/ check(p)

Next == \E p \in Pids : step(p) \/ dies(p) \/ escapes(p)

Spec == Init /\ [][Next]_vars

\* Every process goes on with its loop, and the timer of check() expires.
FairSpec == Spec /\ \A p \in Pids : WF_vars(step(p))
-----------------------------------------------------------------------------
(* Properties *)

TypeOK ==
  /\ pc \in [Pids -> Points]
  /\ left \in [Pids -> 0 .. process]
  /\ parent \in [Pids -> Pids \cup {Kernel}]
  /\ failed \in [Pids -> Nat] /\ deaths \in 0 .. MaxDeaths

\* No worker is forgotten and none is started twice, however the deaths fall
\* between the reaping and the forking of check(): the workers the monitor has,
\* dead ones it has not yet reaped included, the forks it still has to make and
\* the forks that have failed, which it never makes up for, add up to CpuUsed.
NoneForgotten == Cardinality(Children(Root)) + left[Root] + failed[Root] = process

\* cohttp.cpp, "cohttp service {} exited, restart": when workers stop dying, the
\* monitor has CpuUsed living ones again for good, less one for each failed fork.
Restored ==
  <>[](Cardinality(Children(Root) \cap Running) = process - failed[Root])

\* A child that falls back into the loop of main() makes the forks its parent
\* had left, and so may its own children; even so the number of processes is
\* bounded before check() first restarts a worker.
ForkTreeBounded == deaths = 0 => Cardinality(Running) <= 2 ^ process

\* waitpid() of check() reaches every dead worker, those of a worker that has
\* become a monitor itself and those whose monitor has died included.
ZombiesReaped == \A p \in Pids : pc[p] = "zombie" ~> pc[p] = "free"

\* cohttpd.yaml, CpuUsed: there are never more processes than the monitor and
\* CpuUsed workers.
AtMostCpuUsed == Cardinality(Running) <= process + 1
=============================================================================
