----------------------------- MODULE BufferPool -----------------------------
(***************************************************************************)
(* What the buffer pool of a worker promises its users: a buffer that is   *)
(* handed out is one of the preallocated chunks, which nobody else holds,  *)
(* or, only while every chunk is in use, one from outside the arena.       *)
(* How the free chunk is found, and where the others lie, is left open.    *)
(***************************************************************************)
CONSTANTS Chunks,    \* the preallocated chunks
          Handles,   \* the places in which the worker keeps an iobuf_t
          Outside,   \* a buffer that is none of the chunks
          None       \* the handle holds no buffer

VARIABLE slot        \* slot[h]: the buffer that handle h holds

Free == {c \in Chunks : \A h \in Handles : slot[h] # c}

Init == slot = [h \in Handles |-> None]

Acquire(h) ==
  /\ slot[h] = None
  /\ \/ \E c \in Free : slot' = [slot EXCEPT ![h] = c]
     \/ Free = {} /\ slot' = [slot EXCEPT ![h] = Outside]

Release(h) ==
  /\ slot[h] # None
  /\ slot' = [slot EXCEPT ![h] = None]

Next == \E h \in Handles : Acquire(h) \/ Release(h)

Spec == Init /\ [][Next]_slot
=============================================================================
