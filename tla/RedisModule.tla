----------------------------- MODULE RedisModule -----------------------------
(***************************************************************************)
(* modules/redis.cpp in one worker process: the handlers of the HTTP       *)
(* connections hand commands to one coroutine per redis server through the *)
(* channels redis_order_, and that coroutine hands the replies back        *)
(* through the channel of the connection in redis_reply_.  The handlers    *)
(* wait for a limited time, the redis coroutine for as long as it takes.   *)
(*                                                                         *)
(* A reply is known by the transaction it answers and its place among the  *)
(* replies of that command: 1 for the SET, 2 for the GET.                  *)
(***************************************************************************)
EXTENDS Integers, Sequences

CONSTANTS
  Conns,       \* connection numbers
  config_size, \* the redis servers that are configured
  OrderCap,    \* capacity of a channel of redis_order_ (1024)
  ReplyCap,    \* capacity of a channel of redis_reply_ (256)
  MaxTxn       \* bound: requests on one connection

ASSUME ConnAssumption == Conns \subseteq Nat
ASSUME ServerAssumption == config_size \in Nat
ASSUME CapAssumption == OrderCap \in Nat \ {0} /\ ReplyCap \in Nat \ {0}
ASSUME TxnAssumption == MaxTxn \in Nat

Servers == 0 .. config_size - 1

VARIABLES
  redis_order_, \* for each server, the commands waiting for its coroutine
  redis_reply_, \* for each connection, the replies waiting for its handler
  known,        \* the connections that have an entry in redis_reply_
  at,           \* where each connection is
  tid,          \* its transaction number
  r,            \* r1 and r2 of its handler
  redis,        \* where the coroutine of each server is
  cmd,          \* the command it works on
  done,         \* the replies to that command it has received
  err,          \* whether its context is in error
  late,         \* (history) a pop of the connection has timed out
  fault         \* a freed entry of redis_reply_ has been used: what the
                \* process does from then on is undefined

connVars == <<at, tid, r, late>>
redisVars == <<redis, cmd, done, err>>
vars == <<redis_order_, redis_reply_, known, connVars, redisVars, fault>>

Command == [cid : Conns, tid : 1 .. MaxTxn]
Reply == [tid : 1 .. MaxTxn, k : 1 .. 2, null : BOOLEAN]
None == [tid |-> 0, k |-> 0, null |-> TRUE]     \* an empty shared_ptr
NoCommand == [cid |-> 0, tid |-> 0]

Waiting == {"order", "pop1", "pop2"}
-----------------------------------------------------------------------------
Init ==
  /\ redis_order_ = [s \in Servers |-> <<>>]
  /\ redis_reply_ = [c \in Conns |-> <<>>]
  /\ known = {}
  /\ at = [c \in Conns |-> "new"]
  /\ tid = [c \in Conns |-> 0]
  /\ r = [c \in Conns |-> <<None, None>>]
  /\ redis = [s \in Servers |-> "connect"]
  /\ cmd = [s \in Servers |-> NoCommand]
  /\ done = [s \in Servers |-> 0]
  /\ err = [s \in Servers |-> FALSE]
  /\ late = [c \in Conns |-> FALSE]
  /\ fault = FALSE
-----------------------------------------------------------------------------
(* The connections *)

on_connect_init(c) ==
  /\ ~fault /\ at[c] = "new" /\ at' = [at EXCEPT ![c] = "idle"]
  /\ known' = known \cup {c}
  /\ UNCHANGED <<redis_order_, redis_reply_, tid, r, late, redisVars, fault>>

\* The connection is destroyed, never while it is in a handler.
on_connect_exit(c) ==
  /\ ~fault /\ at[c] = "idle" /\ at' = [at EXCEPT ![c] = "closed"]
  /\ known' = known \ {c}
  /\ redis_reply_' = [redis_reply_ EXCEPT ![c] = <<>>]
  /\ UNCHANGED <<redis_order_, tid, r, late, redisVars, fault>>

\* The start of the handler, up to its first wait.
on_request_header(c) ==
  /\ ~fault /\ at[c] = "idle" /\ tid[c] < MaxTxn
  /\ tid' = [tid EXCEPT ![c] = @ + 1]
  /\ r' = [r EXCEPT ![c] = <<None, None>>]
  /\ at' = [at EXCEPT ![c] = IF config_size > 0 THEN "order" ELSE "idle"]
  /\ UNCHANGED <<redis_order_, redis_reply_, known, late, redisVars, fault>>

\* Defect: the server is chosen by the transaction.
server_by_txn(c) == tid[c] % config_size

server(c) == c % config_size

\* TimedPush(): the command is queued, or the channel stays full for 100 ms.
TimedPush(c) ==
  /\ ~fault /\ at[c] = "order"
  /\ IF Len(redis_order_[server(c)]) < OrderCap
     THEN /\ redis_order_' = [redis_order_ EXCEPT ![server(c)] =
                                Append(@, [cid |-> c, tid |-> tid[c]])]
          /\ at' = [at EXCEPT ![c] = "pop1"]
     ELSE /\ at' = [at EXCEPT ![c] = "idle"]
          /\ UNCHANGED redis_order_
  /\ UNCHANGED <<redis_reply_, known, tid, r, late, redisVars, fault>>

\* Defect: the pop waits for as long as it takes, as in the README's version.
TimedPop_waits(c, k) ==
  /\ ~fault /\ at[c] = IF k = 1 THEN "pop1" ELSE "pop2"
  /\ at' = [at EXCEPT ![c] = IF k = 1 THEN "pop2" ELSE "idle"]
  /\ redis_reply_[c] # <<>>
  /\ r' = [r EXCEPT ![c][k] = Head(redis_reply_[c])]
  /\ redis_reply_' = [redis_reply_ EXCEPT ![c] = Tail(@)]
  /\ UNCHANGED <<late, redis_order_, known, tid, redisVars, fault>>

\* TimedPop() into r1 or r2: a reply, or none for 100 ms.  After the second the
\* response is built from r1 and r2 and the handler returns.
TimedPop(c, k) ==
  /\ ~fault /\ at[c] = IF k = 1 THEN "pop1" ELSE "pop2"
  /\ at' = [at EXCEPT ![c] = IF k = 1 THEN "pop2" ELSE "idle"]
  /\ \/ /\ redis_reply_[c] # <<>>
        /\ r' = [r EXCEPT ![c][k] = Head(redis_reply_[c])]
        /\ redis_reply_' = [redis_reply_ EXCEPT ![c] = Tail(@)]
        /\ UNCHANGED late
     \/ /\ redis_reply_[c] = <<>>
        /\ late' = [late EXCEPT ![c] = TRUE]
        /\ UNCHANGED <<r, redis_reply_>>
  /\ UNCHANGED <<redis_order_, known, tid, redisVars, fault>>
-----------------------------------------------------------------------------
(* The coroutine of a redis server, started by on_process_init() *)

\* redisConnect(); a failure is retried after a second.
connect(s) ==
  /\ ~fault /\ redis[s] = "connect"
  /\ \/ redis' = [redis EXCEPT ![s] = "take"] /\ err' = [err EXCEPT ![s] = FALSE]
     \/ redis' = [redis EXCEPT ![s] = "sleep"] /\ UNCHANGED err
  /\ UNCHANGED <<redis_order_, redis_reply_, known, connVars, cmd, done, fault>>

co_sleep(s) ==
  /\ ~fault /\ redis[s] = "sleep" /\ redis' = [redis EXCEPT ![s] = "connect"]
  /\ UNCHANGED <<redis_order_, redis_reply_, known, connVars, cmd, done, err, fault>>

\* The next command; it is dropped if its connection is gone.
take(s) ==
  /\ ~fault /\ redis[s] = "take" /\ redis_order_[s] # <<>>
  /\ redis_order_' = [redis_order_ EXCEPT ![s] = Tail(@)]
  /\ IF Head(redis_order_[s]).cid \in known
     THEN /\ cmd' = [cmd EXCEPT ![s] = Head(redis_order_[s])]
          /\ done' = [done EXCEPT ![s] = 0]
          /\ redis' = [redis EXCEPT ![s] = "get"]
     ELSE UNCHANGED <<cmd, done, redis>>
  /\ UNCHANGED <<redis_reply_, known, connVars, err, fault>>

\* Defect: a reply that was not received is not handed on.
next_reply_skips(s) == done[s] + 1 + (IF err'[s] THEN 1 ELSE 0)

next_reply(s) == done[s] + 1

\* it->second << reply, with the iterator found before the coroutine waited: it
\* waits while the channel is full, and uses freed memory if the connection has
\* gone in the meantime.  Insertions by on_connect_init() in the meantime do no harm:
\* a rehash of the unordered_map moves no entry, and the iterator is only used to
\* reach its entry.
push(s) ==
  LET c == cmd[s].cid
  IN  \/ /\ c \notin known /\ fault' = TRUE
         /\ UNCHANGED <<redis_reply_, done, redis>>
      \/ /\ c \in known /\ Len(redis_reply_[c]) < ReplyCap
         /\ redis_reply_' = [redis_reply_ EXCEPT ![c] =
              Append(@, [tid |-> cmd[s].tid, k |-> next_reply(s), null |-> err'[s]])]
         /\ done' = [done EXCEPT ![s] = next_reply(s)]
         /\ redis' = [redis EXCEPT ![s] = IF done'[s] < 2 THEN "get"
                                          ELSE IF err'[s] THEN "connect" ELSE "take"]
         /\ UNCHANGED fault
      \/ /\ c \in known /\ Len(redis_reply_[c]) >= ReplyCap
         /\ redis[s] = "get" /\ redis' = [redis EXCEPT ![s] = "full"]
         /\ UNCHANGED <<redis_reply_, done, fault>>

\* redisGetReply(): a reply, or none when the connection to redis fails, and
\* then none for the rest of the command either.
redisGetReply(s) ==
  /\ ~fault /\ redis[s] = "get"
  /\ err' \in {[err EXCEPT ![s] = e] : e \in {err[s], TRUE}}
  /\ push(s)
  /\ UNCHANGED <<redis_order_, known, connVars, cmd>>

push_goes_on(s) ==
  /\ ~fault /\ redis[s] = "full" /\ UNCHANGED err
  /\ push(s)
  /\ UNCHANGED <<redis_order_, known, connVars, cmd>>
-----------------------------------------------------------------------------
handler(c) == TimedPush(c) \/ TimedPop(c, 1) \/ TimedPop(c, 2)

connection(c) ==
  on_connect_init(c) \/ on_connect_exit(c) \/ on_request_header(c) \/ handler(c)

coroutine(s) ==
  connect(s) \/ co_sleep(s) \/ take(s) \/ redisGetReply(s) \/ push_goes_on(s)

Next == (\E c \in Conns : connection(c)) \/ (\E s \in Servers : coroutine(s))

Spec == Init /\ [][Next]_vars

\* The timed waits of a handler end.  Nothing is assumed of redis.
FairSpec == Spec /\ \A c \in Conns : WF_vars(handler(c))
-----------------------------------------------------------------------------
(* Properties *)

TypeOK ==
  /\ redis_order_ \in [Servers -> Seq(Command)] /\ redis_reply_ \in [Conns -> Seq(Reply)]
  /\ \A s \in Servers : Len(redis_order_[s]) <= OrderCap
  /\ \A c \in Conns : Len(redis_reply_[c]) <= ReplyCap
  /\ known \subseteq Conns
  /\ at \in [Conns -> {"new", "idle", "closed"} \cup Waiting]
  /\ tid \in [Conns -> 0 .. MaxTxn]
  /\ r \in [Conns -> [1 .. 2 -> Reply \cup {None}]]
  /\ redis \in [Servers -> {"connect", "sleep", "take", "get", "full"}]
  /\ cmd \in [Servers -> Command \cup {NoCommand}] /\ done \in [Servers -> 0 .. 2]
  /\ err \in [Servers -> BOOLEAN] /\ late \in [Conns -> BOOLEAN] /\ fault \in BOOLEAN

\* The coroutine of server s works on a command of connection c, and the reply to
\* it that it hands on next.
Works(s, c) == redis[s] \in {"get", "full"} /\ cmd[s].cid = c

Upcoming(s) == [tid |-> cmd[s].tid, k |-> done[s] + 1]

\* Reply b comes right after reply a: the GET of a command after its SET, the SET
\* of a later command after a GET.
Follows(a, b) ==
  \/ a.k = 1 /\ b.k = 2 /\ a.tid = b.tid
  \/ a.k = 2 /\ b.k = 1 /\ a.tid < b.tid

\* The replies in the channel of connection c follow each other, and the last one
\* ends a command unless a coroutine is still at it.
InChannel(c) ==
  LET q == redis_reply_[c]
  IN  /\ \A i \in 1 .. Len(q) - 1 : Follows(q[i], q[i + 1])
      /\ q # <<>> => q[Len(q)].k = 2 \/ \E s \in Servers : Works(s, c)

\* What the coroutine of server s hands on next follows what is in the channel.
InCoroutine(s, c) ==
  LET q == redis_reply_[c]
  IN  Works(s, c) /\ q # <<>> => Follows(q[Len(q)], Upcoming(s))

\* A command that waits for server s is later than all that c has in the channel,
\* in the coroutine and before it in the queue.
InQueue(s, c) ==
  LET o == redis_order_[s]
  IN  \A j \in DOMAIN o : o[j].cid = c =>
        /\ \A i \in DOMAIN redis_reply_[c] : redis_reply_[c][i].tid < o[j].tid
        /\ Works(s, c) => cmd[s].tid < o[j].tid
        /\ \A i \in 1 .. j - 1 : o[i].cid = c => o[i].tid < o[j].tid

\* The second reply to the request at hand has not been taken from the channel.
StillToCome(c) ==
  LET q == redis_reply_[c]
  IN  \/ q # <<>> /\ q[Len(q)].tid = tid[c] /\ q[Len(q)].k = 2
      \/ \E s \in Servers :
           \/ Works(s, c) /\ cmd[s].tid = tid[c]
           \/ \E j \in DOMAIN redis_order_[s] :
                redis_order_[s][j] = [cid |-> c, tid |-> tid[c]]

\* However requests, timeouts and failures of redis interleave, the replies of a
\* connection arrive in the order of its commands, both replies of each, and
\* those to the request at hand are still to come while its handler waits:
\* first what is in its channel, then the command the coroutine works on, then
\* the commands that wait, whichever server they were given to.
RepliesInOrder ==
  \A c \in known :
    /\ InChannel(c)
    /\ \A s \in Servers : InCoroutine(s, c) /\ InQueue(s, c)
    /\ at[c] \in {"pop1", "pop2"} => StillToCome(c)

\* Until one of its pops has timed out, a connection gets the replies to the
\* request at hand, a lost connection to redis showing as a NULL reply.
RepliesMatch ==
  \A c \in Conns : ~late[c] =>
    \A k \in 1 .. 2 : r[c][k] # None => r[c][k].tid = tid[c] /\ r[c][k].k = k

\* README.md, "access backend services without block the system": a request
\* handler returns, whatever redis does.
HandlerReturns == \A c \in Conns : at[c] \in Waiting ~> (at[c] = "idle" \/ fault)

\* redis.cpp, "the redis connection takes a command and sends the reply to the
\* connection it belongs to": a response is made of the replies to its request.
OwnReplies ==
  \A c \in Conns : \A k \in 1 .. 2 : r[c][k] # None => r[c][k].tid = tid[c]

\* The same comment: the connection a reply is sent to exists.
NoFreedChannel == ~fault
=============================================================================
