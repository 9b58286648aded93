-------------------------- MODULE RedisModuleProofs --------------------------
(***************************************************************************)
(* Proofs about RedisModule, for any connections, servers and capacities:  *)
(* its type, that the replies of a connection stay in the order of its     *)
(* commands, and that a handler none of whose pops has timed out gets the  *)
(* replies to its own request.                                             *)
(***************************************************************************)
EXTENDS RedisModule, TLAPS

\* Transaction t of connection c has been ordered, or is about to be given up.
Asked(c, t) == t <= tid[c] /\ (at[c] = "order" => t < tid[c])

\* A connection has a channel from on_connect_init() to on_connect_exit(), and
\* waits only where a server is configured, in a transaction.
KnownOK ==
  \A c \in Conns :
    /\ c \in known <=> at[c] \notin {"new", "closed"}
    /\ c \notin known => redis_reply_[c] = <<>>
    /\ at[c] \in Waiting => config_size > 0 /\ tid[c] > 0

\* A coroutine at work has a command of its own, not finished.
CommandOK ==
  \A s \in Servers : redis[s] \in {"get", "full"} =>
    /\ cmd[s] \in Command /\ done[s] < 2
    /\ server(cmd[s].cid) = s /\ Asked(cmd[s].cid, cmd[s].tid)

\* A command waits for the server of its connection, one of which it was asked.
QueueOK ==
  \A s \in Servers : \A j \in DOMAIN redis_order_[s] :
    /\ server(redis_order_[s][j].cid) = s
    /\ Asked(redis_order_[s][j].cid, redis_order_[s][j].tid)

\* Every reply in a channel answers a command of the connection.
ReplyOK ==
  \A c \in Conns : \A i \in DOMAIN redis_reply_[c] : Asked(c, redis_reply_[c][i].tid)

\* The order of RepliesInOrder, for connections that have gone too: a command of
\* theirs may still wait or be worked on.
ChannelOrder == \A c \in Conns : InChannel(c)

CoroutineOrder == \A c \in Conns, s \in Servers : InCoroutine(s, c)

QueueOrder == \A c \in Conns, s \in Servers : InQueue(s, c)

Expected == \A c \in Conns : at[c] \in {"pop1", "pop2"} => StillToCome(c)

\* Before the first pop of a request neither of its replies has been taken.
FirstToCome ==
  \A c \in Conns : at[c] = "pop1" =>
    LET q == redis_reply_[c]
    IN  /\ q # <<>> /\ q[Len(q)].tid = tid[c] /\ q[Len(q)].k = 2 => Len(q) >= 2
        /\ \A s \in Servers :
             Works(s, c) /\ cmd[s].tid = tid[c] /\ done[s] = 1 => q # <<>>

\* While no pop of c has timed out: outside the pops nothing of c is under way.
Quiet ==
  \A c \in Conns : ~late[c] /\ at[c] \notin {"pop1", "pop2"} =>
    /\ redis_reply_[c] = <<>>
    /\ \A s \in Servers : /\ ~Works(s, c)
                          /\ \A j \in DOMAIN redis_order_[s] : redis_order_[s][j].cid # c

\* The reply a handler that was never late waits for.
Due(c) == IF at[c] = "pop1" THEN 1 ELSE 2

\* In the pops everything under way answers the request at hand, and what comes
\* first is the reply that is due.
Matching ==
  \A c \in Conns : ~late[c] /\ at[c] \in {"pop1", "pop2"} =>
    /\ \A i \in DOMAIN redis_reply_[c] : redis_reply_[c][i].tid = tid[c]
    /\ redis_reply_[c] # <<>> => redis_reply_[c][1].k = Due(c)
    /\ \A s \in Servers :
         /\ Works(s, c) => /\ cmd[s].tid = tid[c]
                           /\ redis_reply_[c] = <<>> => Upcoming(s).k = Due(c)
         /\ \A j \in DOMAIN redis_order_[s] : redis_order_[s][j].cid = c =>
              redis_order_[s][j].tid = tid[c] /\ at[c] = "pop1"

\* The inductive invariant.
Inv ==
  /\ TypeOK /\ KnownOK /\ CommandOK /\ QueueOK /\ ReplyOK
  /\ ChannelOrder /\ CoroutineOrder /\ QueueOrder /\ Expected /\ FirstToCome
  /\ Quiet /\ Matching /\ RepliesMatch
-----------------------------------------------------------------------------
(* Sequences *)

LEMMA EmptyLen == ASSUME NEW S, NEW q \in Seq(S) PROVE q = <<>> <=> Len(q) = 0
  OBVIOUS

\* What Append() adds and leaves alone.
LEMMA AppendFacts ==
  ASSUME NEW S, NEW q \in Seq(S), NEW x \in S
  PROVE  /\ Append(q, x) \in Seq(S) /\ Append(q, x) # <<>>
         /\ Len(Append(q, x)) = Len(q) + 1 /\ Len(q) \in Nat
         /\ DOMAIN Append(q, x) = 1 .. Len(q) + 1 /\ DOMAIN q = 1 .. Len(q)
         /\ \A i \in 1 .. Len(q) : Append(q, x)[i] = q[i]
         /\ Append(q, x)[Len(q) + 1] = x
  OBVIOUS

\* What Tail() leaves of a queue.
LEMMA TailFacts ==
  ASSUME NEW S, NEW q \in Seq(S), q # <<>>
  PROVE  /\ Tail(q) \in Seq(S) /\ Len(Tail(q)) = Len(q) - 1
         /\ Len(q) \in Nat /\ Len(q) >= 1
         /\ DOMAIN Tail(q) = 1 .. Len(q) - 1 /\ DOMAIN q = 1 .. Len(q)
         /\ \A i \in 1 .. Len(q) - 1 : Tail(q)[i] = q[i + 1]
         /\ Head(q) = q[1] /\ q[1] \in S
  OBVIOUS

\* The server of a connection is one of those configured.
LEMMA ServerIsOne ==
  ASSUME NEW c \in Conns, config_size > 0
  PROVE  server(c) \in Servers
  BY ConnAssumption, ServerAssumption DEF server, Servers

\* What the queues hold.
LEMMA ElementTypes ==
  ASSUME TypeOK
  PROVE  /\ \A s \in Servers : \A j \in DOMAIN redis_order_[s] :
              /\ redis_order_[s][j] \in Command
              /\ redis_order_[s][j].cid \in Conns /\ redis_order_[s][j].tid \in Nat
         /\ \A c \in Conns : \A i \in DOMAIN redis_reply_[c] :
              /\ redis_reply_[c][i] \in Reply
              /\ redis_reply_[c][i].tid \in Nat /\ redis_reply_[c][i].k \in 1 .. 2
         /\ \A c \in Conns : tid[c] \in Nat
<1>1. \A s \in Servers : \A j \in DOMAIN redis_order_[s] : redis_order_[s][j] \in Command
  BY DEF TypeOK
<1>2. \A c \in Conns : \A i \in DOMAIN redis_reply_[c] : redis_reply_[c][i] \in Reply
  BY DEF TypeOK
<1>3. \A c \in Conns : tid[c] \in Nat
  <2>1. tid \in [Conns -> 0 .. MaxTxn]
    BY DEF TypeOK
  <2> QED
    BY <2>1, TxnAssumption
<1> QED
  BY <1>1, <1>2, <1>3, TxnAssumption DEF Command, Reply
-----------------------------------------------------------------------------
(* The inductive invariant *)

LEMMA InitInv == Init => Inv
<1> SUFFICES ASSUME Init PROVE Inv
  OBVIOUS
<1>0. <<None, None>> \in [1 .. 2 -> Reply \cup {None}]
  OBVIOUS
<1>1. TypeOK
  <2>1. /\ redis_order_ \in [Servers -> Seq(Command)] /\ redis_reply_ \in [Conns -> Seq(Reply)]
        /\ r \in [Conns -> [1 .. 2 -> Reply \cup {None}]]
    BY <1>0 DEF Init
  <2>2. /\ \A s \in Servers : Len(redis_order_[s]) <= OrderCap
        /\ \A c \in Conns : Len(redis_reply_[c]) <= ReplyCap
        /\ tid \in [Conns -> 0 .. MaxTxn] /\ done \in [Servers -> 0 .. 2]
    BY TxnAssumption, CapAssumption DEF Init
  <2> QED
    BY <2>1, <2>2 DEF Init, TypeOK
<1>2. KnownOK /\ CommandOK /\ QueueOK /\ ReplyOK
  BY DEF Init, KnownOK, CommandOK, QueueOK, ReplyOK, Waiting
<1>3. ChannelOrder /\ CoroutineOrder /\ QueueOrder /\ Expected /\ FirstToCome
  BY DEF Init, ChannelOrder, CoroutineOrder, QueueOrder, Expected, FirstToCome, InChannel,
     InCoroutine, InQueue
<1>4. Quiet /\ Matching /\ RepliesMatch
  BY DEF Init, Quiet, Matching, RepliesMatch, Works
<1> QED
  BY <1>1, <1>2, <1>3, <1>4 DEF Inv

\* A connection gets its channel.
LEMMA InitConnInv ==
  ASSUME Inv, NEW d \in Conns, on_connect_init(d)
  PROVE  Inv'
<1>1. TypeOK' /\ KnownOK'
  BY DEF Inv, on_connect_init, TypeOK, KnownOK, Waiting, redisVars
<1>2. CommandOK' /\ QueueOK' /\ ReplyOK'
  BY DEF Inv, on_connect_init, TypeOK, CommandOK, QueueOK, ReplyOK, Asked, redisVars, Command
<1>3. ChannelOrder' /\ CoroutineOrder' /\ QueueOrder'
  BY DEF Inv, on_connect_init, ChannelOrder, CoroutineOrder, QueueOrder, InChannel,
     InCoroutine, InQueue, Works, Upcoming, Follows, redisVars
<1>4. Expected' /\ FirstToCome'
  BY DEF Inv, on_connect_init, TypeOK, Expected, FirstToCome, StillToCome, Works, redisVars
<1>5. Quiet' /\ Matching' /\ RepliesMatch'
  BY DEF Inv, on_connect_init, TypeOK, Quiet, Matching, RepliesMatch, Due, Works,
     Upcoming, redisVars
<1> QED
  BY <1>1, <1>2, <1>3, <1>4, <1>5 DEF Inv

\* A connection goes, with what is in its channel.
LEMMA ExitConnInv ==
  ASSUME Inv, NEW d \in Conns, on_connect_exit(d)
  PROVE  Inv'
<1>0. /\ redis_reply_'[d] = <<>> /\ \A c \in Conns \ {d} : redis_reply_'[c] = redis_reply_[c]
      /\ at'[d] = "closed" /\ at[d] = "idle" /\ \A c \in Conns \ {d} : at'[c] = at[c]
  BY DEF Inv, on_connect_exit, TypeOK
<1>1. TypeOK' /\ KnownOK'
  BY CapAssumption DEF Inv, on_connect_exit, TypeOK, KnownOK, Waiting, redisVars
<1>2. CommandOK' /\ QueueOK' /\ ReplyOK'
  BY <1>0 DEF Inv, on_connect_exit, TypeOK, CommandOK, QueueOK, ReplyOK, Asked, redisVars, Command
<1>3. ChannelOrder' /\ CoroutineOrder' /\ QueueOrder'
  BY <1>0 DEF Inv, on_connect_exit, ChannelOrder, CoroutineOrder, QueueOrder, InChannel,
     InCoroutine, InQueue, Works, Upcoming, Follows, redisVars
<1>4. Expected' /\ FirstToCome'
  BY <1>0 DEF Inv, on_connect_exit, Expected, FirstToCome, StillToCome, Works, redisVars
<1>5. Quiet' /\ Matching' /\ RepliesMatch'
  BY <1>0 DEF Inv, on_connect_exit, TypeOK, Quiet, Matching, RepliesMatch, Due, Works,
     Upcoming, redisVars
<1> QED
  BY <1>1, <1>2, <1>3, <1>4, <1>5 DEF Inv

\* A request: a new transaction, with nothing received for it.
LEMMA RequestInv ==
  ASSUME Inv, NEW d \in Conns, on_request_header(d)
  PROVE  Inv'
<1>0. /\ at[d] = "idle" /\ at'[d] \in {"order", "idle"}
      /\ at'[d] = "order" => config_size > 0
      /\ tid[d] \in 0 .. MaxTxn - 1 /\ tid'[d] = tid[d] + 1
      /\ r'[d] = <<None, None>>
      /\ \A c \in Conns \ {d} : at'[c] = at[c] /\ tid'[c] = tid[c] /\ r'[c] = r[c]
  BY TxnAssumption DEF Inv, on_request_header, TypeOK
<1>a. <<None, None>> \in [1 .. 2 -> Reply \cup {None}]
  OBVIOUS
<1>1. TypeOK'
  BY <1>0, <1>a, TxnAssumption DEF Inv, on_request_header, TypeOK, Waiting, redisVars
<1>1a. KnownOK'
  BY <1>0 DEF Inv, on_request_header, KnownOK, Waiting
<1>2. CommandOK'
  BY <1>0 DEF Inv, on_request_header, TypeOK, CommandOK, Asked, redisVars, Command
<1>2a. QueueOK'
  BY <1>0, ElementTypes DEF Inv, on_request_header, QueueOK, Asked
<1>2b. ReplyOK'
  BY <1>0, ElementTypes DEF Inv, on_request_header, ReplyOK, Asked
<1>3. ChannelOrder' /\ CoroutineOrder' /\ QueueOrder'
  BY <1>0 DEF Inv, on_request_header, ChannelOrder, CoroutineOrder, QueueOrder, InChannel,
     InCoroutine, InQueue, Works, Upcoming, Follows, redisVars
<1>4. Expected' /\ FirstToCome'
  BY <1>0 DEF Inv, on_request_header, Expected, FirstToCome, StillToCome, Works, redisVars
<1>5. Quiet' /\ Matching' /\ RepliesMatch'
  BY <1>0 DEF Inv, on_request_header, TypeOK, Quiet, Matching, RepliesMatch, Due, Works,
     Upcoming, redisVars
<1> QED
  BY <1>1, <1>1a, <1>2, <1>2a, <1>2b, <1>3, <1>4, <1>5 DEF Inv

\* The command is queued after everything else of its connection, or given up.
LEMMA PushOrderInv ==
  ASSUME Inv, NEW d \in Conns, TimedPush(d)
  PROVE  Inv'
<1> DEFINE z == server(d)
           x == [cid |-> d, tid |-> tid[d]]
<1>z. z \in Servers /\ at[d] = "order" /\ d \in known
  BY ServerIsOne DEF Inv, KnownOK, TimedPush, Waiting
<1>x. x \in Command
  <2>1. tid[d] >= 1
    BY <1>z DEF Inv, TypeOK, KnownOK, Waiting
  <2> QED
    BY <2>1, TxnAssumption DEF Inv, TypeOK, Command
<1>f. /\ \A c \in Conns \ {d} : at'[c] = at[c]
      /\ \A s \in Servers \ {z} : redis_order_'[s] = redis_order_[s]
  BY <1>z DEF Inv, TimedPush, TypeOK
<1>1. CASE Len(redis_order_[z]) < OrderCap
  <2>0. /\ at'[d] = "pop1"
        /\ redis_order_'[z] = Append(redis_order_[z], x)
        /\ Len(redis_order_'[z]) = Len(redis_order_[z]) + 1 /\ Len(redis_order_[z]) \in Nat
        /\ DOMAIN redis_order_'[z] = 1 .. Len(redis_order_[z]) + 1
        /\ DOMAIN redis_order_[z] = 1 .. Len(redis_order_[z])
        /\ \A i \in 1 .. Len(redis_order_[z]) : redis_order_'[z][i] = redis_order_[z][i]
        /\ redis_order_'[z][Len(redis_order_[z]) + 1] = x
    <3>1. redis_order_[z] \in Seq(Command)
      BY <1>z DEF Inv, TypeOK
    <3>2. at'[d] = "pop1" /\ redis_order_'[z] = Append(redis_order_[z], x)
      BY <1>1, <1>z DEF Inv, TypeOK, TimedPush
    <3> QED
      BY <3>1, <3>2, <1>x, AppendFacts
  <2> HIDE DEF z, x
  <2>1. TypeOK'
    <3>0. redis_order_ \in [Servers -> Seq(Command)] /\ \A s \in Servers : Len(redis_order_[s]) <= OrderCap
      BY DEF Inv, TypeOK
    <3>1. redis_order_' \in [Servers -> Seq(Command)]
      <4>1. Append(redis_order_[z], x) \in Seq(Command)
        BY <3>0, <1>x, <1>z, AppendFacts
      <4>2. redis_order_' = [redis_order_ EXCEPT ![z] = Append(redis_order_[z], x)]
        BY <1>1 DEF TimedPush, z, x
      <4> QED
        BY <4>1, <4>2, <3>0, <1>z
    <3>2. \A s \in Servers : Len(redis_order_'[s]) <= OrderCap
      <4>1. Len(redis_order_'[z]) <= OrderCap
        BY <2>0, <1>1, CapAssumption
      <4> QED
        BY <4>1, <3>0, <1>f
    <3> QED
      BY <3>1, <3>2, <1>1 DEF Inv, TypeOK, TimedPush, Waiting, redisVars, z
  <2>2. KnownOK' /\ CommandOK' /\ ReplyOK'
    BY <2>0, <1>f, <1>z, ElementTypes DEF Inv, TypeOK, TimedPush, KnownOK, CommandOK, ReplyOK, Asked,
       Waiting, redisVars, Command
  <2>3. QueueOK'
    <3> SUFFICES ASSUME NEW s \in Servers, NEW j \in DOMAIN redis_order_'[s]
                 PROVE  (/\ server(redis_order_[s][j].cid) = s
                         /\ Asked(redis_order_[s][j].cid, redis_order_[s][j].tid))'
      BY DEF QueueOK
    <3>0. tid' = tid /\ tid[d] \in Nat
      BY ElementTypes DEF Inv, TimedPush
    <3>1. CASE s = z /\ j = Len(redis_order_[z]) + 1
      BY <3>0, <3>1, <2>0 DEF Asked, server, z, x
    <3>2. CASE j \in DOMAIN redis_order_[s] /\ redis_order_'[s][j] = redis_order_[s][j]
      <4>1. /\ redis_order_[s][j].cid \in Conns /\ server(redis_order_[s][j].cid) = s
            /\ Asked(redis_order_[s][j].cid, redis_order_[s][j].tid)
        BY <3>2, ElementTypes DEF Inv, QueueOK
      <4> QED
        BY <4>1, <3>0, <3>2, <2>0, <1>f DEF Asked, server
    <3> QED
      BY <3>1, <3>2, <2>0, <1>f
  <2>4. ChannelOrder' /\ CoroutineOrder'
    BY DEF Inv, TimedPush, ChannelOrder, CoroutineOrder, InChannel,
     InCoroutine, Works, Upcoming, Follows, redisVars
  <2>5. QueueOrder'
    <3> SUFFICES ASSUME NEW c \in Conns, NEW s \in Servers PROVE InQueue(s, c)'
      BY DEF QueueOrder
    <3>0. /\ InQueue(s, c) /\ redis_reply_' = redis_reply_
          /\ Works(s, c)' <=> Works(s, c) /\ cmd' = cmd
      BY DEF Inv, QueueOrder, TimedPush, Works, redisVars
    <3>1. CASE s = z /\ c = d
      <4>1. x.cid = d /\ x.tid = tid[d]
        BY DEF x
      <4>2. \A i \in DOMAIN redis_reply_[d] : redis_reply_[d][i].tid < tid[d]
        BY <1>z DEF Inv, ReplyOK, Asked
      <4>3. Works(s, d) => cmd[s].tid < tid[d]
        BY <1>z DEF Inv, CommandOK, Asked, Works
      <4>4. \A i \in DOMAIN redis_order_[z] : redis_order_[z][i].cid = d => redis_order_[z][i].tid < tid[d]
        BY <1>z DEF Inv, QueueOK, Asked
      <4>5. ASSUME NEW j \in DOMAIN redis_order_'[z], redis_order_'[z][j].cid = d
            PROVE  /\ \A i \in DOMAIN redis_reply_[d] : redis_reply_[d][i].tid < redis_order_'[z][j].tid
                   /\ Works(z, d) => cmd[z].tid < redis_order_'[z][j].tid
                   /\ \A i \in 1 .. j - 1 : redis_order_'[z][i].cid = d =>
                        redis_order_'[z][i].tid < redis_order_'[z][j].tid
        <5>1. CASE j = Len(redis_order_[z]) + 1
          BY <5>1, <2>0, <3>1, <4>1, <4>2, <4>3, <4>4
        <5>2. CASE j \in DOMAIN redis_order_[z]
          BY <5>2, <4>5, <2>0, <3>0, <3>1 DEF InQueue
        <5> QED
          BY <5>1, <5>2, <2>0
      <4> QED
        BY <3>0, <3>1, <4>5 DEF InQueue
    <3>2. CASE s = z /\ c # d
      <4>1. x.cid = d
        BY DEF x
      <4>2. ASSUME NEW j \in DOMAIN redis_order_'[z], redis_order_'[z][j].cid = c
            PROVE  j \in DOMAIN redis_order_[z] /\ \A i \in 1 .. j : redis_order_'[z][i] = redis_order_[z][i]
        BY <4>1, <4>2, <3>2, <2>0
      <4> QED
        BY <3>0, <3>2, <4>2, <2>0 DEF InQueue
    <3>3. CASE s # z
      BY <1>f, <3>0, <3>3 DEF InQueue
    <3> QED
      BY <3>1, <3>2, <3>3
  <2>6. Expected'
    <3> SUFFICES ASSUME NEW c \in Conns, at'[c] \in {"pop1", "pop2"} PROVE StillToCome(c)'
      BY DEF Expected
    <3>0. /\ redis_reply_' = redis_reply_ /\ tid' = tid
          /\ cmd' = cmd /\ \A s \in Servers : Works(s, c)' <=> Works(s, c)
      BY DEF TimedPush, Works, redisVars
    <3>1. CASE c = d
      <4>1. Len(redis_order_[z]) + 1 \in DOMAIN redis_order_'[z]
        BY <2>0
      <4> QED
        BY <3>0, <3>1, <4>1, <2>0, <1>z DEF StillToCome, x
    <3>2. CASE c # d
      <4>1. StillToCome(c)
        BY <1>f, <3>2 DEF Inv, Expected
      <4>2. \A s \in Servers : \A j \in DOMAIN redis_order_[s] :
              j \in DOMAIN redis_order_'[s] /\ redis_order_'[s][j] = redis_order_[s][j]
        BY <2>0, <1>f
      <4> QED
        BY <3>0, <4>1, <4>2 DEF StillToCome
    <3> QED
      BY <3>1, <3>2
  <2>l. \A j \in DOMAIN redis_order_'[z] :
          \/ redis_order_'[z][j] = x
          \/ j \in DOMAIN redis_order_[z] /\ redis_order_'[z][j] = redis_order_[z][j]
    BY <2>0
  <2>a. \A c \in Conns \ {d}, s \in Servers : \A j \in DOMAIN redis_order_'[s] :
          redis_order_'[s][j].cid = c =>
            j \in DOMAIN redis_order_[s] /\ redis_order_'[s][j] = redis_order_[s][j]
    BY <2>l, <1>f DEF x
  <2>b. ~late[d] => \A s \in Servers : \A j \in DOMAIN redis_order_'[s] :
          redis_order_'[s][j].cid = d => redis_order_'[s][j].tid = tid[d]
    <3>1. ~late[d] => \A s \in Servers : \A j \in DOMAIN redis_order_[s] : redis_order_[s][j].cid # d
      BY <1>z DEF Inv, Quiet
    <3> QED
      BY <3>1, <2>l, <1>f DEF x
  <2>c. /\ redis_reply_' = redis_reply_ /\ tid' = tid /\ late' = late /\ r' = r
        /\ cmd' = cmd /\ done' = done
        /\ \A c \in Conns, s \in Servers : Works(s, c)' <=> Works(s, c)
    BY DEF TimedPush, Works, redisVars
  <2>d. FirstToCome'
    <3>1. \A i \in DOMAIN redis_reply_[d] : redis_reply_[d][i].tid < tid[d] /\ tid[d] \in Nat
      BY <1>z, ElementTypes DEF Inv, ReplyOK, Asked
    <3>2. \A s \in Servers : Works(s, d) => cmd[s].tid < tid[d] /\ tid[d] \in Nat /\ cmd[s].tid \in Nat
      BY <1>z, ElementTypes, TxnAssumption DEF Inv, CommandOK, Asked, Works, Command
    <3>3. redis_reply_[d] # <<>> => Len(redis_reply_[d]) \in DOMAIN redis_reply_[d]
      <4>1. redis_reply_[d] \in Seq(Reply)
        BY DEF Inv, TypeOK
      <4> QED
        BY <4>1, EmptyLen
    <3>4. \A c \in Conns \ {d} : at'[c] = at[c]
      BY <1>f
    <3> SUFFICES ASSUME NEW c \in Conns, at'[c] = "pop1"
                 PROVE  LET q == redis_reply_[c]
                        IN  /\ q # <<>> /\ q[Len(q)].tid = tid[c] /\ q[Len(q)].k = 2 => Len(q) >= 2
                            /\ \A s \in Servers :
                                 Works(s, c) /\ cmd[s].tid = tid[c] /\ done[s] = 1 => q # <<>>
      BY <2>c DEF FirstToCome
    <3>5. CASE c = d
      <4>1. \A s \in Servers : Works(s, d) => cmd[s].tid # tid[d]
        BY <3>2
      <4> QED
        BY <3>1, <3>3, <3>5, <4>1
    <3>6. CASE c # d
      BY <3>4, <3>6 DEF Inv, FirstToCome
    <3> QED
      BY <3>5, <3>6
  <2>7. Quiet'
    BY <2>a, <2>c, <1>f, <2>0 DEF Inv, Quiet
  <2>8. Matching'
    <3> SUFFICES ASSUME NEW c \in Conns, ~late[c], at'[c] \in {"pop1", "pop2"}
                 PROVE  /\ \A i \in DOMAIN redis_reply_[c] : redis_reply_[c][i].tid = tid[c]
                        /\ redis_reply_[c] # <<>> => redis_reply_[c][1].k = Due(c)'
                        /\ \A s \in Servers :
                             /\ Works(s, c) =>
                                  /\ cmd[s].tid = tid[c]
                                  /\ redis_reply_[c] = <<>> => Upcoming(s).k = Due(c)'
                             /\ \A j \in DOMAIN redis_order_'[s] : redis_order_'[s][j].cid = c =>
                                  redis_order_'[s][j].tid = tid[c] /\ at'[c] = "pop1"
      BY <2>c DEF Matching, Upcoming
    <3>1. CASE c = d
      <4>1. redis_reply_[d] = <<>> /\ \A s \in Servers : ~Works(s, d)
        BY <1>z, <3>1 DEF Inv, Quiet
      <4> QED
        BY <4>1, <2>b, <2>0, <3>1
    <3>2. CASE c # d
      BY <3>2, <2>a, <1>f DEF Inv, Matching, Due
    <3> QED
      BY <3>1, <3>2
  <2>9. RepliesMatch'
    BY <2>c DEF Inv, RepliesMatch
  <2> QED
    BY <2>1, <2>2, <2>3, <2>4, <2>5, <2>6, <2>d, <2>7, <2>8, <2>9 DEF Inv
<1>2. CASE ~(Len(redis_order_[z]) < OrderCap)
  <2>0. /\ at'[d] = "idle" /\ redis_order_' = redis_order_
    BY <1>2 DEF Inv, TimedPush, TypeOK
  <2>1. TypeOK' /\ KnownOK'
    BY <2>0, <1>z, <1>f, <1>2 DEF Inv, TypeOK, KnownOK, TimedPush, Waiting, redisVars
  <2>2. CommandOK' /\ QueueOK' /\ ReplyOK'
    BY <2>0, <1>f, <1>z, ElementTypes
       DEF Inv, TimedPush, CommandOK, QueueOK, ReplyOK, Asked, redisVars, Command
  <2>3. ChannelOrder' /\ CoroutineOrder' /\ QueueOrder'
    BY <2>0 DEF Inv, TimedPush, ChannelOrder, CoroutineOrder, QueueOrder, InChannel,
       InCoroutine, InQueue, Works, Upcoming, Follows, redisVars
  <2>4. Expected' /\ FirstToCome'
    BY <2>0, <1>f DEF Inv, TimedPush, Expected, FirstToCome, StillToCome, Works, redisVars
  <2>5. Quiet' /\ Matching' /\ RepliesMatch'
    BY <2>0, <1>f, <1>z DEF Inv, TimedPush, Quiet, Matching, RepliesMatch, Due, Works,
       Upcoming, redisVars
  <2> QED
    BY <2>1, <2>2, <2>3, <2>4, <2>5 DEF Inv
<1> QED
  BY <1>1, <1>2

\* A reply is taken from the channel, or the pop gives up.
LEMMA PopInv ==
  ASSUME Inv, NEW d \in Conns, NEW k \in 1 .. 2, TimedPop(d, k)
  PROVE  Inv'
<1> DEFINE q == redis_reply_[d]
<1>t. /\ q \in Seq(Reply) /\ Len(q) \in Nat /\ DOMAIN q = 1 .. Len(q)
      /\ q # <<>> => Len(q) >= 1
  BY EmptyLen DEF Inv, TypeOK
<1>f. /\ redis_order_' = redis_order_ /\ known' = known /\ tid' = tid
      /\ redis' = redis /\ cmd' = cmd /\ done' = done /\ err' = err /\ fault' = fault
      /\ at' = [at EXCEPT ![d] = IF k = 1 THEN "pop2" ELSE "idle"]
      /\ at[d] = (IF k = 1 THEN "pop1" ELSE "pop2") /\ at \in [Conns -> {"new", "idle", "closed"} \cup Waiting]
  BY DEF Inv, TypeOK, TimedPop, redisVars
<1>a. /\ at'[d] = (IF k = 1 THEN "pop2" ELSE "idle") /\ d \in known
      /\ \A c \in Conns \ {d} : at'[c] = at[c]
      /\ at' \in [Conns -> {"new", "idle", "closed"} \cup Waiting]
      /\ config_size > 0 /\ tid[d] > 0
  BY <1>f DEF Inv, KnownOK, Waiting
<1>w. \A s \in Servers, c \in Conns : /\ Works(s, c)' <=> Works(s, c)
                                    /\ Upcoming(s)' = Upcoming(s)
  BY <1>f DEF Works, Upcoming
<1>c. CommandOK' /\ QueueOK'
  BY <1>f, <1>a, ElementTypes DEF Inv, CommandOK, QueueOK, Asked, Command
<1>1. CASE q # <<>> /\ r' = [r EXCEPT ![d][k] = Head(q)] /\ redis_reply_' = [redis_reply_ EXCEPT ![d] = Tail(q)] /\ late' = late
  <2>0. /\ redis_reply_'[d] = Tail(q)
        /\ \A c \in Conns \ {d} : redis_reply_'[c] = redis_reply_[c]
        /\ Tail(q) \in Seq(Reply) /\ Len(Tail(q)) = Len(q) - 1 /\ Len(q) >= 1
        /\ DOMAIN Tail(q) = 1 .. Len(q) - 1
        /\ \A i \in 1 .. Len(q) - 1 : Tail(q)[i] = q[i + 1]
        /\ Head(q) = q[1] /\ q[1] \in Reply
        /\ Tail(q) # <<>> => Len(q) >= 2
    <3>1. Tail(q) # <<>> => Len(Tail(q)) # 0
      <4>0. q \in Seq(Reply) /\ q # <<>>
        BY <1>1, <1>t
      <4> HIDE DEF q
      <4>1. Tail(q) \in Seq(Reply)
        BY <4>0, TailFacts
      <4> QED
        BY <4>1, EmptyLen
    <3>2. redis_reply_ \in [Conns -> Seq(Reply)]
      BY DEF Inv, TypeOK
    <3> QED
      BY <3>1, <3>2, <1>1, <1>t, TailFacts
  <2>t. \A c \in Conns : \A i \in DOMAIN redis_reply_'[c] :
          \E j \in DOMAIN redis_reply_[c] : redis_reply_'[c][i] = redis_reply_[c][j]
    <3>1. \A i \in DOMAIN redis_reply_'[d] : i + 1 \in DOMAIN q /\ redis_reply_'[d][i] = q[i + 1]
      BY <2>0, <1>t
    <3>2. \A c \in Conns \ {d} : \A i \in DOMAIN redis_reply_'[c] :
            i \in DOMAIN redis_reply_[c] /\ redis_reply_'[c][i] = redis_reply_[c][i]
      BY <2>0
    <3> QED
      BY <3>1, <3>2
  <2> HIDE DEF q
  <2>1. TypeOK'
    <3>1. redis_reply_' \in [Conns -> Seq(Reply)]
      BY <1>1, <2>0 DEF Inv, TypeOK
    <3>2. \A c \in Conns : Len(redis_reply_'[c]) <= ReplyCap
      <4>1. Len(redis_reply_'[d]) <= ReplyCap
        BY <2>0, <1>t, CapAssumption DEF Inv, TypeOK, q
      <4> QED
        BY <4>1, <2>0 DEF Inv, TypeOK
    <3>3. r' \in [Conns -> [1 .. 2 -> Reply \cup {None}]]
      BY <1>1, <2>0 DEF Inv, TypeOK
    <3> QED
      BY <3>1, <3>2, <3>3, <1>f, <1>a, <1>1 DEF Inv, TypeOK
  <2>2. KnownOK' /\ ReplyOK'
    BY <1>f, <1>a, <2>0, <2>t DEF Inv, KnownOK, ReplyOK, Asked, Waiting
  <2>3. ChannelOrder'
    <3>1. InChannel(d)'
      <4>1. InChannel(d)
        BY DEF Inv, ChannelOrder
      <4>2. \A i \in 1 .. Len(Tail(q)) - 1 : Follows(Tail(q)[i], Tail(q)[i + 1])
        <5> TAKE i \in 1 .. Len(Tail(q)) - 1
        <5>1. i + 1 \in 1 .. Len(q) - 1 /\ i \in 1 .. Len(q) - 1
          BY <2>0, <1>t
        <5>2. Tail(q)[i] = q[i + 1] /\ Tail(q)[i + 1] = q[i + 1 + 1]
          BY <5>1, <2>0
        <5> QED
          BY <5>1, <5>2, <4>1 DEF InChannel, q
      <4>3. Tail(q) # <<>> => Tail(q)[Len(Tail(q))] = q[Len(q)]
        BY <2>0, <1>t
      <4> QED
        BY <4>1, <4>2, <4>3, <2>0, <1>w, <1>1 DEF InChannel, q
    <3>2. \A c \in Conns \ {d} : InChannel(c)'
      BY <2>0, <1>w DEF Inv, ChannelOrder, InChannel
    <3> QED
      BY <3>1, <3>2 DEF ChannelOrder
  <2>4. Tail(q) # <<>> => Tail(q)[Len(Tail(q))] = q[Len(q)]
    BY <2>0, <1>t
  <2>5. CoroutineOrder'
    BY <2>4, <2>0, <1>w, <1>1 DEF Inv, CoroutineOrder, InCoroutine, q
  <2>6. QueueOrder'
    <3> SUFFICES ASSUME NEW c \in Conns, NEW s \in Servers PROVE InQueue(s, c)'
      BY DEF QueueOrder
    <3>1. InQueue(s, c)
      BY DEF Inv, QueueOrder
    <3> QED
      BY <3>1, <2>t, <1>w, <1>f DEF InQueue
  <2>7. Expected'
    <3> SUFFICES ASSUME NEW c \in Conns, at'[c] \in {"pop1", "pop2"} PROVE StillToCome(c)'
      BY DEF Expected
    <3>1. at[c] \in {"pop1", "pop2"}
      BY <1>a, <1>f
    <3>2. StillToCome(c)
      BY <3>1 DEF Inv, Expected
    <3>3. CASE c # d
      BY <3>2, <3>3, <2>0, <1>w, <1>f DEF StillToCome
    <3>4. CASE c = d /\ Tail(q) # <<>>
      BY <3>2, <3>4, <2>0, <2>4, <1>1, <1>w, <1>f DEF StillToCome, q
    <3>5. CASE c = d /\ Tail(q) = <<>>
      <4>0. k = 1 /\ at[d] = "pop1"
        BY <3>5, <1>a, <1>f
      <4>1. Len(q) = 1
        <5>1. Len(Tail(q)) = 0
          BY <3>5, <2>0, EmptyLen
        <5> QED
          BY <5>1, <2>0, <1>t
      <4>2. ~(q[Len(q)].tid = tid[d] /\ q[Len(q)].k = 2)
        BY <4>0, <4>1, <1>1 DEF Inv, FirstToCome, q
      <4> QED
        BY <3>2, <3>5, <4>2, <1>w, <1>f DEF StillToCome, q
    <3> QED
      BY <3>3, <3>4, <3>5
  <2>7a. FirstToCome'
    BY <1>a, <1>w, <1>f, <2>0 DEF Inv, FirstToCome
  <2>8. Quiet'
    <3>1. ASSUME ~late[d], k = 2
          PROVE  Tail(q) = <<>> /\ \A s \in Servers :
                   ~Works(s, d) /\ \A j \in DOMAIN redis_order_[s] : redis_order_[s][j].cid # d
      <4>1. /\ \A i \in DOMAIN q : q[i].tid = tid[d] /\ q[i].tid \in Nat
            /\ q[1].k = 2
            /\ \A s \in Servers : /\ Works(s, d) => cmd[s].tid = tid[d]
                                 /\ \A j \in DOMAIN redis_order_[s] : redis_order_[s][j].cid # d
        BY <3>1, <1>f, <1>1, ElementTypes DEF Inv, Matching, Due, q
      <4>2. Len(q) = 1
        <5> SUFFICES ASSUME Len(q) > 1 PROVE FALSE
          BY <2>0, <1>t
        <5>1. Follows(q[1], q[2])
          BY <1>t DEF Inv, ChannelOrder, InChannel, q
        <5>2. 1 \in DOMAIN q /\ 2 \in DOMAIN q
          BY <1>t
        <5> QED
          BY <5>1, <5>2, <4>1 DEF Follows
      <4>3. Tail(q) = <<>>
        BY <4>2, <2>0, EmptyLen
      <4>4. ASSUME NEW s \in Servers, Works(s, d) PROVE FALSE
        <5>1. Follows(q[1], Upcoming(s))
          BY <4>4, <4>2, <1>1 DEF Inv, CoroutineOrder, InCoroutine, q
        <5>2. 1 \in DOMAIN q
          BY <1>t, <4>2
        <5> QED
          BY <5>1, <5>2, <4>1, <4>4 DEF Follows, Upcoming
      <4> QED
        BY <4>1, <4>3, <4>4
    <3>2. ~late'[d] /\ at'[d] \notin {"pop1", "pop2"} => ~late[d] /\ k = 2
      BY <1>1, <1>a
    <3> SUFFICES ASSUME NEW c \in Conns, ~late[c], at'[c] \notin {"pop1", "pop2"}
                 PROVE  /\ redis_reply_'[c] = <<>>
                        /\ \A s \in Servers : /\ ~Works(s, c)
                                              /\ \A j \in DOMAIN redis_order_[s] : redis_order_[s][j].cid # c
      BY <1>1, <1>w, <1>f DEF Quiet
    <3>3. CASE c = d
      BY <3>1, <3>2, <3>3, <1>1, <2>0
    <3>4. CASE c # d
      BY <3>4, <1>a, <2>0 DEF Inv, Quiet
    <3> QED
      BY <3>3, <3>4
  <2>9. Matching'
    <3> SUFFICES ASSUME NEW c \in Conns, ~late[c], at'[c] \in {"pop1", "pop2"}
                 PROVE  /\ \A i \in DOMAIN redis_reply_'[c] : redis_reply_'[c][i].tid = tid[c]
                        /\ redis_reply_'[c] # <<>> => redis_reply_'[c][1].k = Due(c)'
                        /\ \A s \in Servers :
                             /\ Works(s, c) =>
                                  /\ cmd[s].tid = tid[c]
                                  /\ redis_reply_'[c] = <<>> => Upcoming(s).k = Due(c)'
                             /\ \A j \in DOMAIN redis_order_[s] : redis_order_[s][j].cid = c =>
                                  redis_order_[s][j].tid = tid[c] /\ at'[c] = "pop1"
      BY <1>1, <1>f, <1>w DEF Matching
    <3>1. CASE c # d
      BY <3>1, <2>0, <1>a DEF Inv, Matching, Due
    <3>2. CASE c = d
      <4>0. k = 1 /\ at[d] = "pop1" /\ Due(d)' = 2
        BY <3>2, <1>a, <1>f DEF Due
      <4>1. /\ \A i \in DOMAIN q : q[i].tid = tid[d] /\ q[i].tid \in Nat
            /\ q[1].k = 1
            /\ \A s \in Servers : /\ Works(s, d) => cmd[s].tid = tid[d]
                                 /\ \A j \in DOMAIN redis_order_[s] :
                                      redis_order_[s][j].cid = d => redis_order_[s][j].tid = tid[d]
        BY <3>2, <4>0, <1>1, ElementTypes DEF Inv, Matching, Due, q
      <4>2. 1 \in DOMAIN q
        BY <1>t, <2>0
      <4>3. \A i \in DOMAIN redis_reply_'[d] : redis_reply_'[d][i].tid = tid[d]
        BY <4>1, <2>0, <1>t
      <4>4. Tail(q) # <<>> => Tail(q)[1].k = 2
        <5> HAVE Tail(q) # <<>>
        <5>1. Follows(q[1], q[2]) /\ Tail(q)[1] = q[2]
          BY <2>0, <1>t DEF Inv, ChannelOrder, InChannel, q
        <5> QED
          BY <5>1, <4>1 DEF Follows
      <4>5. ASSUME NEW s \in Servers, Works(s, d), Tail(q) = <<>> PROVE Upcoming(s).k = 2
        <5>1. Len(q) = 1
          BY <4>5, <2>0, <1>t, EmptyLen
        <5>2. Follows(q[1], Upcoming(s))
          BY <4>5, <5>1, <1>1 DEF Inv, CoroutineOrder, InCoroutine, q
        <5> QED
          BY <5>2, <4>1 DEF Follows
      <4>6. ASSUME NEW s \in Servers, NEW j \in DOMAIN redis_order_[s], redis_order_[s][j].cid = d
            PROVE  FALSE
        <5>1. q[1].tid < redis_order_[s][j].tid
          BY <4>6, <4>2 DEF Inv, QueueOrder, InQueue, q
        <5> QED
          BY <5>1, <4>6, <4>1, <4>2
      <4> QED
        BY <3>2, <4>0, <4>1, <4>3, <4>4, <4>5, <4>6, <2>0
    <3> QED
      BY <3>1, <3>2
  <2>10. RepliesMatch'
    <3> SUFFICES ASSUME NEW c \in Conns, ~late[c], NEW m \in 1 .. 2, r'[c][m] # None
                 PROVE  r'[c][m].tid = tid[c] /\ r'[c][m].k = m
      BY <1>1, <1>f DEF RepliesMatch
    <3>1. CASE c = d /\ m = k
      <4>1. r'[c][m] = q[1]
        BY <3>1, <1>1, <2>0 DEF Inv, TypeOK
      <4>2. q[1].tid = tid[d] /\ q[1].k = k
        BY <3>1, <1>1, <1>f, <1>t DEF Inv, Matching, Due, q
      <4> QED
        BY <4>1, <4>2, <3>1
    <3>2. CASE ~(c = d /\ m = k)
      <4>1. r'[c][m] = r[c][m]
        BY <3>2, <1>1 DEF Inv, TypeOK
      <4> QED
        BY <4>1 DEF Inv, RepliesMatch
    <3> QED
      BY <3>1, <3>2
  <2> QED
    BY <2>1, <2>2, <2>3, <2>5, <2>6, <2>7, <2>7a, <2>8, <2>9, <2>10, <1>c DEF Inv
<1>2. CASE q = <<>> /\ late' = [late EXCEPT ![d] = TRUE] /\ r' = r /\ redis_reply_' = redis_reply_
  <2>1. TypeOK'
    BY <1>2, <1>f, <1>a DEF Inv, TypeOK
  <2>2. KnownOK' /\ ReplyOK'
    BY <1>2, <1>f, <1>a DEF Inv, KnownOK, ReplyOK, Asked, Waiting
  <2>3. ChannelOrder' /\ CoroutineOrder' /\ QueueOrder'
    BY <1>2, <1>w, <1>f DEF Inv, ChannelOrder, CoroutineOrder, QueueOrder, InChannel,
       InCoroutine, InQueue
  <2>4. Expected'
    BY <1>2, <1>a, <1>f, <1>w DEF Inv, Expected, StillToCome
  <2>4a. FirstToCome'
    BY <1>2, <1>a, <1>f, <1>w DEF Inv, FirstToCome
  <2>5. \A c \in Conns : ~late'[c] => c # d /\ ~late[c]
    BY <1>2 DEF Inv, TypeOK
  <2>6. Quiet' /\ RepliesMatch'
    BY <2>5, <1>2, <1>a, <1>f, <1>w DEF Inv, Quiet, RepliesMatch
  <2>7. Matching'
    BY <2>5, <1>2, <1>a, <1>f, <1>w DEF Inv, Matching, Due
  <2> QED
    BY <2>1, <2>2, <2>3, <2>4, <2>4a, <2>6, <2>7, <1>c DEF Inv
<1> QED
  BY <1>1, <1>2 DEF TimedPop

\* Nothing changes as long as no coroutine starts or gets on with a command.
LEMMA SameWorkInv ==
  ASSUME Inv,
         UNCHANGED <<redis_order_, redis_reply_, known, at, tid, r, late, cmd, done>>,
         redis' \in [Servers -> {"connect", "sleep", "take", "get", "full"}],
         err' \in [Servers -> BOOLEAN], fault' \in BOOLEAN,
         \A s \in Servers : redis'[s] \in {"get", "full"} <=> redis[s] \in {"get", "full"}
  PROVE  Inv'
<1>0. UNCHANGED <<redis_order_, redis_reply_, known, at, tid, r, late, cmd, done>>
  OBVIOUS
<1>1. \A s \in Servers, c \in Conns : /\ Works(s, c)' <=> Works(s, c)
                                    /\ Upcoming(s)' = Upcoming(s)
  BY <1>0 DEF Works, Upcoming
<1>2. TypeOK' /\ KnownOK'
  BY <1>0 DEF Inv, TypeOK, KnownOK
<1>3. CommandOK' /\ QueueOK' /\ ReplyOK'
  BY <1>0 DEF Inv, CommandOK, QueueOK, ReplyOK, Asked
<1>4. ChannelOrder' /\ CoroutineOrder' /\ QueueOrder'
  BY <1>0, <1>1 DEF Inv, ChannelOrder, CoroutineOrder, QueueOrder, InChannel, InCoroutine, InQueue
<1>5. Expected' /\ FirstToCome'
  BY <1>0, <1>1 DEF Inv, Expected, FirstToCome, StillToCome
<1>6. Quiet' /\ Matching' /\ RepliesMatch'
  BY <1>0, <1>1 DEF Inv, Quiet, Matching, RepliesMatch, Due
<1> QED
  BY <1>2, <1>3, <1>4, <1>5, <1>6 DEF Inv

\* Connecting to redis and waiting to try again is no work on a command.
LEMMA ReconnectInv ==
  ASSUME Inv, NEW z \in Servers, connect(z) \/ co_sleep(z)
  PROVE  Inv'
<1>1. /\ UNCHANGED <<redis_order_, redis_reply_, known, at, tid, r, late, cmd, done, fault>>
      /\ redis' \in [Servers -> {"connect", "sleep", "take", "get", "full"}]
      /\ err' \in [Servers -> BOOLEAN]
      /\ \A s \in Servers : redis'[s] \in {"get", "full"} <=> redis[s] \in {"get", "full"}
  BY DEF Inv, TypeOK, connect, co_sleep, connVars
<1>2. fault' \in BOOLEAN
  BY <1>1 DEF Inv, TypeOK
<1> QED
  BY <1>1, <1>2, SameWorkInv

\* The coroutine takes the command at the head of its queue, or drops it because
\* its connection is gone.
LEMMA TakeInv ==
  ASSUME Inv, NEW z \in Servers, take(z)
  PROVE  Inv'
<1> DEFINE q == redis_order_[z]
           x == Head(q)
           kept == x.cid \in known
<1>q. /\ q \in Seq(Command) /\ q # <<>> /\ redis_order_ \in [Servers -> Seq(Command)]
      /\ x \in Command
  <2>1. q \in Seq(Command) /\ q # <<>> /\ redis_order_ \in [Servers -> Seq(Command)]
    BY DEF Inv, TypeOK, take
  <2> QED
    BY <2>1, TailFacts
<1>f. /\ UNCHANGED <<redis_reply_, known, at, tid, r, late, err, fault>>
      /\ redis[z] = "take" /\ redis_order_' = [redis_order_ EXCEPT ![z] = Tail(q)]
      /\ \A s \in Servers \ {z} : redis'[s] = redis[s] /\ cmd'[s] = cmd[s] /\ done'[s] = done[s]
      /\ kept => redis'[z] = "get" /\ cmd'[z] = x /\ done'[z] = 0
      /\ ~kept => redis' = redis /\ cmd' = cmd /\ done' = done
  BY DEF Inv, TypeOK, take, connVars
<1>g. /\ redis' \in [Servers -> {"connect", "sleep", "take", "get", "full"}]
      /\ cmd' \in [Servers -> Command \cup {NoCommand}]
      /\ done' \in [Servers -> 0 .. 2]
  <2>1. /\ redis \in [Servers -> {"connect", "sleep", "take", "get", "full"}]
        /\ cmd \in [Servers -> Command \cup {NoCommand}] /\ done \in [Servers -> 0 .. 2]
    BY DEF Inv, TypeOK
  <2>2. CASE kept
    <3>1. /\ cmd' = [cmd EXCEPT ![z] = x] /\ done' = [done EXCEPT ![z] = 0]
          /\ redis' = [redis EXCEPT ![z] = "get"]
      BY <2>2 DEF take
    <3> QED
      BY <1>q, <2>1, <3>1
  <2>3. CASE ~kept
    BY <2>1, <2>3, <1>f
  <2> QED
    BY <2>2, <2>3
<1> HIDE DEF q
<1>0. /\ redis_order_'[z] = Tail(q)
      /\ \A s \in Servers \ {z} : redis_order_'[s] = redis_order_[s]
      /\ Tail(q) \in Seq(Command) /\ Len(Tail(q)) = Len(q) - 1 /\ Len(q) >= 1 /\ Len(q) \in Nat
      /\ DOMAIN Tail(q) = 1 .. Len(q) - 1 /\ DOMAIN q = 1 .. Len(q)
      /\ \A i \in 1 .. Len(q) - 1 : Tail(q)[i] = q[i + 1]
      /\ x = q[1] /\ x \in Command /\ 1 \in DOMAIN q
  BY <1>q, <1>f, TailFacts
<1>x. /\ x.cid \in Conns /\ x.tid \in Nat
      /\ server(x.cid) = z /\ Asked(x.cid, x.tid)
  BY <1>0, TxnAssumption DEF Inv, QueueOK, Command, q
<1> HIDE DEF x, kept
\* Every command still in a queue was there before, in the same order.
<1>t. \A s \in Servers : \A j \in DOMAIN redis_order_'[s] :
        \E l \in DOMAIN redis_order_[s] :
          /\ redis_order_'[s][j] = redis_order_[s][l]
          /\ \A i \in 1 .. j - 1 : \E m \in 1 .. l - 1 : redis_order_'[s][i] = redis_order_[s][m]
  <2>1. ASSUME NEW j \in DOMAIN redis_order_'[z]
        PROVE  /\ j + 1 \in DOMAIN q /\ redis_order_'[z][j] = q[j + 1]
               /\ \A i \in 1 .. j - 1 : i + 1 \in 1 .. (j + 1) - 1 /\ redis_order_'[z][i] = q[i + 1]
    BY <1>0
  <2>2. \A s \in Servers \ {z} : \A j \in DOMAIN redis_order_'[s] :
          /\ j \in DOMAIN redis_order_[s] /\ redis_order_'[s][j] = redis_order_[s][j]
          /\ \A i \in 1 .. j - 1 : redis_order_'[s][i] = redis_order_[s][i]
    BY <1>0
  <2>3. \A j \in DOMAIN redis_order_'[z] :
        \E l \in DOMAIN redis_order_[z] :
          /\ redis_order_'[z][j] = redis_order_[z][l]
          /\ \A i \in 1 .. j - 1 : \E m \in 1 .. l - 1 : redis_order_'[z][i] = redis_order_[z][m]
    BY <2>1 DEF q
  <2>4. \A s \in Servers \ {z} : \A j \in DOMAIN redis_order_'[s] :
        \E l \in DOMAIN redis_order_[s] :
          /\ redis_order_'[s][j] = redis_order_[s][l]
          /\ \A i \in 1 .. j - 1 : \E m \in 1 .. l - 1 : redis_order_'[s][i] = redis_order_[s][m]
    BY <2>2
  <2> QED
    BY <2>3, <2>4
\* What is left in the queue of z comes after the command taken.
<1>r. \A j \in DOMAIN redis_order_'[z] : redis_order_'[z][j].cid = x.cid => x.tid < redis_order_'[z][j].tid
  <2> SUFFICES ASSUME NEW j \in DOMAIN redis_order_'[z], redis_order_'[z][j].cid = x.cid
               PROVE  x.tid < redis_order_'[z][j].tid
    OBVIOUS
  <2>1. j + 1 \in DOMAIN q /\ redis_order_'[z][j] = q[j + 1] /\ 1 \in 1 .. (j + 1) - 1
    BY <1>0
  <2>2. InQueue(z, x.cid)
    BY <1>x DEF Inv, QueueOrder
  <2> QED
    BY <2>1, <2>2, <1>0 DEF InQueue, q
<1>w. \A s \in Servers, c \in Conns :
        /\ s # z \/ c # x.cid \/ ~kept => (Works(s, c)' <=> Works(s, c))
        /\ Works(s, c) => s # z /\ Works(s, c)' /\ cmd'[s] = cmd[s] /\ done'[s] = done[s]
        /\ Works(s, c)' => \/ Works(s, c)
                           \/ /\ s = z /\ c = x.cid /\ kept
                              /\ cmd'[s] = x /\ done'[s] = 0 /\ \A p \in Servers : ~Works(p, c)
  <2>1. \A p \in Servers : ~Works(p, x.cid)
    BY <1>f, <1>x DEF Inv, CommandOK, Works
  <2> QED
    BY <2>1, <1>f DEF Works
<1>1. TypeOK'
  <2>1. redis_order_' \in [Servers -> Seq(Command)]
    BY <1>0, <1>q, <1>f
  <2>2. \A s \in Servers : Len(redis_order_'[s]) <= OrderCap
    BY <1>0, CapAssumption DEF Inv, TypeOK, q
  <2> QED
    BY <2>1, <2>2, <1>f, <1>g DEF Inv, TypeOK
<1>2. KnownOK' /\ ReplyOK' /\ RepliesMatch'
  BY <1>f DEF Inv, KnownOK, ReplyOK, Asked, RepliesMatch
<1>3. CommandOK'
  BY <1>f, <1>x, <1>0 DEF Inv, CommandOK, Asked
<1>4. QueueOK'
  BY <1>t, <1>f DEF Inv, QueueOK, Asked
<1>5. ChannelOrder'
  BY <1>f, <1>w DEF Inv, ChannelOrder, InChannel
<1>6. CoroutineOrder'
  <2> SUFFICES ASSUME NEW c \in Conns, NEW s \in Servers, Works(s, c)', redis_reply_[c] # <<>>
               PROVE  Follows(redis_reply_[c][Len(redis_reply_[c])], Upcoming(s)')
    BY <1>f DEF CoroutineOrder, InCoroutine
  <2>1. CASE Works(s, c)
    <3>1. Upcoming(s)' = Upcoming(s)
      BY <2>1, <1>w DEF Upcoming
    <3> QED
      BY <2>1, <3>1 DEF Inv, CoroutineOrder, InCoroutine
  <2>2. CASE ~Works(s, c)
    <3>1. s = z /\ c = x.cid /\ Upcoming(s)' = [tid |-> x.tid, k |-> 1] /\ \A p \in Servers : ~Works(p, c)
      BY <2>2, <1>w DEF Upcoming
    <3>2. redis_reply_[c][Len(redis_reply_[c])].k = 2
      BY <3>1 DEF Inv, ChannelOrder, InChannel
    <3>3. Len(redis_reply_[c]) \in DOMAIN redis_reply_[c]
      <4>1. redis_reply_[c] \in Seq(Reply)
        BY DEF Inv, TypeOK
      <4> QED
        BY <4>1, EmptyLen
    <3>4. redis_reply_[c][Len(redis_reply_[c])].tid < x.tid
      BY <3>1, <3>3, <1>0 DEF Inv, QueueOrder, InQueue, q
    <3> QED
      BY <3>1, <3>2, <3>4 DEF Follows
  <2> QED
    BY <2>1, <2>2
<1>7. QueueOrder'
  <2> SUFFICES ASSUME NEW c \in Conns, NEW s \in Servers,
                      NEW j \in DOMAIN redis_order_'[s], redis_order_'[s][j].cid = c
               PROVE  /\ \A i \in DOMAIN redis_reply_[c] : redis_reply_[c][i].tid < redis_order_'[s][j].tid
                      /\ Works(s, c)' => cmd'[s].tid < redis_order_'[s][j].tid
                      /\ \A i \in 1 .. j - 1 : redis_order_'[s][i].cid = c =>
                           redis_order_'[s][i].tid < redis_order_'[s][j].tid
    BY <1>f DEF QueueOrder, InQueue
  <2>1. PICK l \in DOMAIN redis_order_[s] :
          /\ redis_order_'[s][j] = redis_order_[s][l]
          /\ \A i \in 1 .. j - 1 : \E m \in 1 .. l - 1 : redis_order_'[s][i] = redis_order_[s][m]
    BY <1>t
  <2>2. InQueue(s, c)
    BY DEF Inv, QueueOrder
  <2>3. Works(s, c)' => cmd'[s].tid < redis_order_'[s][j].tid
    BY <2>1, <2>2, <1>w, <1>r DEF InQueue
  <2> QED
    BY <2>1, <2>2, <2>3 DEF InQueue
<1>8. Expected'
  <2> SUFFICES ASSUME NEW c \in Conns, at[c] \in {"pop1", "pop2"} PROVE StillToCome(c)'
    BY <1>f DEF Expected
  <2>1. StillToCome(c) /\ c \in known
    BY DEF Inv, Expected, KnownOK
  <2>2. ASSUME NEW s \in Servers, NEW j \in DOMAIN redis_order_[s],
               redis_order_[s][j] = [cid |-> c, tid |-> tid[c]]
        PROVE  StillToCome(c)'
    <3>1. CASE s = z /\ j = 1
      <4>1. x = [cid |-> c, tid |-> tid[c]] /\ kept
        BY <3>1, <2>2, <2>1, <1>0 DEF q, kept
      <4>2. Works(z, c)' /\ cmd'[z].tid = tid[c]
        BY <4>1, <1>f DEF Works
      <4> QED
        BY <4>2, <1>f DEF StillToCome
    <3>2. CASE s = z /\ j # 1
      <4>1. j - 1 \in DOMAIN redis_order_'[z] /\ redis_order_'[z][j - 1] = [cid |-> c, tid |-> tid[c]]
        <5>1. j \in 1 .. Len(q) /\ j # 1 /\ q[j] = [cid |-> c, tid |-> tid[c]]
          BY <3>2, <2>2, <1>0 DEF q
        <5>2. j - 1 \in 1 .. Len(q) - 1 /\ (j - 1) + 1 = j
          BY <5>1, <1>0
        <5> QED
          BY <5>1, <5>2, <1>0
      <4> QED
        BY <4>1, <1>f DEF StillToCome
    <3>3. CASE s # z
      BY <3>3, <2>2, <1>0, <1>f DEF StillToCome
    <3> QED
      BY <3>1, <3>2, <3>3
  <2>3. ASSUME NEW s \in Servers, Works(s, c), cmd[s].tid = tid[c] PROVE StillToCome(c)'
    BY <2>3, <1>w, <1>f DEF StillToCome
  <2> QED
    BY <2>1, <2>2, <2>3, <1>f DEF StillToCome
<1>9. FirstToCome'
  BY <1>w, <1>f DEF Inv, FirstToCome
<1>10. Quiet'
  <2> SUFFICES ASSUME NEW c \in Conns, ~late[c], at[c] \notin {"pop1", "pop2"}
               PROVE  /\ redis_reply_[c] = <<>>
                      /\ \A s \in Servers :
                           /\ ~Works(s, c)'
                           /\ \A j \in DOMAIN redis_order_'[s] : redis_order_'[s][j].cid # c
    BY <1>f DEF Quiet
  <2>1. /\ redis_reply_[c] = <<>>
        /\ \A s \in Servers : /\ ~Works(s, c)
                              /\ \A j \in DOMAIN redis_order_[s] : redis_order_[s][j].cid # c
    BY DEF Inv, Quiet
  <2>2. c # x.cid
    BY <2>1, <1>0 DEF q
  <2> QED
    BY <2>1, <2>2, <1>t, <1>w
<1>11. Matching'
  <2> SUFFICES ASSUME NEW c \in Conns, ~late[c], at[c] \in {"pop1", "pop2"}
               PROVE  /\ \A i \in DOMAIN redis_reply_[c] : redis_reply_[c][i].tid = tid[c]
                      /\ redis_reply_[c] # <<>> => redis_reply_[c][1].k = Due(c)
                      /\ \A s \in Servers :
                           /\ Works(s, c)' =>
                                /\ cmd'[s].tid = tid[c]
                                /\ redis_reply_[c] = <<>> => Upcoming(s)'.k = Due(c)
                           /\ \A j \in DOMAIN redis_order_'[s] : redis_order_'[s][j].cid = c =>
                                redis_order_'[s][j].tid = tid[c] /\ at[c] = "pop1"
    BY <1>f DEF Matching, Due
  <2>1. /\ \A i \in DOMAIN redis_reply_[c] : redis_reply_[c][i].tid = tid[c]
        /\ redis_reply_[c] # <<>> => redis_reply_[c][1].k = Due(c)
        /\ \A s \in Servers :
             /\ Works(s, c) => /\ cmd[s].tid = tid[c]
                               /\ redis_reply_[c] = <<>> => Upcoming(s).k = Due(c)
             /\ \A j \in DOMAIN redis_order_[s] : redis_order_[s][j].cid = c =>
                  redis_order_[s][j].tid = tid[c] /\ at[c] = "pop1"
    BY DEF Inv, Matching
  <2>2. ASSUME NEW s \in Servers, Works(s, c)'
        PROVE  cmd'[s].tid = tid[c] /\ (redis_reply_[c] = <<>> => Upcoming(s)'.k = Due(c))
    <3>1. CASE Works(s, c)
      BY <3>1, <2>1, <1>w DEF Upcoming
    <3>2. CASE ~Works(s, c)
      <4>1. s = z /\ c = x.cid /\ cmd'[s] = x /\ done'[s] = 0
        BY <3>2, <2>2, <1>w
      <4>2. x.tid = tid[c] /\ at[c] = "pop1"
        BY <4>1, <2>1, <1>0 DEF q
      <4> QED
        BY <4>1, <4>2 DEF Upcoming, Due
    <3> QED
      BY <3>1, <3>2
  <2>3. \A s \in Servers : \A j \in DOMAIN redis_order_'[s] : redis_order_'[s][j].cid = c =>
          redis_order_'[s][j].tid = tid[c] /\ at[c] = "pop1"
    BY <2>1, <1>t
  <2> QED
    BY <2>1, <2>2, <2>3
<1> QED
  BY <1>1, <1>2, <1>3, <1>4, <1>5, <1>6, <1>7, <1>8, <1>9, <1>10, <1>11 DEF Inv

\* The coroutine hands a reply on, finds the channel full or finds it gone.
LEMMA PushReplyInv ==
  ASSUME Inv, NEW z \in Servers, redis[z] \in {"get", "full"}, push(z),
         err' \in [Servers -> BOOLEAN], UNCHANGED <<redis_order_, known, connVars, cmd>>
  PROVE  Inv'
<1> DEFINE d == cmd[z].cid
           q == redis_reply_[d]
           x == [tid |-> cmd[z].tid, k |-> done[z] + 1, null |-> err'[z]]
<1>d. /\ d \in Conns /\ cmd[z].tid \in 1 .. MaxTxn /\ cmd[z].tid \in Nat /\ done[z] \in {0, 1}
      /\ server(d) = z /\ Asked(d, cmd[z].tid) /\ cmd[z] \in Command
      /\ Works(z, d) /\ \A s \in Servers : Works(s, d) => s = z
  BY TxnAssumption DEF Inv, TypeOK, CommandOK, Command, Works
<1>1. CASE d \notin known /\ fault' = TRUE /\ UNCHANGED <<redis_reply_, done, redis>>
  <2>1. redis' \in [Servers -> {"connect", "sleep", "take", "get", "full"}]
    BY <1>1 DEF Inv, TypeOK
  <2> QED
    BY <1>1, <2>1, SameWorkInv DEF connVars
<1>2. CASE redis[z] = "get" /\ redis' = [redis EXCEPT ![z] = "full"] /\ UNCHANGED <<redis_reply_, done, fault>>
  <2>1. /\ redis' \in [Servers -> {"connect", "sleep", "take", "get", "full"}]
        /\ fault' \in BOOLEAN
        /\ \A s \in Servers : redis'[s] \in {"get", "full"} <=> redis[s] \in {"get", "full"}
    BY <1>2 DEF Inv, TypeOK
  <2> QED
    BY <1>2, <2>1, SameWorkInv DEF connVars
<1>3. CASE /\ d \in known /\ Len(q) < ReplyCap
           /\ redis_reply_' = [redis_reply_ EXCEPT ![d] = Append(q, x)]
           /\ done' = [done EXCEPT ![z] = done[z] + 1]
           /\ redis' = [redis EXCEPT ![z] = IF done'[z] < 2 THEN "get"
                                            ELSE IF err'[z] THEN "connect" ELSE "take"]
           /\ fault' = fault
  <2>q. /\ q \in Seq(Reply) /\ redis_reply_ \in [Conns -> Seq(Reply)]
        /\ x \in Reply /\ x.tid = cmd[z].tid /\ x.k = done[z] + 1
    <3>1. q \in Seq(Reply) /\ redis_reply_ \in [Conns -> Seq(Reply)]
      BY <1>d DEF Inv, TypeOK
    <3>2. x \in Reply
      BY <1>d DEF Reply
    <3> QED
      BY <3>1, <3>2
  <2>f. /\ UNCHANGED <<redis_order_, known, at, tid, r, late, cmd>>
        /\ done' \in [Servers -> 0 .. 2] /\ done'[z] = done[z] + 1
        /\ redis' \in [Servers -> {"connect", "sleep", "take", "get", "full"}]
        /\ \A s \in Servers \ {z} : redis'[s] = redis[s] /\ done'[s] = done[s]
        /\ done[z] = 0 => redis'[z] = "get"
        /\ done[z] = 1 => redis'[z] \notin {"get", "full"}
    BY <1>3, <1>d DEF Inv, TypeOK, connVars
  <2> HIDE DEF q, x
  <2>0. /\ redis_reply_'[d] = Append(q, x)
        /\ \A c \in Conns \ {d} : redis_reply_'[c] = redis_reply_[c]
        /\ Append(q, x) \in Seq(Reply) /\ Append(q, x) # <<>>
        /\ Len(Append(q, x)) = Len(q) + 1 /\ Len(q) \in Nat
        /\ DOMAIN Append(q, x) = 1 .. Len(q) + 1 /\ DOMAIN q = 1 .. Len(q)
        /\ \A i \in 1 .. Len(q) : Append(q, x)[i] = q[i]
        /\ Append(q, x)[Len(q) + 1] = x
    BY <1>3, <2>q, <1>d, AppendFacts
  <2>e. q = <<>> <=> Len(q) = 0
    BY <2>q, EmptyLen
  <2>w. /\ \A s \in Servers, c \in Conns : c # d => (Works(s, c)' <=> Works(s, c))
        /\ \A s \in Servers \ {z}, c \in Conns :
             Works(s, c)' => Works(s, c) /\ Upcoming(s)' = Upcoming(s)
        /\ \A s \in Servers : Works(s, d)' => s = z /\ done[z] = 0 /\ done'[z] = 1
        /\ Works(z, d)' <=> done[z] = 0
    BY <2>f, <1>d DEF Works, Upcoming
  <2>1. TypeOK'
    <3>1. redis_reply_' \in [Conns -> Seq(Reply)]
      BY <1>3, <2>0, <2>q
    <3>2. \A c \in Conns : Len(redis_reply_'[c]) <= ReplyCap
      <4>1. Len(redis_reply_'[d]) <= ReplyCap
        BY <2>0, <1>3, CapAssumption
      <4> QED
        BY <4>1, <2>0 DEF Inv, TypeOK
    <3> QED
      BY <3>1, <3>2, <2>f, <1>3 DEF Inv, TypeOK
  <2>2. KnownOK' /\ RepliesMatch'
    BY <2>f, <2>0, <1>3 DEF Inv, KnownOK, RepliesMatch
  <2>3. CommandOK' /\ QueueOK'
    BY <2>f, <1>d DEF Inv, CommandOK, QueueOK, Asked
  <2>4. ReplyOK'
    <3>1. \A i \in DOMAIN redis_reply_'[d] : Asked(d, redis_reply_'[d][i].tid)
      BY <2>0, <2>q, <1>d DEF Inv, ReplyOK, q
    <3> QED
      BY <3>1, <2>0, <2>f DEF Inv, ReplyOK, Asked
  <2>5. q # <<>> => Follows(q[Len(q)], x)
    BY <1>d, <2>q DEF Inv, CoroutineOrder, InCoroutine, Follows, Upcoming, q
  <2>6. ChannelOrder'
    <3>1. InChannel(d)'
      <4>1. \A i \in 1 .. Len(q) : Follows(Append(q, x)[i], Append(q, x)[i + 1])
        <5> TAKE i \in 1 .. Len(q)
        <5>1. CASE i = Len(q)
          BY <5>1, <2>5, <2>0, <2>e
        <5>2. CASE i # Len(q)
          <6>a. InChannel(d)
            BY <1>d DEF Inv, ChannelOrder
          <6>b. i \in 1 .. Len(q) - 1
            <7>1. Len(q) \in Nat
              BY <2>0
            <7> QED
              BY <5>2, <7>1
          <6>1. Follows(q[i], q[i + 1])
            BY <6>a, <6>b DEF InChannel, q
          <6>2. Append(q, x)[i] = q[i] /\ Append(q, x)[i + 1] = q[i + 1]
            BY <5>2, <2>0
          <6> QED
            BY <6>1, <6>2
        <5> QED
          BY <5>1, <5>2
      <4>2. x.k = 2 \/ Works(z, d)'
        BY <2>w, <2>q, <1>d
      <4> QED
        BY <4>1, <4>2, <2>0 DEF InChannel
    <3>2. \A c \in Conns \ {d} : InChannel(c)'
      BY <2>0, <2>w DEF Inv, ChannelOrder, InChannel
    <3> QED
      BY <3>1, <3>2 DEF ChannelOrder
  <2>7. CoroutineOrder'
    <3> SUFFICES ASSUME NEW c \in Conns, NEW s \in Servers PROVE InCoroutine(s, c)'
      BY DEF CoroutineOrder
    <3>1. CASE c = d
      <4>1. Works(s, d)' => Upcoming(s)' = [tid |-> cmd[z].tid, k |-> 2] /\ x.k = 1
        BY <2>w, <2>f, <2>q DEF Upcoming
      <4>2. redis_reply_'[d][Len(redis_reply_'[d])] = x
        BY <2>0
      <4> QED
        BY <3>1, <4>1, <4>2, <2>q DEF InCoroutine, Follows
    <3>2. CASE c # d
      <4>1. Works(s, c)' => Works(s, c) /\ s # z
        BY <3>2, <2>w, <1>d DEF Works
      <4> QED
        BY <3>2, <4>1, <2>w, <2>0 DEF Inv, CoroutineOrder, InCoroutine
    <3> QED
      BY <3>1, <3>2
  <2>8. QueueOrder'
    <3> SUFFICES ASSUME NEW c \in Conns, NEW s \in Servers PROVE InQueue(s, c)'
      BY DEF QueueOrder
    <3>0. InQueue(s, c)
      BY DEF Inv, QueueOrder
    <3>1. CASE c = d
      <4>1. \A j \in DOMAIN redis_order_[s] : redis_order_[s][j].cid = d =>
              s = z /\ x.tid < redis_order_[s][j].tid
        BY <3>0, <3>1, <1>d, <2>q DEF Inv, QueueOK, InQueue
      <4>2. \A i \in DOMAIN redis_reply_'[d] :
              \/ i \in DOMAIN q /\ redis_reply_'[d][i] = q[i]
              \/ redis_reply_'[d][i] = x
        BY <2>0
      <4>3. Works(s, d)' => Works(s, d)
        BY <2>w, <1>d
      <4> QED
        BY <3>0, <3>1, <4>1, <4>2, <4>3, <2>f DEF InQueue, q
    <3>2. CASE c # d
      BY <3>0, <3>2, <2>w, <2>0, <2>f DEF InQueue
    <3> QED
      BY <3>1, <3>2
  <2>9. Expected'
    <3> SUFFICES ASSUME NEW c \in Conns, at[c] \in {"pop1", "pop2"} PROVE StillToCome(c)'
      BY <2>f DEF Expected
    <3>0. StillToCome(c)
      BY DEF Inv, Expected
    <3>1. CASE c = d
      <4>0. redis_reply_'[d] # <<>> /\ redis_reply_'[d][Len(redis_reply_'[d])] = x
        BY <2>0
      <4>1. CASE cmd[z].tid = tid[d]
        <5>1. CASE done[z] = 0
          BY <3>1, <4>1, <5>1, <2>w, <2>f DEF StillToCome
        <5>2. CASE done[z] = 1
          BY <3>1, <4>0, <4>1, <5>2, <2>q, <2>f DEF StillToCome
        <5> QED
          BY <5>1, <5>2, <1>d
      <4>2. CASE cmd[z].tid # tid[d]
        <5>1. ~(q # <<>> /\ q[Len(q)].tid = tid[d] /\ q[Len(q)].k = 2)
          <6> SUFFICES ASSUME q # <<>>, q[Len(q)].tid = tid[d], q[Len(q)].k = 2 PROVE FALSE
            OBVIOUS
          <6>1. q[Len(q)].tid < x.tid
            BY <2>5 DEF Follows
          <6> QED
            BY <6>1, <2>q, <1>d, ElementTypes DEF Asked, Inv
        <5>2. \A s \in Servers : ~(Works(s, d) /\ cmd[s].tid = tid[d])
          BY <4>2, <1>d
        <5>3. \E s \in Servers : \E j \in DOMAIN redis_order_[s] :
                redis_order_[s][j] = [cid |-> d, tid |-> tid[d]]
          BY <5>1, <5>2, <3>0, <3>1 DEF StillToCome, q
        <5> QED
          BY <5>3, <3>1, <2>f DEF StillToCome
      <4> QED
        BY <4>1, <4>2
    <3>2. CASE c # d
      BY <3>0, <3>2, <2>w, <2>0, <2>f DEF StillToCome
    <3> QED
      BY <3>1, <3>2
  <2>10. FirstToCome'
    <3> SUFFICES ASSUME NEW c \in Conns, at[c] = "pop1"
                 PROVE  LET p == redis_reply_'[c]
                        IN  /\ p # <<>> /\ p[Len(p)].tid = tid[c] /\ p[Len(p)].k = 2 => Len(p) >= 2
                            /\ \A s \in Servers :
                                 Works(s, c)' /\ cmd[s].tid = tid[c] /\ done'[s] = 1 => p # <<>>
      BY <2>f DEF FirstToCome
    <3>1. CASE c = d
      <4>1. redis_reply_'[d] # <<>> /\ redis_reply_'[d][Len(redis_reply_'[d])] = x
            /\ Len(redis_reply_'[d]) = Len(q) + 1
        BY <2>0
      <4>2. x.tid = tid[d] /\ x.k = 2 => Len(q) >= 1
        <5> HAVE x.tid = tid[d] /\ x.k = 2
        <5>1. cmd[z].tid = tid[d] /\ done[z] = 1
          BY <2>q, <1>d
        <5>2. q # <<>>
          BY <5>1, <3>1, <1>d DEF Inv, FirstToCome, q
        <5> QED
          BY <5>2, <2>e, <2>0
      <4> QED
        BY <3>1, <4>1, <4>2, <2>0
    <3>2. CASE c # d
      <4>1. \A s \in Servers : Works(s, c)' => Works(s, c) /\ s # z /\ done'[s] = done[s]
        BY <3>2, <2>w, <2>f, <1>d DEF Works
      <4> QED
        BY <3>2, <4>1, <2>0 DEF Inv, FirstToCome
    <3> QED
      BY <3>1, <3>2
  <2>11. Quiet'
    <3> SUFFICES ASSUME NEW c \in Conns, ~late[c], at[c] \notin {"pop1", "pop2"}
                 PROVE  /\ redis_reply_'[c] = <<>>
                        /\ \A s \in Servers :
                             /\ ~Works(s, c)'
                             /\ \A j \in DOMAIN redis_order_[s] : redis_order_[s][j].cid # c
      BY <2>f DEF Quiet
    <3>1. c # d
      BY <1>d DEF Inv, Quiet
    <3> QED
      BY <3>1, <2>0, <2>w DEF Inv, Quiet
  <2>12. Matching'
    <3> SUFFICES ASSUME NEW c \in Conns, ~late[c], at[c] \in {"pop1", "pop2"}
                 PROVE  /\ \A i \in DOMAIN redis_reply_'[c] : redis_reply_'[c][i].tid = tid[c]
                        /\ redis_reply_'[c] # <<>> => redis_reply_'[c][1].k = Due(c)
                        /\ \A s \in Servers :
                             /\ Works(s, c)' =>
                                  /\ cmd[s].tid = tid[c]
                                  /\ redis_reply_'[c] = <<>> => Upcoming(s)'.k = Due(c)
                             /\ \A j \in DOMAIN redis_order_[s] : redis_order_[s][j].cid = c =>
                                  redis_order_[s][j].tid = tid[c] /\ at[c] = "pop1"
      BY <2>f DEF Matching, Due
    <3>0. /\ \A i \in DOMAIN redis_reply_[c] : redis_reply_[c][i].tid = tid[c]
          /\ redis_reply_[c] # <<>> => redis_reply_[c][1].k = Due(c)
          /\ \A s \in Servers :
               /\ Works(s, c) => /\ cmd[s].tid = tid[c]
                                 /\ redis_reply_[c] = <<>> => Upcoming(s).k = Due(c)
               /\ \A j \in DOMAIN redis_order_[s] : redis_order_[s][j].cid = c =>
                    redis_order_[s][j].tid = tid[c] /\ at[c] = "pop1"
      BY DEF Inv, Matching
    <3>1. CASE c = d
      <4>1. x.tid = tid[d]
        BY <3>0, <3>1, <1>d, <2>q
      <4>2. \A i \in DOMAIN redis_reply_'[d] : redis_reply_'[d][i].tid = tid[d]
        BY <3>0, <3>1, <4>1, <2>0 DEF q
      <4>3. redis_reply_'[d][1].k = Due(d)
        <5>1. CASE q = <<>>
          <6>1. redis_reply_'[d][1] = x
            BY <5>1, <2>0, <2>e
          <6>2. x.k = Upcoming(z).k
            BY <2>q DEF Upcoming
          <6> QED
            BY <6>1, <6>2, <5>1, <3>0, <3>1, <1>d DEF q
        <5>2. CASE q # <<>>
          <6>1. redis_reply_'[d][1] = q[1]
            BY <5>2, <2>0, <2>e
          <6> QED
            BY <6>1, <5>2, <3>0, <3>1 DEF q
        <5> QED
          BY <5>1, <5>2
      <4>4. \A s \in Servers : Works(s, d)' => cmd[s].tid = tid[d]
        BY <2>w, <3>0, <3>1, <1>d
      <4> QED
        BY <3>0, <3>1, <4>2, <4>3, <4>4, <2>0
    <3>2. CASE c # d
      <4>1. \A s \in Servers : Works(s, c)' => Works(s, c) /\ Upcoming(s)' = Upcoming(s)
        <5> SUFFICES ASSUME NEW s \in Servers, Works(s, c)' PROVE Works(s, c) /\ Upcoming(s)' = Upcoming(s)
          OBVIOUS
        <5>1. Works(s, c) /\ s # z
          BY <3>2, <2>w, <1>d DEF Works
        <5> QED
          BY <5>1, <2>w
      <4> QED
        BY <3>0, <3>2, <4>1, <2>0
    <3> QED
      BY <3>1, <3>2
  <2> QED
    BY <2>1, <2>2, <2>3, <2>4, <2>6, <2>7, <2>8, <2>9, <2>10, <2>11, <2>12 DEF Inv
<1> QED
  BY <1>1, <1>2, <1>3 DEF push, next_reply

LEMMA NextInv ==
  ASSUME Inv, [Next]_vars
  PROVE  Inv'
<1>1. CASE UNCHANGED vars
  <2>1. UNCHANGED <<redis_order_, redis_reply_, known, at, tid, r, late, cmd, done, redis, err, fault>>
    BY <1>1 DEF vars, connVars, redisVars
  <2>2. /\ redis' \in [Servers -> {"connect", "sleep", "take", "get", "full"}]
        /\ err' \in [Servers -> BOOLEAN] /\ fault' \in BOOLEAN
    BY <2>1 DEF Inv, TypeOK
  <2> QED
    BY <2>1, <2>2, SameWorkInv
<1>2. ASSUME NEW c \in Conns, connection(c) PROVE Inv'
  BY <1>2, InitConnInv, ExitConnInv, RequestInv, PushOrderInv, PopInv DEF connection, handler
<1>3. ASSUME NEW s \in Servers, coroutine(s) PROVE Inv'
  <2>1. CASE connect(s) \/ co_sleep(s)
    BY <2>1, ReconnectInv
  <2>2. CASE take(s)
    BY <2>2, TakeInv
  <2>3. CASE redisGetReply(s)
    <3>1. err' \in [Servers -> BOOLEAN]
      <4>1. err \in [Servers -> BOOLEAN]
        BY DEF Inv, TypeOK
      <4> QED
        BY <2>3, <4>1 DEF redisGetReply
    <3> QED
      BY <2>3, <3>1, PushReplyInv DEF redisGetReply
  <2>4. CASE push_goes_on(s)
    <3>1. err' \in [Servers -> BOOLEAN]
      BY <2>4 DEF push_goes_on, Inv, TypeOK
    <3> QED
      BY <2>4, <3>1, PushReplyInv DEF push_goes_on
  <2> QED
    BY <1>3, <2>1, <2>2, <2>3, <2>4 DEF coroutine
<1> QED
  BY <1>1, <1>2, <1>3 DEF Next

LEMMA InvAlways == Spec => []Inv
  BY InitInv, NextInv, PTL DEF Spec

\* The order of the replies follows from the invariant.
LEMMA InvOrder == Inv => RepliesInOrder
<1> SUFFICES ASSUME Inv, NEW c \in known
             PROVE  /\ InChannel(c)
                    /\ \A s \in Servers : InCoroutine(s, c) /\ InQueue(s, c)
                    /\ at[c] \in {"pop1", "pop2"} => StillToCome(c)
  BY DEF RepliesInOrder
<1>1. c \in Conns
  BY DEF Inv, TypeOK
<1> QED
  BY <1>1 DEF Inv, ChannelOrder, CoroutineOrder, QueueOrder, Expected
-----------------------------------------------------------------------------
(* The theorems *)

\* For any number of connections and servers and any capacities of the channels,
\* redis_order_ and redis_reply_ hold what they are declared to hold and never
\* more than their capacity, and a coroutine hands on at most two replies to a
\* command.
THEOREM RedisTypes == Spec => []TypeOK
<1>1. Inv => TypeOK
  BY DEF Inv
<1> QED
  BY <1>1, InvAlways, PTL

\* Whatever times out or fails, the replies in the channel of a connection, those
\* its server's coroutine works on and those in the queue are in the order of its
\* commands, and the reply a waiting handler needs has not been lost.
THEOREM RedisOrder == Spec => []RepliesInOrder
  BY InvAlways, InvOrder, PTL

\* A handler none of whose pops has timed out answers with the replies to its own
\* request: the first pop gets that of the SET, the second that of the GET.
THEOREM RedisMatch == Spec => []RepliesMatch
<1>1. Inv => RepliesMatch
  BY DEF Inv
<1> QED
  BY <1>1, InvAlways, PTL
=============================================================================
