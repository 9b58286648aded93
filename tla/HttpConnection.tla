--------------------------- MODULE HttpConnection ---------------------------
(***************************************************************************)
(* One connection of a worker: the coroutine that runs                     *)
(* http_connection::parse() (server.cpp), its codec (codecs.cpp), its      *)
(* receive buffers (iobufs.hpp), its two timers, and the peer.             *)
(*                                                                         *)
(* The worker's scheduler is single threaded: the coroutine runs on until  *)
(* it waits for the socket or inside a handler, and the callback of a      *)
(* timer runs only while it waits.  A byte of the peer's stream is only    *)
(* counted; what the bytes say is chosen when the parser begins a request, *)
(* from Requests.                                                          *)
(***************************************************************************)
EXTENDS Integers, Sequences

CONSTANTS
  iobuf_size,        \* Memory.ChunkSize
  max_header_size,   \* Connection.MaxHeaderSize
  max_body_size,     \* Connection.MaxBodySize
  LifeTimer,         \* FALSE: Connection.LifeTimer is -1
  Requests,          \* the requests a peer may send
  Window             \* bytes the kernel keeps for the socket until they are read

\* hdr counts the bytes up to and including the LF that ends the header, body
\* those after it; bad is the position of the first malformed byte, or 0.
Request == [hdr : Nat \ {0}, body : Nat, bad : Nat]

ASSUME SizeAssumption ==
  /\ iobuf_size \in Nat \ {0}
  /\ max_header_size \in Nat
  /\ max_body_size \in Nat
ASSUME RequestAssumption == Requests \subseteq Request
ASSUME LifeAssumption == LifeTimer \in BOOLEAN
ASSUME WindowAssumption == Window \in Nat

VARIABLES
  pc,        \* where the coroutine is, see Points
  phase,     \* which of the two receive loops of process_request
  reqbuf,    \* the receive buffers, oldest first: write and read cursor of each
  size,      \* header_size and body_size
  msg, got,  \* the request being parsed and how many of its bytes are consumed
  idle, life,\* the two timers: "armed" or "off"
  sock,      \* the socket: "open", "shut" down by a timer, "closed"
  peer,      \* the peer: "up", "fin" (no more data), "rst"
  arrived,   \* bytes sent by the peer and not yet read from the socket
  unparsed,  \* (history) bytes read from the socket and not yet parsed
  why,       \* why the connection was given up
  handlers,  \* calls made to the modules: "none", "init", "exit"
  worker     \* "running", or how an exception got out of it

peerVars == <<peer, arrived>>
dataVars == <<reqbuf, size, msg, got, unparsed>>
vars == <<pc, phase, dataVars, idle, life, sock, peerVars, why, handlers, worker>>

\* "request": head of the loop of parse().  "parse": before decoder.parse().
\* "read", "handler", "write": waiting there.
Points == {"accepted", "request", "parse", "read", "handler", "write", "gone"}
Yields == {"read", "handler", "write"}
-----------------------------------------------------------------------------
(* iobufs.hpp *)

iobuf_init == [w |-> 0, r |-> 0]
r_len(io) == io.w - io.r
w_available(io) == iobuf_size - io.w

Back == reqbuf[Len(reqbuf)]
SetBack(io) == [reqbuf EXCEPT ![Len(reqbuf)] = io]

\* Defect: every buffer is released after a request, read or not.
Trim_all(q) == <<>>

\* The buffers from the first one on that still holds unread bytes.
Trim(q) ==
  LET unread == {i \in DOMAIN q : r_len(q[i]) # 0}
  IN  IF unread = {} THEN <<>>
      ELSE SubSeq(q, CHOOSE i \in unread : \A j \in unread : i <= j, Len(q))
-----------------------------------------------------------------------------
(* codecs.cpp *)

\* of_headers_complete() returns 100, so the parser stops in front of the LF
\* that ends the header, which stays unread; of_message_complete() returns 100,
\* so it stops behind the last byte of the request.
StopAt == IF phase = "header" THEN msg.hdr - 1 ELSE msg.hdr + msg.body

\* How far the unread bytes of the last buffer let the parser come.
Reach == IF r_len(Back) < StopAt - got THEN r_len(Back) ELSE StopAt - got

\* The outcome of decoder.parse(iov): a parse error; the header or the message
\* has completed; the bytes consumed.
Malformed == msg.bad > got /\ msg.bad <= got + Reach
Completed == ~Malformed /\ (IF phase = "header" THEN r_len(Back) > StopAt - got
                                               ELSE r_len(Back) >= StopAt - got)
nparsed == IF Malformed THEN msg.bad - 1 - got ELSE Reach
-----------------------------------------------------------------------------
(* The connection *)

NoBytes == [p \in {"header", "body"} |-> 0]

Init ==
  /\ pc = "accepted" /\ phase = "header"
  /\ reqbuf = <<>> /\ size = NoBytes
  /\ msg \in Requests /\ got = 0
  /\ idle = "off" /\ life = "off"
  /\ sock = "open" /\ peer = "up"
  /\ arrived = 0 /\ unparsed = 0
  /\ why = "none" /\ handlers = "none" /\ worker = "running"

At(p) == worker = "running" /\ pc = p

\* process_request() returns false, parse() returns, and with the coroutine the
\* last reference to the connection goes: ~http_connection().
Destroy(reason) ==
  /\ pc' = "gone" /\ why' = reason
  /\ reqbuf' = <<>>
  /\ idle' = "off" /\ life' = "off"
  /\ sock' = "closed"
  /\ handlers' = "exit"
  /\ UNCHANGED worker

\* The constructor, in the coroutine of http_service::start().
http_connection ==
  /\ At("accepted")
  /\ handlers' = "init"
  /\ IF peer = "rst"
     THEN /\ worker' = "terminated"       \* remote_endpoint() throws
          /\ UNCHANGED <<pc, life>>
     ELSE /\ life' = IF LifeTimer THEN "armed" ELSE "off"
          /\ pc' = "request"
          /\ UNCHANGED worker
  /\ UNCHANGED <<phase, dataVars, idle, sock, peerVars, why>>

\* The head of the loop of parse() and the start of process_request().
process_request ==
  /\ At("request")
  /\ reqbuf' = IF reqbuf = <<>> THEN <<iobuf_init>> ELSE reqbuf
  /\ msg' \in Requests /\ got' = 0
  /\ size' = NoBytes
  /\ phase' = "header"
  /\ idle' = "armed"                        \* start_timer()
  /\ pc' = "parse"
  /\ UNCHANGED <<unparsed, life, sock, peerVars, why, handlers, worker>>

\* Defect: a buffer is acquired for every read.
no_room_always == TRUE

no_room == w_available(Back) <= 0

\* decoder.parse(iov) and what follows it up to the next wait.
parse ==
  /\ At("parse")
  /\ got' = got + nparsed
  /\ unparsed' = unparsed - nparsed
  /\ LET q == SetBack([Back EXCEPT !.r = @ + nparsed])
     IN  \/ Malformed /\ Destroy("malformed")
         \/ /\ Completed
            /\ reqbuf' = q
            /\ idle' = "off"                \* pause_timer()
            /\ pc' = "handler"
            /\ UNCHANGED <<life, sock, why, handlers, worker>>
         \/ /\ ~Malformed /\ ~Completed
            /\ reqbuf' = IF no_room THEN Append(q, iobuf_init) ELSE q
            /\ pc' = "read"
            /\ UNCHANGED <<idle, life, sock, why, handlers, worker>>
  /\ UNCHANGED <<phase, msg, size, peerVars>>

\* Defect: the limit is off by one.
Limit_plus_one == 1 + (IF phase = "header" THEN max_header_size ELSE max_body_size)

Limit == IF phase = "header" THEN max_header_size ELSE max_body_size

\* Defect: read_some() is given the size of the buffer, not the room in it.
read_some_overruns(n) ==
  /\ At("read") /\ n <= arrived
  /\ arrived' = arrived - n /\ unparsed' = unparsed + n
  /\ size' = [size EXCEPT ![phase] = @ + n]
  /\ reqbuf' = SetBack([Back EXCEPT !.w = @ + n])
  /\ pc' = "parse"
  /\ UNCHANGED <<phase, msg, got, idle, life, sock, peer, why, handlers, worker>>

\* read_some() returns n bytes.
read_some(n) ==
  /\ At("read")
  /\ n <= arrived /\ n <= w_available(Back)
  /\ arrived' = arrived - n /\ unparsed' = unparsed + n
  /\ size' = [size EXCEPT ![phase] = @ + n]
  /\ IF size[phase] + n > Limit
     THEN Destroy(phase)
     ELSE /\ reqbuf' = SetBack([Back EXCEPT !.w = @ + n])
          /\ pc' = "parse"
          /\ UNCHANGED <<idle, life, sock, why, handlers, worker>>
  /\ UNCHANGED <<phase, msg, got, peer>>

\* read_some() reports an error or the end of the stream.  Data that arrived
\* before the end is delivered first; a reset may discard it.
read_fails ==
  /\ At("read")
  /\ \/ peer = "rst"
     \/ arrived = 0 /\ (peer = "fin" \/ sock = "shut")
  /\ Destroy("eof")
  /\ UNCHANGED <<phase, size, msg, got, unparsed, peerVars>>

\* Defect: the idle timer is not started again after the handler.
handler_returns_unguarded ==
  /\ At("handler")
  /\ IF phase = "header"
     THEN phase' = "body" /\ pc' = "parse"
     ELSE pc' = "write" /\ UNCHANGED phase
  /\ UNCHANGED <<dataVars, idle, life, sock, peerVars, why, handlers, worker>>

\* on_request_header() or on_request_body() returns; a module that does not
\* handle the event is one that returns at once.
handler_returns ==
  /\ At("handler")
  /\ IF phase = "header"
     THEN phase' = "body" /\ pc' = "parse"
     ELSE pc' = "write" /\ UNCHANGED phase
  /\ idle' = "armed"                        \* start_timer()
  /\ UNCHANGED <<dataVars, life, sock, peerVars, why, handlers, worker>>

\* on_request_header() or on_request_body() throws.  parse() catches a
\* system_error; any other exception, such as the runtime_error of
\* http_response, leaves the coroutine and ends the worker.
handler_throws ==
  /\ At("handler")
  /\ \/ Destroy("thrown")
     \/ /\ worker' = "terminated"
        /\ UNCHANGED <<pc, reqbuf, idle, life, sock, why, handlers>>
  /\ UNCHANGED <<phase, size, msg, got, unparsed, peerVars>>

\* process_request() returns true, and the loop of parse() goes on.
KeepAlive ==
  /\ pc' = "request"
  /\ idle' = "off"                         \* pause_timer()
  /\ reqbuf' = Trim(reqbuf)
  /\ UNCHANGED <<life, sock, why, handlers, worker>>

\* The response is written, and the module's response.keep_alive() is alive.
write(alive) ==
  /\ At("write")
  /\ sock = "open" /\ peer # "rst"
  /\ IF alive THEN KeepAlive ELSE Destroy("close")
  /\ UNCHANGED <<phase, size, msg, got, unparsed, peerVars>>

\* No module, or one that has written nothing: asio::write() of no buffers succeeds
\* on any socket, and keep_alive() is what the constructor set.
write_nothing ==
  /\ At("write")
  /\ KeepAlive
  /\ UNCHANGED <<phase, size, msg, got, unparsed, peerVars>>

write_fails ==
  /\ At("write")
  /\ sock = "shut" \/ peer = "rst"
  /\ Destroy("write")
  /\ UNCHANGED <<phase, size, msg, got, unparsed, peerVars>>

\* shutdown() in the callback of a timer.  On a socket that is no longer
\* connected (reset, or closed by both sides, which the last acknowledgement
\* decides) it throws ENOTCONN; the exception leaves the scheduler's RunLoop()
\* and the worker's loop is lost.
shutdown ==
  /\ \/ /\ peer = "rst" \/ (sock = "shut" /\ peer = "fin")
        /\ worker' = "escaped" /\ UNCHANGED sock
     \/ /\ peer # "rst"
        /\ sock' = "shut" /\ UNCHANGED worker
  /\ UNCHANGED <<pc, phase, dataVars, peerVars, why, handlers>>

\* Defect: the callback logs the idle connection and does not shut it down.
on_idle_expired_logs ==
  /\ worker = "running" /\ pc \in Yields
  /\ idle = "armed" /\ idle' = "off"
  /\ UNCHANGED <<pc, phase, dataVars, life, sock, peerVars, why, handlers, worker>>

on_idle_expired ==
  /\ worker = "running" /\ pc \in Yields
  /\ idle = "armed" /\ idle' = "off"
  /\ shutdown /\ UNCHANGED life

\* Defect: the same of the other callback.
on_life_expired_logs ==
  /\ worker = "running" /\ pc \in Yields
  /\ life = "armed" /\ life' = "off"
  /\ UNCHANGED <<pc, phase, dataVars, idle, sock, peerVars, why, handlers, worker>>

on_life_expired ==
  /\ worker = "running" /\ pc \in Yields
  /\ life = "armed" /\ life' = "off"
  /\ shutdown /\ UNCHANGED idle
-----------------------------------------------------------------------------
(* The peer *)

\* For ever, if it likes.  What reaches a socket that is shut down is answered
\* with a reset, see peer_closes.
peer_sends(n) ==
  /\ peer = "up" /\ sock = "open" /\ arrived + n <= Window
  /\ arrived' = arrived + n
  /\ UNCHANGED <<pc, phase, dataVars, idle, life, sock, peer, why, handlers, worker>>

peer_closes ==
  /\ sock # "closed"
  /\ \/ peer = "up" /\ peer' = "fin"
     \/ peer # "rst" /\ peer' = "rst"
  /\ UNCHANGED <<pc, phase, dataVars, idle, life, sock, arrived, why, handlers, worker>>
-----------------------------------------------------------------------------
coroutine ==
  \/ http_connection \/ process_request \/ parse
  \/ \E n \in 1 .. iobuf_size : read_some(n)
  \/ read_fails \/ handler_returns \/ handler_throws \/ write_fails

timers == on_idle_expired \/ on_life_expired

Next ==
  \/ coroutine
  \/ write_nothing \/ \E alive \in BOOLEAN : write(alive)
  \/ timers
  \/ \E n \in 1 .. iobuf_size : peer_sends(n)
  \/ peer_closes

Spec == Init /\ [][Next]_vars

\* The scheduler runs every coroutine that can go on, and the idle timer when it
\* is due.  Nothing is assumed of the peer: it may stop sending, send for ever,
\* or never read the response, in which case write() waits; nor, here, of the
\* life timer, which the configuration may turn off.
FairSpec == Spec /\ WF_vars(coroutine) /\ WF_vars(on_idle_expired)
-----------------------------------------------------------------------------
(* Properties *)

Iobuf == {io \in [w : 0 .. iobuf_size, r : 0 .. iobuf_size] : io.r <= io.w}

TypeOK ==
  /\ pc \in Points /\ phase \in {"header", "body"}
  /\ reqbuf \in Seq(Iobuf)
  /\ size \in [{"header", "body"} -> Nat]
  /\ msg \in Requests /\ got \in 0 .. msg.hdr + msg.body
  /\ idle \in {"armed", "off"} /\ life \in {"armed", "off"}
  /\ sock \in {"open", "shut", "closed"} /\ peer \in {"up", "fin", "rst"}
  /\ arrived \in 0 .. Window /\ unparsed \in Nat
  /\ why \in {"none", "malformed", "header", "body", "eof", "thrown", "close", "write"}
  /\ handlers \in {"none", "init", "exit"}
  /\ worker \in {"running", "terminated", "escaped"}

Unread == IF reqbuf = <<>> THEN 0 ELSE r_len(Back)

\* decoder.parse() only ever looks at the last buffer, and parse() frees the
\* buffers in front of it.  No byte of the stream is skipped or dropped that
\* way: what was read and not yet parsed is the unread part of the last buffer,
\* pipelined requests included.
NoByteLost == pc # "gone" => unparsed = Unread

\* server.hpp: the idle timer runs only while a request or response is being
\* transferred, never in a module's handler; every wait for the peer is guarded
\* by it, unless a timer has shut the socket down already; and no timer
\* outlives the connection its callback is bound to.
TimersGuardTransfers ==
  worker = "running" =>
    /\ pc = "handler" => idle = "off"
    /\ pc \in {"read", "write"} => idle = "armed" \/ sock = "shut"
    /\ pc = "gone" => idle = "off" /\ life = "off"

\* The buffers one connection can hold, whatever the peer sends.
MemoryBounded ==
  Len(reqbuf) <= 2 + (max_header_size + max_body_size) \div iobuf_size

\* Bytes left over from the read that completed the previous part are not
\* counted, so both limits can be exceeded, but by less than one buffer.
LimitsHold ==
  pc = "handler" =>
    IF phase = "header" THEN msg.hdr < max_header_size + iobuf_size
                        ELSE msg.body < max_body_size + iobuf_size

Lost == worker # "running"

\* server.hpp: the idle timer makes sure that a request or a response is
\* transferred.  Whatever the peer does, a coroutine that waits for a part of a
\* request, or for the response to be taken, gets to the module's handler or to
\* the next request, or the connection is destroyed (or the worker lost).
TransfersEnd ==
  pc \in {"read", "write"} ~> pc \in {"handler", "request", "gone"} \/ Lost

\* server.hpp: the life timer limits the time of a connection.  Whatever the peer
\* does, one that sends requests without end included, the connection is
\* destroyed at last, if the life timer is on and runs once it is due: a worker
\* whose coroutines never have to wait does not run its timers.
LifeEnds ==
  LifeTimer /\ SF_vars(on_life_expired) => <>(pc = "gone" \/ Lost)

\* server.cpp: an expired timer removes the connection, and nothing else.
TimerRemovesConnectionOnly == worker # "escaped"
=============================================================================
