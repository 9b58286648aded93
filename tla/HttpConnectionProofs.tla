------------------------ MODULE HttpConnectionProofs ------------------------
(***************************************************************************)
(* Proofs about a connection for every buffer size, limit, set of requests *)
(* and receive window.                                                     *)
(***************************************************************************)
EXTENDS HttpConnection, SequenceTheorems, TLAPS

Live == pc \in {"parse", "read", "handler", "write"}

\* Every buffer but the last is full and read to its end.
Drained(q) ==
  \A i \in 1 .. Len(q) - 1 : q[i] = [w |-> iobuf_size, r |-> iobuf_size]

\* Between two requests only the last buffer is left, and a read has room.
BuffersInv ==
  /\ Live => reqbuf # <<>>
  /\ pc \in {"accepted", "gone"} => reqbuf = <<>>
  /\ pc = "request" => Len(reqbuf) <= 1
  /\ Drained(reqbuf)
  /\ pc = "read" => Back.w < iobuf_size

\* The parser never runs past the point at which its callback stops it, and the
\* buffer in which a request ends holds at least one byte of that request.
ParserInv ==
  /\ Live /\ phase = "header" => got <= msg.hdr - 1
  /\ Live /\ phase = "body" => got >= msg.hdr - 1
  /\ pc \in {"parse", "read"} /\ phase = "body" => got < msg.hdr + msg.body
  /\ pc = "write" => phase = "body"
  /\ (pc \in {"write", "request"} \/ (pc = "handler" /\ phase = "body"))
       /\ reqbuf # <<>> => Back.r >= 1
  /\ pc = "handler" =>
       IF phase = "header" THEN got = msg.hdr - 1 /\ r_len(Back) >= 1
                           ELSE got = msg.hdr + msg.body

\* Up to one buffer less one byte of a part arrives uncounted, with the part
\* before it; everything else is counted in size, which stays within the limit.
SizeInv ==
  Live =>
    /\ size["header"] <= max_header_size /\ size["body"] <= max_body_size
    /\ phase = "header" =>
         /\ size["body"] = 0
         /\ got + r_len(Back) < size["header"] + iobuf_size
    /\ phase = "body" =>
         got + r_len(Back) < msg.hdr + size["body"] + iobuf_size
    /\ Len(reqbuf) >= 2 =>
         (Len(reqbuf) - 2) * iobuf_size + Back.w <= size["header"] + size["body"]

TimerInv ==
  /\ worker = "running" /\ pc = "parse" => idle = "armed" \/ sock = "shut"
  /\ pc = "accepted" => idle = "off" /\ life = "off"
  /\ pc # "gone" => sock # "closed"

IInv ==
  /\ TypeOK /\ NoByteLost /\ TimersGuardTransfers
  /\ BuffersInv /\ ParserInv /\ SizeInv /\ TimerInv
-----------------------------------------------------------------------------
(* Buffers *)

\* A buffer is well formed if its cursors are in order and in range.
LEMMA IobufDef ==
  ASSUME NEW w \in 0 .. iobuf_size, NEW r \in 0 .. w
  PROVE  [w |-> w, r |-> r] \in Iobuf
BY SizeAssumption DEF Iobuf

LEMMA IobufFields ==
  ASSUME NEW io \in Iobuf
  PROVE  /\ io = [w |-> io.w, r |-> io.r]
         /\ io.w \in 0 .. iobuf_size /\ io.r \in 0 .. io.w
BY SizeAssumption DEF Iobuf

\* Changing the last buffer leaves the others alone.
LEMMA SetLast ==
  ASSUME NEW q \in Seq(Iobuf), q # <<>>, NEW io \in Iobuf
  PROVE  LET s == [q EXCEPT ![Len(q)] = io]
         IN  /\ s \in Seq(Iobuf) /\ Len(s) = Len(q) /\ s # <<>>
             /\ s[Len(s)] = io
             /\ Drained(q) => Drained(s)
<1>. DEFINE s == [q EXCEPT ![Len(q)] = io]
<1>1. Len(q) \in Nat /\ Len(q) \in 1 .. Len(q)  BY EmptySeq, LenProperties
<1>2. s \in Seq(Iobuf) /\ Len(s) = Len(q)
      /\ \A i \in 1 .. Len(q) : s[i] = IF i = Len(q) THEN io ELSE q[i]
  BY <1>1, ExceptSeq
<1>. HIDE DEF s
<1>3. s # <<>>  BY <1>1, <1>2, EmptySeq
<1>4. Drained(q) => Drained(s)  BY <1>1, <1>2 DEF Drained
<1>5. s[Len(s)] = io  BY <1>1, <1>2
<1>. QED  BY <1>2, <1>3, <1>4, <1>5 DEF s

\* A new buffer goes behind one that is full and read to its end.
LEMMA AddLast ==
  ASSUME NEW q \in Seq(Iobuf), q # <<>>, Drained(q),
         q[Len(q)] = [w |-> iobuf_size, r |-> iobuf_size]
  PROVE  LET s == Append(q, iobuf_init)
         IN  /\ s \in Seq(Iobuf) /\ Len(s) = Len(q) + 1 /\ s # <<>>
             /\ s[Len(s)] = iobuf_init
             /\ Drained(s)
<1>. DEFINE s == Append(q, iobuf_init)
<1>1. iobuf_init \in Iobuf  BY IobufDef, SizeAssumption DEF iobuf_init
<1>2. /\ s \in Seq(Iobuf) /\ Len(s) = Len(q) + 1
      /\ \A i \in 1 .. Len(q) : s[i] = q[i]
      /\ s[Len(q) + 1] = iobuf_init
  BY <1>1, AppendProperties
<1>3. Len(q) \in Nat  BY LenProperties
<1>. HIDE DEF s
<1>4. s # <<>>  BY <1>2, <1>3, EmptySeq
<1>5. Drained(s)  BY <1>2, <1>3 DEF Drained
<1>. QED  BY <1>2, <1>3, <1>4, <1>5 DEF s

LEMMA Singleton ==
  ASSUME NEW s \in Seq(Iobuf), NEW x \in Iobuf, Len(s) = 1, s[1] = x
  PROVE  s = <<x>>
<1>. DEFINE t == <<x>>
<1>1. t \in Seq(Iobuf) /\ Len(t) = 1 /\ t[1] = x  OBVIOUS
<1>. HIDE DEF t
<1>2. \A i \in 1 .. Len(s) : s[i] = t[i]  BY <1>1
<1>3. s = t  BY <1>1, <1>2, SeqEqual
<1>. QED  BY <1>3 DEF t

LEMMA OneBuffer ==
  ASSUME NEW x \in Iobuf
  PROVE  /\ <<x>> \in Seq(Iobuf) /\ Len(<<x>>) = 1 /\ <<x>> # <<>>
         /\ <<x>>[1] = x /\ <<x>>[Len(<<x>>)] = x /\ Drained(<<x>>)
<1>. DEFINE t == <<x>>
<1>1. t \in Seq(Iobuf) /\ Len(t) = 1 /\ t[1] = x  OBVIOUS
<1>. HIDE DEF t
<1>2. t # <<>>  BY <1>1, EmptySeq
<1>3. Drained(t)  BY <1>1 DEF Drained
<1>. QED  BY <1>1, <1>2, <1>3 DEF t

\* After a request only the last buffer can be left, with its unread bytes.
LEMMA TrimLast ==
  ASSUME NEW q \in Seq(Iobuf), q # <<>>, Drained(q)
  PROVE  IF r_len(q[Len(q)]) = 0 THEN Trim(q) = <<>>
                                 ELSE Trim(q) = <<q[Len(q)]>>
<1>. DEFINE n == Len(q)
            unread == {i \in DOMAIN q : r_len(q[i]) # 0}
<1>1. n \in Nat \ {0} /\ DOMAIN q = 1 .. n  BY EmptySeq, LenProperties
<1>2. \A i \in 1 .. n - 1 : r_len(q[i]) = 0
  BY SizeAssumption DEF Drained, r_len
<1>3. CASE r_len(q[n]) = 0
  <2>1. unread = {}  BY <1>1, <1>2, <1>3
  <2>. QED  BY <1>3, <2>1 DEF Trim
<1>4. CASE r_len(q[n]) # 0
  <2>1. unread = {n}  BY <1>1, <1>2, <1>4
  <2>2. (CHOOSE i \in {n} : \A j \in {n} : i <= j) = n  BY <1>1
  <2>3. Trim(q) = SubSeq(q, n, n)
    <3>1. unread # {}  BY <2>1
    <3>2. Trim(q) = SubSeq(q, CHOOSE i \in unread : \A j \in unread : i <= j, n)
      BY <3>1 DEF Trim
    <3>. HIDE DEF unread
    <3>. QED  BY <3>2, <2>1, <2>2
  <2>4. SubSeq(q, n, n) = <<q[n]>>
    <3>1. n \in 1 .. Len(q) + 1 /\ n \in n - 1 .. Len(q)  BY <1>1
    <3>2. /\ SubSeq(q, n, n) \in Seq(Iobuf) /\ Len(SubSeq(q, n, n)) = n - n + 1
          /\ \A i \in 1 .. n - n + 1 : SubSeq(q, n, n)[i] = q[n + i - 1]
      BY <3>1, SubSeqProperties
    <3>3. Len(SubSeq(q, n, n)) = 1 /\ SubSeq(q, n, n)[1] = q[n]
      BY <1>1, <3>2
    <3>4. q[n] \in Iobuf  BY <1>1, ElementOfSeq
    <3>. QED  BY <3>2, <3>3, <3>4, Singleton
  <2>. QED  BY <1>4, <2>3, <2>4
<1>. QED  BY <1>3, <1>4
-----------------------------------------------------------------------------
(* The inductive step, action by action *)

\* The part of TypeOK that the destructor does not set.
DataOK ==
  /\ phase \in {"header", "body"} /\ size \in [{"header", "body"} -> Nat]
  /\ msg \in Requests /\ got \in 0 .. msg.hdr + msg.body
  /\ peer \in {"up", "fin", "rst"}
  /\ arrived \in 0 .. Window /\ unparsed \in Nat

LEMMA InitIInv ==
  ASSUME Init  PROVE IInv
<1>1. reqbuf = <<>> /\ Len(reqbuf) = 0 /\ reqbuf \in Seq(Iobuf)
  BY EmptySeq DEF Init
<1>2. TypeOK
  <2>1. msg \in Requests /\ msg.hdr \in Nat /\ msg.body \in Nat
    BY RequestAssumption DEF Init, Request
  <2>2. got \in 0 .. msg.hdr + msg.body  BY <2>1 DEF Init
  <2>3. size \in [{"header", "body"} -> Nat]  BY DEF Init, NoBytes
  <2>4. arrived \in 0 .. Window /\ unparsed \in Nat
    BY WindowAssumption DEF Init
  <2>. QED  BY <1>1, <2>1, <2>2, <2>3, <2>4 DEF Init, TypeOK, Points
<1>3. Drained(<<>>)  BY EmptySeq DEF Drained
<1>4. BuffersInv /\ ParserInv /\ SizeInv
  BY <1>1, <1>3 DEF Init, BuffersInv, ParserInv, SizeInv, Live
<1>5. NoByteLost  BY DEF Init, NoByteLost, Unread
<1>6. TimersGuardTransfers /\ TimerInv  BY DEF Init, TimersGuardTransfers, TimerInv
<1>. QED  BY <1>2, <1>4, <1>5, <1>6 DEF IInv

LEMMA DestroyIInv ==
  ASSUME IInv, DataOK',
         NEW reason \in {"malformed", "header", "body", "eof", "thrown", "close", "write"},
         Destroy(reason)
  PROVE  IInv'
<1>1. reqbuf' = <<>> /\ Len(reqbuf') = 0 /\ reqbuf' \in Seq(Iobuf) /\ pc' = "gone"
  BY EmptySeq DEF Destroy
<1>2. TypeOK'
  BY <1>1 DEF IInv, TypeOK, DataOK, Destroy, Points
<1>3. (BuffersInv /\ ParserInv /\ SizeInv)'
  BY <1>1 DEF BuffersInv, Drained, ParserInv, SizeInv, Live
<1>. QED
  BY <1>1, <1>2, <1>3
  DEF IInv, NoByteLost, TimersGuardTransfers, TimerInv, Destroy

LEMMA ConstructIInv ==
  ASSUME IInv, http_connection  PROVE IInv'
<1>. USE DEF http_connection, At, dataVars, peerVars
<1>1. TypeOK'  BY LifeAssumption DEF IInv, TypeOK, Points
<1>2. NoByteLost'  BY DEF IInv, NoByteLost, Unread, Back
<1>3. TimersGuardTransfers' /\ TimerInv'
  BY DEF IInv, TimersGuardTransfers, TimerInv
<1>4. BuffersInv'  BY DEF IInv, BuffersInv, Live, Back
<1>5. SizeInv'  BY DEF IInv, SizeInv, Live
<1>6. ParserInv'
  <2>1. reqbuf = <<>>  BY DEF IInv, BuffersInv
  <2>. QED  BY <2>1 DEF ParserInv, Live
<1>. QED  BY <1>1, <1>2, <1>3, <1>4, <1>5, <1>6 DEF IInv

\* What the typing of the state says of the request and of the last buffer.
LEMMA MsgType ==
  ASSUME TypeOK
  PROVE  /\ msg.hdr \in Nat \ {0} /\ msg.body \in Nat /\ msg.bad \in Nat
         /\ got \in Nat /\ size["header"] \in Nat /\ size["body"] \in Nat
         /\ arrived \in Nat /\ unparsed \in Nat
         /\ Len(reqbuf) \in Nat
<1>1. msg \in Request  BY RequestAssumption DEF TypeOK
<1>2. msg.hdr \in Nat \ {0} /\ msg.body \in Nat /\ msg.bad \in Nat
  BY <1>1 DEF Request
<1>3. Len(reqbuf) \in Nat  BY LenProperties DEF TypeOK
<1>. QED  BY <1>2, <1>3, WindowAssumption DEF TypeOK

LEMMA BackType ==
  ASSUME TypeOK, reqbuf # <<>>
  PROVE  /\ Back \in Iobuf /\ Back = [w |-> Back.w, r |-> Back.r]
         /\ Back.w \in 0 .. iobuf_size /\ Back.r \in 0 .. Back.w
         /\ r_len(Back) = Back.w - Back.r /\ r_len(Back) \in 0 .. iobuf_size
         /\ Len(reqbuf) \in Nat \ {0}
<1>1. Len(reqbuf) \in Nat \ {0}  BY EmptySeq DEF TypeOK
<1>2. Back \in Iobuf  BY <1>1, ElementOfSeq DEF TypeOK, Back
<1>3. /\ Back = [w |-> Back.w, r |-> Back.r]
      /\ Back.w \in 0 .. iobuf_size /\ Back.r \in 0 .. Back.w
  BY <1>2, IobufFields
<1>. QED  BY <1>1, <1>2, <1>3, SizeAssumption DEF r_len

LEMMA ProcessRequestIInv ==
  ASSUME IInv, process_request  PROVE IInv'
<1>1. /\ pc = "request" /\ pc' = "parse" /\ phase' = "header" /\ got' = 0
      /\ idle' = "armed" /\ msg' \in Requests /\ size' = NoBytes
      /\ reqbuf' = IF reqbuf = <<>> THEN <<iobuf_init>> ELSE reqbuf
      /\ unparsed' = unparsed /\ worker' = worker
      /\ sock' = sock /\ life' = life /\ peer' = peer /\ arrived' = arrived
      /\ why' = why /\ handlers' = handlers
  BY DEF process_request, At, peerVars
<1>2. reqbuf' \in Seq(Iobuf) /\ Len(reqbuf') = 1 /\ reqbuf' # <<>> /\ Drained(reqbuf')
      /\ r_len(Back') = Unread /\ Unread \in 0 .. iobuf_size - 1
  <2>1. CASE reqbuf = <<>>
    <3>1. iobuf_init \in Iobuf  BY IobufDef, SizeAssumption DEF iobuf_init
    <3>2. reqbuf' = <<iobuf_init>>  BY <1>1, <2>1
    <3>3. Back' = iobuf_init  BY <3>1, <3>2, OneBuffer DEF Back
    <3>4. r_len(Back') = 0  BY <3>3 DEF r_len, iobuf_init
    <3>. QED  BY <2>1, <3>1, <3>2, <3>4, OneBuffer, SizeAssumption DEF Unread
  <2>2. CASE reqbuf # <<>>
    <3>1. reqbuf' = reqbuf  BY <1>1, <2>2
    <3>2. Len(reqbuf) \in Nat \ {0} /\ Len(reqbuf) <= 1
      BY <1>1, <2>2, BackType DEF IInv, BuffersInv
    <3>3. Drained(reqbuf) /\ Back.r >= 1  BY <1>1, <2>2 DEF IInv, BuffersInv, ParserInv
    <3>4. r_len(Back) \in 0 .. iobuf_size - 1
      BY <2>2, <3>3, BackType, SizeAssumption DEF IInv
    <3>5. Back' = Back  BY <3>1 DEF Back
    <3>6. reqbuf \in Seq(Iobuf)  BY DEF IInv, TypeOK
    <3>7. Len(reqbuf) = 1
      <4>1. \A n \in Nat \ {0} : n <= 1 => n = 1  OBVIOUS
      <4>. QED  BY <3>2, <4>1
    <3>8. Unread = r_len(Back)  BY <2>2 DEF Unread
    <3>. QED  BY <2>2, <3>1, <3>3, <3>4, <3>5, <3>6, <3>7, <3>8
  <2>. QED  BY <2>1, <2>2
<1>3. msg'.hdr \in Nat \ {0} /\ msg'.body \in Nat
  BY <1>1, RequestAssumption DEF Request
<1>4. size' \in [{"header", "body"} -> Nat] /\ size'["header"] = 0 /\ size'["body"] = 0
  BY <1>1 DEF NoBytes
<1>5. TypeOK'  BY <1>1, <1>2, <1>3, <1>4 DEF IInv, TypeOK, Points
<1>6. NoByteLost'
  <2>1. Unread' = Unread  BY <1>2 DEF Unread
  <2>. QED  BY <1>1, <2>1 DEF IInv, NoByteLost
<1>7. TimersGuardTransfers' /\ TimerInv'
  BY <1>1 DEF IInv, TimersGuardTransfers, TimerInv
<1>8. BuffersInv'  BY <1>1, <1>2 DEF BuffersInv
<1>9. ParserInv'  BY <1>1, <1>3 DEF ParserInv
<1>10. SizeInv'
  <2>1. got' + r_len(Back') < size'["header"] + iobuf_size
    BY <1>1, <1>2, <1>4, SizeAssumption
  <2>2. ~(Len(reqbuf') >= 2)  BY <1>2
  <2>. QED  BY <1>1, <1>4, <2>1, <2>2, SizeAssumption DEF SizeInv
<1>. QED  BY <1>5, <1>6, <1>7, <1>8, <1>9, <1>10 DEF IInv

\* What decoder.parse() consumes: no more than is unread, and nothing past the
\* point at which a callback stops it.
LEMMA ParseBounds ==
  ASSUME IInv, pc = "parse"
  PROVE  /\ reqbuf # <<>> /\ StopAt \in Nat /\ got \in Nat /\ got <= StopAt
         /\ nparsed \in 0 .. r_len(Back) /\ got + nparsed <= StopAt
         /\ Completed => got + nparsed = StopAt
         /\ Completed /\ phase = "header" => nparsed < r_len(Back)
         /\ Completed /\ phase = "body" => nparsed >= 1
         /\ ~Malformed /\ ~Completed => nparsed = r_len(Back)
         /\ ~Malformed /\ ~Completed /\ phase = "body" => got + nparsed < StopAt
<1>1. reqbuf # <<>>  BY DEF IInv, BuffersInv, Live
<1>2. r_len(Back) \in Nat  BY <1>1, BackType, SizeAssumption DEF IInv
<1>3. got \in Nat /\ msg.hdr \in Nat \ {0} /\ msg.body \in Nat /\ msg.bad \in Nat
  BY MsgType DEF IInv
<1>4. phase \in {"header", "body"} /\ got <= msg.hdr + msg.body  BY <1>3 DEF IInv, TypeOK
<1>5. StopAt \in Nat /\ got <= StopAt /\ (phase = "body" => got < StopAt)
  BY <1>3, <1>4 DEF StopAt, IInv, ParserInv, Live
<1>. DEFINE u == r_len(Back)
<1>. HIDE DEF u
<1>6. u = r_len(Back) /\ u \in Nat  BY <1>2 DEF u
<1>7. Reach \in 0 .. u /\ got + Reach <= StopAt
      /\ (u >= StopAt - got => got + Reach = StopAt)
      /\ (u < StopAt - got => Reach = u)
  BY <1>3, <1>5, <1>6 DEF Reach
<1>8. nparsed \in 0 .. u /\ got + nparsed <= StopAt /\ (~Malformed => nparsed = Reach)
  BY <1>3, <1>5, <1>6, <1>7 DEF nparsed, Malformed
<1>9. Completed => ~Malformed /\ u >= StopAt - got
      /\ (phase = "header" => u > StopAt - got)
  BY <1>3, <1>5, <1>6 DEF Completed
<1>10. ~Malformed /\ ~Completed => u < StopAt - got \/ (u = StopAt - got /\ phase # "body")
  BY <1>3, <1>5, <1>6 DEF Completed
<1>. QED  BY <1>1, <1>3, <1>5, <1>6, <1>7, <1>8, <1>9, <1>10

LEMMA ParseIInv ==
  ASSUME IInv, parse  PROVE IInv'
<1>. DEFINE io == [w |-> Back.w, r |-> Back.r + nparsed]
            q  == [reqbuf EXCEPT ![Len(reqbuf)] = io]
<1>1. /\ worker = "running" /\ pc = "parse"
      /\ got' = got + nparsed /\ unparsed' = unparsed - nparsed
      /\ phase' = phase /\ msg' = msg /\ size' = size
      /\ peer' = peer /\ arrived' = arrived
  BY DEF parse, At, peerVars
<1>2. /\ reqbuf # <<>> /\ StopAt \in Nat /\ got \in Nat /\ got <= StopAt
      /\ nparsed \in 0 .. r_len(Back) /\ got + nparsed <= StopAt
  BY <1>1, ParseBounds
<1>3. /\ msg.hdr \in Nat \ {0} /\ msg.body \in Nat /\ unparsed \in Nat
      /\ size["header"] \in Nat /\ size["body"] \in Nat /\ Len(reqbuf) \in Nat \ {0}
  BY <1>2, MsgType, BackType DEF IInv
<1>4. /\ Back = [w |-> Back.w, r |-> Back.r]
      /\ Back.w \in 0 .. iobuf_size /\ Back.r \in 0 .. Back.w
      /\ r_len(Back) = Back.w - Back.r /\ r_len(Back) \in 0 .. iobuf_size
  BY <1>2, BackType DEF IInv
<1>5. unparsed = r_len(Back)
  BY <1>1, <1>2 DEF IInv, NoByteLost, Unread
<1>6. phase \in {"header", "body"} /\ StopAt = IF phase = "header" THEN msg.hdr - 1
                                                              ELSE msg.hdr + msg.body
  BY DEF IInv, TypeOK, StopAt
<1>7. DataOK'
  <2>1. got' \in 0 .. msg'.hdr + msg'.body  BY <1>1, <1>2, <1>3, <1>6
  <2>2. unparsed' \in Nat
    <3>1. nparsed \in Nat /\ r_len(Back) \in Nat /\ nparsed <= r_len(Back)
      BY <1>2, <1>4, SizeAssumption
    <3>. QED  BY <1>1, <1>3, <1>5, <3>1
  <2>. QED  BY <1>1, <2>1, <2>2 DEF IInv, TypeOK, DataOK
<1>8. CASE Malformed /\ Destroy("malformed")
  BY <1>7, <1>8, DestroyIInv
<1>9. /\ io \in Iobuf /\ io.w = Back.w /\ io.r = Back.r + nparsed
      /\ r_len(io) = r_len(Back) - nparsed
  BY <1>2, <1>4, IobufDef, SizeAssumption DEF r_len
<1>10. [Back EXCEPT !.r = @ + nparsed] = io  BY <1>4
<1>. HIDE DEF io
<1>11. /\ q \in Seq(Iobuf) /\ Len(q) = Len(reqbuf) /\ q # <<>>
       /\ q[Len(q)] = io /\ Drained(q)
  BY <1>2, <1>9, SetLast DEF IInv, TypeOK, BuffersInv
<1>12. SetBack([Back EXCEPT !.r = @ + nparsed]) = q  BY <1>10 DEF SetBack
<1>. HIDE DEF q
<1>13. CASE /\ Completed /\ reqbuf' = q /\ idle' = "off" /\ pc' = "handler"
            /\ UNCHANGED <<life, sock, why, handlers, worker>>
  <2>1. Back' = io  BY <1>11, <1>13 DEF Back
  <2>2. TypeOK'  BY <1>1, <1>7, <1>11, <1>13 DEF IInv, TypeOK, DataOK, Points
  <2>3. NoByteLost'
    <3>1. Unread' = r_len(Back) - nparsed  BY <1>9, <1>11, <1>13, <2>1 DEF Unread
    <3>2. unparsed' = Unread'  BY <1>1, <1>2, <1>3, <1>4, <1>5, <3>1
    <3>. QED  BY <3>2 DEF NoByteLost
  <2>4. TimersGuardTransfers' /\ TimerInv'
    BY <1>1, <1>13 DEF IInv, TimersGuardTransfers, TimerInv
  <2>5. BuffersInv'  BY <1>11, <1>13 DEF BuffersInv
  <2>6. ParserInv'
    <3>1. got' = StopAt  BY <1>1, <1>13, ParseBounds
    <3>2. phase = "header" => r_len(io) >= 1
      BY <1>1, <1>2, <1>4, <1>9, <1>13, ParseBounds
    <3>3. phase = "body" => io.r >= 1
      BY <1>1, <1>2, <1>4, <1>9, <1>13, ParseBounds
    <3>. QED  BY <1>1, <1>3, <1>6, <1>13, <2>1, <3>1, <3>2, <3>3 DEF ParserInv
  <2>7. SizeInv'
    <3>1. got' + r_len(io) = got + r_len(Back)  BY <1>1, <1>2, <1>4, <1>9
    <3>. QED  BY <1>1, <1>9, <1>11, <1>13, <2>1, <3>1 DEF IInv, SizeInv, Live
  <2>. QED  BY <2>2, <2>3, <2>4, <2>5, <2>6, <2>7 DEF IInv
<1>14. CASE /\ ~Malformed /\ ~Completed /\ pc' = "read"
            /\ reqbuf' = IF no_room THEN Append(q, iobuf_init) ELSE q
            /\ UNCHANGED <<idle, life, sock, why, handlers, worker>>
  <2>1. nparsed = r_len(Back) /\ io.r = io.w /\ r_len(io) = 0
    BY <1>1, <1>2, <1>4, <1>9, <1>14, ParseBounds
  <2>2. /\ reqbuf' \in Seq(Iobuf) /\ reqbuf' # <<>> /\ Drained(reqbuf')
        /\ r_len(Back') = 0 /\ Back'.w < iobuf_size
        /\ \/ Len(reqbuf') = Len(reqbuf) /\ Back'.w = Back.w
           \/ Len(reqbuf') = Len(reqbuf) + 1 /\ Back'.w = 0 /\ Back.w = iobuf_size
    <3>1. CASE no_room
      <4>1. Back.w = iobuf_size
        BY <1>4, <3>1, SizeAssumption DEF no_room, w_available
      <4>2. q[Len(q)] = [w |-> iobuf_size, r |-> iobuf_size]
        BY <1>9, <1>11, <2>1, <4>1, IobufFields
      <4>3. reqbuf' = Append(q, iobuf_init)  BY <1>14, <3>1
      <4>4. /\ reqbuf' \in Seq(Iobuf) /\ Len(reqbuf') = Len(q) + 1 /\ reqbuf' # <<>>
            /\ reqbuf'[Len(reqbuf')] = iobuf_init /\ Drained(reqbuf')
        BY <1>11, <4>2, <4>3, AddLast
      <4>5. Back' = iobuf_init  BY <4>4 DEF Back
      <4>6. Back'.w = 0 /\ r_len(Back') = 0  BY <4>5 DEF iobuf_init, r_len
      <4>. QED  BY <1>11, <4>1, <4>4, <4>6, SizeAssumption
    <3>2. CASE ~no_room
      <4>1. reqbuf' = q /\ Back.w < iobuf_size
        BY <1>4, <1>14, <3>2, SizeAssumption DEF no_room, w_available
      <4>2. Back' = io  BY <1>11, <4>1 DEF Back
      <4>. QED  BY <1>9, <1>11, <2>1, <4>1, <4>2
    <3>. QED  BY <3>1, <3>2
  <2>3. TypeOK'  BY <1>1, <1>7, <1>14, <2>2 DEF IInv, TypeOK, DataOK, Points
  <2>4. NoByteLost'
    <3>1. Unread' = 0  BY <2>2 DEF Unread
    <3>2. unparsed' = Unread'  BY <1>1, <1>3, <1>4, <1>5, <2>1, <3>1
    <3>. QED  BY <3>2 DEF NoByteLost
  <2>5. TimersGuardTransfers' /\ TimerInv'
    BY <1>1, <1>14 DEF IInv, TimersGuardTransfers, TimerInv
  <2>6. BuffersInv'  BY <1>14, <2>2 DEF BuffersInv
  <2>7. ParserInv'
    <3>1. phase = "body" => got' < StopAt /\ got' >= got
      BY <1>1, <1>2, <1>14, ParseBounds
    <3>2. got' <= StopAt /\ got' \in Nat  BY <1>1, <1>2
    <3>3. phase = "body" => got >= msg.hdr - 1  BY <1>1 DEF IInv, ParserInv, Live
    <3>4. phase = "body" => got' >= msg.hdr - 1  BY <1>2, <1>3, <3>1, <3>2, <3>3
    <3>. QED  BY <1>1, <1>3, <1>6, <1>14, <3>1, <3>2, <3>4 DEF ParserInv
  <2>8. SizeInv'
    <3>1. got' + r_len(Back') = got + r_len(Back)  BY <1>1, <1>2, <1>4, <2>1, <2>2
    <3>2. Len(reqbuf') >= 2 =>
            (Len(reqbuf') - 2) * iobuf_size + Back'.w <= size["header"] + size["body"]
      <4>1. Len(reqbuf) >= 2 =>
              (Len(reqbuf) - 2) * iobuf_size + Back.w <= size["header"] + size["body"]
        BY <1>1 DEF IInv, SizeInv, Live
      <4>2. CASE Len(reqbuf') = Len(reqbuf) /\ Back'.w = Back.w  BY <4>1, <4>2
      <4>3. CASE Len(reqbuf') = Len(reqbuf) + 1 /\ Back'.w = 0 /\ Back.w = iobuf_size
        BY <1>3, <4>1, <4>3, SizeAssumption
      <4>. QED  BY <2>2, <4>2, <4>3
    <3>. QED  BY <1>1, <1>14, <3>1, <3>2 DEF IInv, SizeInv, Live
  <2>. QED  BY <2>3, <2>4, <2>5, <2>6, <2>7, <2>8 DEF IInv
<1>. QED  BY <1>8, <1>12, <1>13, <1>14 DEF parse

LEMMA ReadIInv ==
  ASSUME IInv, NEW n \in 1 .. iobuf_size, read_some(n)  PROVE IInv'
<1>. DEFINE io == [w |-> Back.w + n, r |-> Back.r]
            q  == [reqbuf EXCEPT ![Len(reqbuf)] = io]
<1>1. /\ worker = "running" /\ pc = "read"
      /\ n <= arrived /\ n <= iobuf_size - Back.w
      /\ arrived' = arrived - n /\ unparsed' = unparsed + n
      /\ size' = [size EXCEPT ![phase] = @ + n]
      /\ phase' = phase /\ msg' = msg /\ got' = got /\ peer' = peer
  BY DEF read_some, At, w_available
<1>2. reqbuf # <<>> /\ Drained(reqbuf)  BY <1>1 DEF IInv, BuffersInv, Live
<1>3. /\ msg.hdr \in Nat \ {0} /\ msg.body \in Nat /\ got \in Nat
      /\ arrived \in Nat /\ unparsed \in Nat
      /\ size["header"] \in Nat /\ size["body"] \in Nat /\ Len(reqbuf) \in Nat \ {0}
      /\ n \in Nat
  BY <1>2, MsgType, BackType, SizeAssumption DEF IInv
<1>4. /\ Back = [w |-> Back.w, r |-> Back.r]
      /\ Back.w \in 0 .. iobuf_size /\ Back.r \in 0 .. Back.w
      /\ r_len(Back) = Back.w - Back.r /\ r_len(Back) \in 0 .. iobuf_size
  BY <1>2, BackType DEF IInv
<1>5. unparsed = r_len(Back)
  BY <1>1, <1>2 DEF IInv, NoByteLost, Unread
<1>6. /\ phase \in {"header", "body"} /\ size \in [{"header", "body"} -> Nat]
      /\ size' \in [{"header", "body"} -> Nat] /\ size'[phase] = size[phase] + n
      /\ \A p \in {"header", "body"} : p # phase => size'[p] = size[p]
  BY <1>1, <1>3 DEF IInv, TypeOK
<1>7. DataOK'
  <2>1. arrived' \in 0 .. Window /\ unparsed' \in Nat
    BY <1>1, <1>3, WindowAssumption DEF IInv, TypeOK
  <2>. QED  BY <1>1, <1>6, <2>1 DEF IInv, TypeOK, DataOK
<1>8. CASE size[phase] + n > Limit
  <2>1. Destroy(phase)  BY <1>8 DEF read_some
  <2>. QED  BY <1>6, <1>7, <2>1, DestroyIInv
<1>9. CASE ~(size[phase] + n > Limit)
  <2>1. /\ reqbuf' = SetBack([Back EXCEPT !.w = @ + n]) /\ pc' = "parse"
        /\ idle' = idle /\ life' = life /\ sock' = sock /\ why' = why
        /\ handlers' = handlers /\ worker' = worker
    BY <1>9 DEF read_some
  <2>2. io \in Iobuf /\ io.w = Back.w + n /\ io.r = Back.r /\ r_len(io) = r_len(Back) + n
    <3>1. Back.w + n \in 0 .. iobuf_size /\ Back.r \in 0 .. Back.w + n
      <4>1. /\ Back.w \in Nat /\ Back.r \in Nat /\ n \in Nat /\ iobuf_size \in Nat
            /\ Back.r <= Back.w /\ n <= iobuf_size - Back.w
        BY <1>1, <1>3, <1>4, SizeAssumption
      <4>. QED  BY <4>1
    <3>2. io \in Iobuf  BY <3>1, IobufDef
    <3>3. (Back.w + n) - Back.r = (Back.w - Back.r) + n  BY <1>3, <1>4, SizeAssumption
    <3>. QED  BY <1>4, <3>2, <3>3 DEF r_len
  <2>3. [Back EXCEPT !.w = @ + n] = io  BY <1>4
  <2>4. reqbuf' = q  BY <2>1, <2>3 DEF SetBack
  <2>. HIDE DEF io
  <2>5. /\ q \in Seq(Iobuf) /\ Len(q) = Len(reqbuf) /\ q # <<>>
        /\ q[Len(q)] = io /\ Drained(q)
    BY <1>2, <2>2, SetLast DEF IInv, TypeOK
  <2>. HIDE DEF q
  <2>6. Back' = io  BY <2>4, <2>5 DEF Back
  <2>7. TypeOK'  BY <1>1, <1>7, <2>1, <2>4, <2>5 DEF IInv, TypeOK, DataOK, Points
  <2>8. NoByteLost'
    <3>1. Unread' = r_len(Back) + n  BY <2>2, <2>4, <2>5, <2>6 DEF Unread
    <3>2. unparsed' = Unread'  BY <1>1, <1>3, <1>4, <1>5, <3>1
    <3>. QED  BY <3>2 DEF NoByteLost
  <2>9. TimersGuardTransfers' /\ TimerInv'
    BY <1>1, <2>1 DEF IInv, TimersGuardTransfers, TimerInv
  <2>10. BuffersInv'  BY <2>1, <2>4, <2>5 DEF BuffersInv
  <2>11. ParserInv'  BY <1>1, <2>1 DEF IInv, ParserInv, Live
  <2>12. SizeInv'
    <3>1. size'["header"] <= max_header_size /\ size'["body"] <= max_body_size
      <4>1. size["header"] <= max_header_size /\ size["body"] <= max_body_size
        BY <1>1 DEF IInv, SizeInv, Live
      <4>2. size[phase] + n <= Limit
        BY <1>3, <1>6, <1>9, SizeAssumption DEF Limit
      <4>. QED  BY <1>6, <4>1, <4>2 DEF Limit
    <3>2. /\ phase = "header" => size["body"] = 0
                                 /\ got + r_len(Back) < size["header"] + iobuf_size
          /\ phase = "body" => got + r_len(Back) < msg.hdr + size["body"] + iobuf_size
      BY <1>1 DEF IInv, SizeInv, Live
    <3>. DEFINE filled == (Len(reqbuf) - 2) * iobuf_size
    <3>a. filled \in Int  BY <1>3, SizeAssumption
    <3>b. Len(reqbuf) >= 2 => filled + Back.w <= size["header"] + size["body"]
      BY <1>1 DEF IInv, SizeInv, Live
    <3>. HIDE DEF filled
    <3>3. r_len(Back') = r_len(Back) + n /\ Back'.w = Back.w + n /\ r_len(Back) \in Nat
          /\ Back.w \in Nat /\ Len(reqbuf') = Len(reqbuf)
      BY <1>4, <2>2, <2>4, <2>5, <2>6, SizeAssumption
    <3>c. got \in Nat /\ r_len(Back) \in Nat /\ Back.w \in Nat /\ n \in Nat
          /\ msg.hdr \in Nat /\ size["header"] \in Nat /\ size["body"] \in Nat
          /\ iobuf_size \in Nat
      BY <1>3, <3>3, SizeAssumption
    <3>4. CASE phase = "header"
      <4>1. size'["header"] = size["header"] + n /\ size'["body"] = size["body"]
        BY <1>6, <3>4
      <4>2. got + (r_len(Back) + n) < (size["header"] + n) + iobuf_size
        BY <3>2, <3>4, <3>c
      <4>3. Len(reqbuf) >= 2 => filled + (Back.w + n)
                                 <= (size["header"] + n) + size["body"]
        BY <3>a, <3>b, <3>c
      <4>. QED  BY <1>1, <3>1, <3>2, <3>3, <3>4, <4>1, <4>2, <4>3 DEF SizeInv, filled
    <3>5. CASE phase = "body"
      <4>1. size'["header"] = size["header"] /\ size'["body"] = size["body"] + n
        BY <1>6, <3>5
      <4>2. got + (r_len(Back) + n) < msg.hdr + (size["body"] + n) + iobuf_size
        BY <3>2, <3>5, <3>c
      <4>3. Len(reqbuf) >= 2 => filled + (Back.w + n)
                                 <= size["header"] + (size["body"] + n)
        BY <3>a, <3>b, <3>c
      <4>. QED  BY <1>1, <3>1, <3>3, <3>5, <4>1, <4>2, <4>3 DEF SizeInv, filled
    <3>. QED  BY <1>6, <3>4, <3>5
  <2>. QED  BY <2>7, <2>8, <2>9, <2>10, <2>11, <2>12 DEF IInv
<1>. QED  BY <1>8, <1>9

LEMMA ReadFailsIInv ==
  ASSUME IInv, read_fails  PROVE IInv'
<1>1. DataOK'  BY DEF IInv, TypeOK, DataOK, read_fails, peerVars
<1>. QED  BY <1>1, DestroyIInv DEF read_fails

LEMMA HandlerIInv ==
  ASSUME IInv, handler_returns  PROVE IInv'
<1>1. /\ worker = "running" /\ pc = "handler" /\ idle' = "armed"
      /\ IF phase = "header" THEN phase' = "body" /\ pc' = "parse"
                             ELSE phase' = phase /\ pc' = "write"
      /\ reqbuf' = reqbuf /\ size' = size /\ msg' = msg /\ got' = got
      /\ unparsed' = unparsed
      /\ life' = life /\ sock' = sock /\ peer' = peer /\ arrived' = arrived
      /\ why' = why /\ handlers' = handlers /\ worker' = worker
  BY DEF handler_returns, At, dataVars, peerVars
<1>2. Back' = Back /\ reqbuf # <<>>  BY <1>1 DEF Back, IInv, BuffersInv, Live
<1>3. /\ r_len(Back) \in 0 .. iobuf_size /\ msg.hdr \in Nat \ {0} /\ msg.body \in Nat
      /\ got \in Nat /\ size["body"] \in Nat /\ phase \in {"header", "body"}
  BY <1>2, BackType, MsgType DEF IInv, TypeOK
<1>4. phase = "header" => got = msg.hdr - 1 /\ r_len(Back) >= 1
  BY <1>1 DEF IInv, ParserInv
<1>5. TypeOK'  BY <1>1, <1>3 DEF IInv, TypeOK, Points
<1>6. NoByteLost'  BY <1>1, <1>2 DEF IInv, NoByteLost, Unread
<1>7. TimersGuardTransfers' /\ TimerInv'
  BY <1>1, <1>3 DEF IInv, TimersGuardTransfers, TimerInv
<1>8. BuffersInv'  BY <1>1, <1>2, <1>3 DEF IInv, BuffersInv, Live
<1>9. ParserInv'
  <2>1. phase = "header" => got >= msg.hdr - 1 /\ got < msg.hdr + msg.body
    BY <1>3, <1>4
  <2>. QED  BY <1>1, <1>2, <1>3, <2>1 DEF IInv, ParserInv, Live
<1>10. SizeInv'
  <2>1. phase = "header" => got + r_len(Back) < msg.hdr + size["body"] + iobuf_size
    BY <1>3, <1>4, SizeAssumption
  <2>. QED  BY <1>1, <1>2, <1>3, <2>1 DEF IInv, SizeInv, Live
<1>. QED  BY <1>5, <1>6, <1>7, <1>8, <1>9, <1>10 DEF IInv

\* The steps of the timers and of the peer, and a step that loses the worker, leave
\* the buffers and the parser alone.
LEMMA EnvironmentIInv ==
  ASSUME IInv, TypeOK', TimersGuardTransfers', TimerInv',
         UNCHANGED <<pc, phase, reqbuf, size, msg, got, unparsed>>
  PROVE  IInv'
<1>1. Back' = Back  BY DEF Back
<1>2. NoByteLost'  BY <1>1 DEF IInv, NoByteLost, Unread
<1>3. BuffersInv'  BY <1>1 DEF IInv, BuffersInv, Live
<1>4. ParserInv'  BY <1>1 DEF IInv, ParserInv, Live
<1>5. SizeInv'  BY <1>1 DEF IInv, SizeInv, Live
<1>. QED  BY <1>2, <1>3, <1>4, <1>5 DEF IInv

LEMMA HandlerThrowsIInv ==
  ASSUME IInv, handler_throws  PROVE IInv'
<1>1. pc = "handler" /\ UNCHANGED <<phase, size, msg, got, unparsed, peer, arrived>>
  BY DEF handler_throws, At, peerVars
<1>2. DataOK'  BY <1>1 DEF IInv, TypeOK, DataOK
<1>3. CASE Destroy("thrown")
  BY <1>2, <1>3, DestroyIInv
<1>4. CASE /\ worker' = "terminated"
           /\ UNCHANGED <<pc, reqbuf, idle, life, sock, why, handlers>>
  <2>1. TypeOK'  BY <1>1, <1>4 DEF IInv, TypeOK
  <2>2. TimersGuardTransfers' /\ TimerInv'
    BY <1>1, <1>4 DEF IInv, TimersGuardTransfers, TimerInv
  <2>. QED  BY <1>1, <1>4, <2>1, <2>2, EnvironmentIInv
<1>. QED  BY <1>3, <1>4 DEF handler_throws

\* The loop of parse() goes on to the next request.
LEMMA KeepAliveIInv ==
  ASSUME IInv, pc = "write", KeepAlive,
         UNCHANGED <<phase, size, msg, got, unparsed, peer, arrived>>
  PROVE  IInv'
<1>1. /\ pc' = "request" /\ idle' = "off" /\ reqbuf' = Trim(reqbuf)
      /\ life' = life /\ sock' = sock /\ why' = why /\ handlers' = handlers
      /\ worker' = worker
  BY DEF KeepAlive
<1>2. reqbuf # <<>> /\ Drained(reqbuf) /\ Back.r >= 1
  BY DEF IInv, BuffersInv, ParserInv, Live
<1>3. Back \in Iobuf  BY <1>2, BackType DEF IInv
<1>4. \/ r_len(Back) = 0 /\ reqbuf' = <<>>
      \/ r_len(Back) # 0 /\ reqbuf' = <<Back>>
  BY <1>1, <1>2, TrimLast DEF IInv, TypeOK, Back
<1>5. /\ reqbuf' \in Seq(Iobuf) /\ Len(reqbuf') <= 1 /\ Drained(reqbuf')
      /\ (reqbuf' # <<>> => Back'.r >= 1) /\ Unread' = r_len(Back)
  <2>1. CASE r_len(Back) = 0 /\ reqbuf' = <<>>
    <3>1. Drained(<<>>) /\ Len(<<>>) = 0 /\ <<>> \in Seq(Iobuf)  BY EmptySeq DEF Drained
    <3>. QED  BY <2>1, <3>1 DEF Unread
  <2>2. CASE r_len(Back) # 0 /\ reqbuf' = <<Back>>
    <3>1. Back' = Back  BY <1>3, <2>2, OneBuffer DEF Back
    <3>. QED  BY <1>2, <1>3, <2>2, <3>1, OneBuffer DEF Unread
  <2>. QED  BY <1>4, <2>1, <2>2
<1>6. TypeOK'  BY <1>1, <1>5 DEF IInv, TypeOK, DataOK, Points
<1>7. NoByteLost'  BY <1>2, <1>5 DEF IInv, NoByteLost, Unread
<1>8. TimersGuardTransfers' /\ TimerInv'
  BY <1>1 DEF IInv, TimersGuardTransfers, TimerInv
<1>9. BuffersInv'  BY <1>1, <1>5 DEF BuffersInv, Live
<1>10. ParserInv'  BY <1>1, <1>5 DEF ParserInv, Live
<1>11. SizeInv'  BY <1>1 DEF SizeInv, Live
<1>. QED  BY <1>6, <1>7, <1>8, <1>9, <1>10, <1>11 DEF IInv

LEMMA WriteIInv ==
  ASSUME IInv, NEW alive \in BOOLEAN, write(alive)  PROVE IInv'
<1>1. pc = "write" /\ UNCHANGED <<phase, size, msg, got, unparsed, peer, arrived>>
  BY DEF write, At, peerVars
<1>2. DataOK'  BY <1>1 DEF IInv, TypeOK, DataOK
<1>3. CASE ~alive
  BY <1>2, <1>3, DestroyIInv DEF write
<1>4. CASE alive
  BY <1>1, <1>4, KeepAliveIInv DEF write
<1>. QED  BY <1>3, <1>4

LEMMA WriteNothingIInv ==
  ASSUME IInv, write_nothing  PROVE IInv'
BY KeepAliveIInv DEF write_nothing, At, peerVars

LEMMA WriteFailsIInv ==
  ASSUME IInv, write_fails  PROVE IInv'
<1>1. DataOK'  BY DEF IInv, TypeOK, DataOK, write_fails, peerVars
<1>. QED  BY <1>1, DestroyIInv DEF write_fails

LEMMA TimersIInv ==
  ASSUME IInv, timers  PROVE IInv'
<1>1. /\ worker = "running" /\ pc \in Yields /\ peer' = peer /\ arrived' = arrived
      /\ UNCHANGED <<pc, phase, reqbuf, size, msg, got, unparsed>>
      /\ why' = why /\ handlers' = handlers
      /\ \/ worker' = "escaped" /\ sock' = sock
         \/ worker' = worker /\ sock' = "shut"
      /\ \/ idle' = "off" /\ life' = life
         \/ life' = "off" /\ idle' = idle
  BY DEF timers, on_idle_expired, on_life_expired, shutdown, dataVars, peerVars
<1>2. TypeOK'  BY <1>1 DEF IInv, TypeOK
<1>3. TimersGuardTransfers' /\ TimerInv'
  BY <1>1 DEF IInv, TimersGuardTransfers, TimerInv, Yields
<1>. QED  BY <1>1, <1>2, <1>3, EnvironmentIInv

LEMMA PeerIInv ==
  ASSUME IInv, peer_closes \/ \E n \in 1 .. iobuf_size : peer_sends(n)
  PROVE  IInv'
<1>1. /\ UNCHANGED <<pc, phase, reqbuf, size, msg, got, unparsed>>
      /\ idle' = idle /\ life' = life /\ sock' = sock /\ why' = why
      /\ handlers' = handlers /\ worker' = worker
  BY DEF peer_closes, peer_sends, dataVars
<1>2. TypeOK'
  <2>1. CASE peer_closes
    <3>1. peer' \in {"fin", "rst"} /\ arrived' = arrived  BY <2>1 DEF peer_closes
    <3>. QED  BY <1>1, <3>1 DEF IInv, TypeOK
  <2>2. ASSUME NEW n \in 1 .. iobuf_size, peer_sends(n)  PROVE TypeOK'
    <3>1. peer' = peer /\ arrived' = arrived + n /\ arrived + n <= Window
      BY <2>2 DEF peer_sends
    <3>2. arrived' \in 0 .. Window
      BY <3>1, WindowAssumption, SizeAssumption DEF IInv, TypeOK
    <3>. QED  BY <1>1, <3>1, <3>2 DEF IInv, TypeOK
  <2>. QED  BY <2>1, <2>2
<1>3. TimersGuardTransfers' /\ TimerInv'
  BY <1>1 DEF IInv, TimersGuardTransfers, TimerInv
<1>. QED  BY <1>1, <1>2, <1>3, EnvironmentIInv

LEMMA StutterIInv ==
  ASSUME IInv, UNCHANGED vars  PROVE IInv'
<1>1. UNCHANGED <<pc, phase, reqbuf, size, msg, got, unparsed>>
      /\ UNCHANGED <<idle, life, sock, peer, arrived, why, handlers, worker>>
  BY DEF vars, dataVars, peerVars
<1>2. TypeOK'  BY <1>1 DEF IInv, TypeOK
<1>3. TimersGuardTransfers' /\ TimerInv'
  BY <1>1 DEF IInv, TimersGuardTransfers, TimerInv
<1>. QED  BY <1>1, <1>2, <1>3, EnvironmentIInv

LEMMA Invariance == Spec => []IInv
<1>1. Init => IInv  BY InitIInv
<1>2. IInv /\ [Next]_vars => IInv'
  BY ConstructIInv, ProcessRequestIInv, ParseIInv, ReadIInv, ReadFailsIInv,
     HandlerIInv, HandlerThrowsIInv, WriteIInv, WriteNothingIInv, WriteFailsIInv, TimersIInv, PeerIInv, StutterIInv
  DEF Next, coroutine
<1>. QED  BY <1>1, <1>2, PTL DEF Spec
-----------------------------------------------------------------------------
(* Theorems *)

\* Whatever requests the peer sends, in whatever pieces, and whenever a timer
\* fires: the state is well typed, no received byte is skipped or dropped before
\* it is parsed, and the timers guard exactly the transfers.
THEOREM ConnectionSafe == Spec => [](TypeOK /\ NoByteLost /\ TimersGuardTransfers)
BY Invariance, PTL DEF IInv

\* The books of the connection stay in range: the cursors of its buffers stay within
\* the buffers, it parses no more than it has read, and knows no more of the request
\* at hand than there is of it.
THEOREM ConnectionTypes == Spec => []TypeOK
BY ConnectionSafe, PTL

\* Every wait for the peer is guarded by the idle timer unless the socket is shut
\* down, no handler runs under it, and no timer outlives the connection, for all
\* sizes, limits, requests and peers.
THEOREM TimersGuard == Spec => []TimersGuardTransfers
BY ConnectionSafe, PTL

\* A header or a body handed to a module exceeds its limit by less than one
\* buffer.
THEOREM LimitSlack == Spec => []LimitsHold
<1>1. IInv => LimitsHold
  <2>. SUFFICES ASSUME IInv, pc = "handler"
                PROVE  IF phase = "header" THEN msg.hdr < max_header_size + iobuf_size
                                           ELSE msg.body < max_body_size + iobuf_size
    BY DEF LimitsHold
  <2>1. reqbuf # <<>>  BY DEF IInv, BuffersInv, Live
  <2>2. /\ r_len(Back) \in Nat /\ got \in Nat /\ msg.hdr \in Nat /\ msg.body \in Nat
        /\ size["header"] \in Nat /\ size["body"] \in Nat /\ iobuf_size \in Nat
        /\ max_header_size \in Nat /\ max_body_size \in Nat
    BY <2>1, BackType, MsgType, SizeAssumption DEF IInv
  <2>3. size["header"] <= max_header_size /\ size["body"] <= max_body_size
    BY DEF IInv, SizeInv, Live
  <2>4. CASE phase = "header"
    <3>1. got = msg.hdr - 1 /\ r_len(Back) >= 1  BY <2>4 DEF IInv, ParserInv
    <3>2. got + r_len(Back) < size["header"] + iobuf_size
      BY <2>4 DEF IInv, SizeInv, Live
    <3>3. msg.hdr < max_header_size + iobuf_size  BY <2>2, <2>3, <3>1, <3>2
    <3>. QED  BY <2>4, <3>3
  <2>5. CASE phase = "body"
    <3>1. got = msg.hdr + msg.body  BY <2>5 DEF IInv, ParserInv
    <3>2. got + r_len(Back) < msg.hdr + size["body"] + iobuf_size
      BY <2>5 DEF IInv, SizeInv, Live
    <3>3. msg.body < max_body_size + iobuf_size  BY <2>2, <2>3, <3>1, <3>2
    <3>. QED  BY <2>5, <3>3
  <2>. QED  BY <2>4, <2>5 DEF IInv, TypeOK
<1>. QED  BY <1>1, Invariance, PTL

\* If n buffers of s bytes hold at most t bytes then n is at most t \div s.
LEMMA QuotientBound ==
  ASSUME NEW n \in Nat, NEW s \in Nat \ {0}, NEW t \in Nat, n * s <= t
  PROVE  n <= t \div s
<1>. DEFINE d == t \div s
<1>1. d \in Nat /\ t < (d + 1) * s  OBVIOUS
<1>. HIDE DEF d
<1>2. n * s < (d + 1) * s  BY <1>1
<1>3. n < d + 1  BY <1>1, <1>2
<1>4. n <= d  BY <1>1, <1>3
<1>. QED  BY <1>4 DEF d

\* A connection never holds more receive buffers than the two limits allow.
THEOREM MemoryBound == Spec => []MemoryBounded
<1>1. IInv => MemoryBounded
  <2>. SUFFICES ASSUME IInv  PROVE MemoryBounded
    OBVIOUS
  <2>. DEFINE t == max_header_size + max_body_size
              n == Len(reqbuf)
  <2>1. n \in Nat /\ t \in Nat /\ t \div iobuf_size \in Nat
    BY MsgType, SizeAssumption DEF IInv
  <2>2. CASE n <= 1
    <3>. HIDE DEF n, t
    <3>1. n <= 2 + t \div iobuf_size
      <4>. DEFINE d == t \div iobuf_size
      <4>1. d \in Nat  BY <2>1
      <4>. HIDE DEF d
      <4>2. n <= 2 + d  BY <2>1, <2>2, <4>1
      <4>. QED  BY <4>2 DEF d
    <3>. QED  BY <3>1 DEF MemoryBounded, n, t
  <2>3. CASE n >= 2
    <3>1. Live
      <4>1. pc \in {"accepted", "gone"} => n = 0  BY EmptySeq DEF IInv, BuffersInv
      <4>2. pc = "request" => n <= 1  BY DEF IInv, BuffersInv
      <4>. QED  BY <2>1, <2>3, <4>1, <4>2 DEF Live, IInv, TypeOK, Points
    <3>2. reqbuf # <<>>  BY <3>1 DEF IInv, BuffersInv
    <3>3. Back.w \in Nat  BY <3>2, BackType, SizeAssumption DEF IInv
    <3>4. /\ (n - 2) * iobuf_size + Back.w <= size["header"] + size["body"]
          /\ size["header"] <= max_header_size /\ size["body"] <= max_body_size
      BY <2>3, <3>1 DEF IInv, SizeInv
    <3>5. size["header"] \in Nat /\ size["body"] \in Nat  BY MsgType DEF IInv
    <3>. DEFINE k == n - 2
                f == k * iobuf_size
    <3>6. k \in Nat /\ f \in Nat  BY <2>1, <2>3, SizeAssumption
    <3>7. f <= t
      <4>1. f + Back.w <= size["header"] + size["body"]  BY <3>4
      <4>. HIDE DEF f
      <4>. QED  BY <3>3, <3>4, <3>5, <3>6, <4>1, SizeAssumption
    <3>. HIDE DEF t, n
    <3>8. k <= t \div iobuf_size  BY <2>1, <3>6, <3>7, SizeAssumption, QuotientBound
    <3>9. n <= 2 + t \div iobuf_size  BY <2>1, <3>8
    <3>. QED  BY <3>9 DEF MemoryBounded, n, t
  <2>. QED  BY <2>1, <2>2, <2>3
<1>. QED  BY <1>1, Invariance, PTL
=============================================================================
