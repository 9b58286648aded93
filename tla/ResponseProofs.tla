---------------------------- MODULE ResponseProofs ----------------------------
(***************************************************************************)
(* Proofs about Response, for any size of the buffers, any texts and any   *)
(* number of calls: the header holds whole lines and starts with a field   *)
(* only if a status line longer than a buffer was left out before it, and  *)
(* the body is sent as it was written.                                     *)
(***************************************************************************)
EXTENDS Response, SequenceTheorems, TLAPS

Kinds == {"status", "field", "end"}

LineRec == [kind : Kinds, len : Nat \ {0}, end : Nat]

TextRec == [len : Lens, buf : Nat, end : Nat]

\* A status line has been written, or left out.
StatusSeen(ls) == \E k \in DOMAIN ls : ls[k].kind = "status"

\* No field stands first, unless a status line too long for a buffer came before.
NoFieldFirst(buf, ls) ==
  buf # <<>> /\ buf[1] # Nul /\ ls[buf[1]].kind = "field" =>
    \E k \in 1 .. buf[1] - 1 : ls[k].kind = "status" /\ ls[k].len > iobuf_size

\* The header, as a buffer and the lines that were meant for it.
HeaderOK(buf, ls) ==
  /\ buf \in Seq(Nat) /\ ls \in Seq(LineRec)
  /\ \A i \in DOMAIN buf : buf[i] \in 0 .. Len(ls)
  /\ \A l \in DOMAIN ls : ls[l].end <= Len(buf)
  /\ WholeLines(buf, ls) /\ NoFieldFirst(buf, ls)

\* The body, as the contents of its buffers and the texts meant for it: where each
\* text is, that they are in order, and that there is nothing else.
TextAt(m, t, x) ==
  /\ x.buf \in DOMAIN m /\ x.end <= Len(m[x.buf]) /\ x.len <= x.end
  /\ \A i \in x.end - x.len + 1 .. x.end :
       m[x.buf][i] = t \/ (m[x.buf][i] = Nul /\ i = iobuf_size)

InTurn(x, y) == x.buf < y.buf \/ (x.buf = y.buf /\ x.end <= y.end - y.len)

Placed(m, ts) ==
  /\ \A t \in DOMAIN ts : TextAt(m, t, ts[t])
  /\ \A t, u \in DOMAIN ts : t < u => InTurn(ts[t], ts[u])
  /\ \A b \in DOMAIN m : \A i \in DOMAIN m[b] :
       \E t \in DOMAIN ts : ts[t].buf = b /\ i \in ts[t].end - ts[t].len + 1 .. ts[t].end

Buffers ==
  /\ mem \in Seq(Seq(Nat))
  /\ \A b \in DOMAIN mem : /\ Len(mem[b]) <= iobuf_size
                           /\ \A i \in DOMAIN mem[b] : mem[b][i] \in 0 .. MaxTexts
  /\ body_ \in Seq(Nat) /\ \A b \in DOMAIN body_ : body_[b] \in DOMAIN mem
  /\ texts \in Seq(TextRec)

Scalars ==
  /\ status_ \in {-1, 200} /\ alive_ \in {0, 1} /\ iseom_ \in {0, 1}
  /\ spoilt \in BOOLEAN /\ handler \in {"runs", "thrown", "undefined", "reset"}

\* A status, once set, has had its line: if the header is still empty, the line was
\* longer than a whole buffer.
StatusWritten == status_ # -1 => StatusSeen(lines)

\* The handler has a buffer to write to until it calls reset().  While nothing is
\* spoilt the buffers of the body are all there are, each once: what is written
\* to one of them is in one place only.
OwnBuffers ==
  /\ handler = "runs" => body_ # <<>>
  /\ handler = "reset" => body_ = <<>> /\ texts = <<>>
  /\ handler # "reset" /\ ~spoilt =>
       /\ Len(mem) = Len(body_) /\ \A b \in DOMAIN body_ : body_[b] = b
       /\ Placed(mem, texts)

\* The inductive invariant.
Inv == HeaderOK(header_, lines) /\ Buffers /\ Scalars /\ StatusWritten /\ OwnBuffers
-----------------------------------------------------------------------------
(* Sequences *)

\* A repeated byte.
LEMMA RepeatFacts ==
  ASSUME NEW S, NEW x \in S, NEW n \in Int
  PROVE  /\ Repeat(x, n) \in Seq(S)
         /\ n >= 0 => Len(Repeat(x, n)) = n
         /\ n < 0 => Repeat(x, n) = <<>>
         /\ \A i \in 1 .. n : Repeat(x, n)[i] = x
<1>1. CASE n >= 0
  BY <1>1 DEF Repeat
<1>2. CASE n < 0
  <2>1. 1 .. n = {}
    BY <1>2
  <2>2. Repeat(x, n) = <<>>
    BY <2>1 DEF Repeat
  <2> QED
    BY <1>2, <2>1, <2>2
<1> QED
  BY <1>1, <1>2

\* Two sequences, one after the other.
LEMMA Joined ==
  ASSUME NEW a \in Seq(Nat), NEW b \in Seq(Nat)
  PROVE  /\ a \o b \in Seq(Nat) /\ Len(a \o b) = Len(a) + Len(b)
         /\ DOMAIN (a \o b) = 1 .. Len(a) + Len(b)
         /\ \A i \in 1 .. Len(a) : (a \o b)[i] = a[i]
         /\ \A i \in 1 .. Len(b) : (a \o b)[Len(a) + i] = b[i]
  OBVIOUS

\* A repeated byte at the end of a buffer, and the terminator.
Grown(buf, x, n) == buf \o Repeat(x, n)

Ended(buf) == buf \o <<Nul>>

LEMMA GrownType ==
  ASSUME NEW buf \in Seq(Nat), NEW x \in Nat, NEW n \in Nat
  PROVE  Grown(buf, x, n) \in Seq(Nat) /\ Len(Grown(buf, x, n)) = Len(buf) + n
<1> DEFINE p == Repeat(x, n)
<1>0. n \in Int /\ n >= 0
  OBVIOUS
<1>1. p \in Seq(Nat) /\ Len(p) = n
  BY <1>0, RepeatFacts
<1> HIDE DEF p
<1>2. buf \o p \in Seq(Nat) /\ Len(buf \o p) = Len(buf) + Len(p)
  BY <1>1, Joined
<1> QED
  BY <1>1, <1>2 DEF p, Grown

LEMMA GrownBytes ==
  ASSUME NEW buf \in Seq(Nat), NEW x \in Nat, NEW n \in Nat
  PROVE  /\ \A i \in 1 .. Len(buf) : Grown(buf, x, n)[i] = buf[i]
         /\ \A i \in Len(buf) + 1 .. Len(buf) + n : Grown(buf, x, n)[i] = x
<1> DEFINE p == Repeat(x, n)
<1>0. n \in Int /\ n >= 0 /\ Len(buf) \in Nat
  OBVIOUS
<1>1. p \in Seq(Nat) /\ Len(p) = n /\ \A i \in 1 .. n : p[i] = x
  BY <1>0, RepeatFacts
<1> HIDE DEF p
<1>2. /\ \A i \in 1 .. Len(buf) : (buf \o p)[i] = buf[i]
      /\ \A i \in 1 .. Len(p) : (buf \o p)[Len(buf) + i] = p[i]
  BY <1>1, Joined
<1>3. ASSUME NEW i \in Len(buf) + 1 .. Len(buf) + n PROVE (buf \o p)[i] = x
  <2>1. i - Len(buf) \in 1 .. n /\ Len(buf) + (i - Len(buf)) = i
    BY <1>0
  <2> QED
    BY <2>1, <1>1, <1>2
<1> QED
  BY <1>2, <1>3 DEF p, Grown

LEMMA EndedFacts ==
  ASSUME NEW S, NEW buf \in Seq(S), Nul \in S
  PROVE  /\ Ended(buf) \in Seq(S) /\ Len(Ended(buf)) = Len(buf) + 1
         /\ \A i \in 1 .. Len(buf) : Ended(buf)[i] = buf[i]
         /\ Ended(buf)[Len(buf) + 1] = Nul
  BY DEF Ended

\* What snprintf() and iobuf_set_w_len() do to a buffer: nothing, if the text does
\* not fit; else all of it is added, with a terminator in the last place at most.
LEMMA EmitFacts ==
  ASSUME NEW buf \in Seq(Nat), Len(buf) <= iobuf_size, NEW x \in Nat, NEW n \in Nat, n > 0
  PROVE  /\ Emit(buf, x, n) \in Seq(Nat) /\ Len(buf) \in Nat
         /\ Len(Emit(buf, x, n)) <= iobuf_size
         /\ \A i \in 1 .. Len(buf) : Emit(buf, x, n)[i] = buf[i]
         /\ n > available(buf) => Emit(buf, x, n) = buf
         /\ n <= available(buf) =>
              /\ Len(Emit(buf, x, n)) = Len(buf) + n
              /\ \A i \in Len(buf) + 1 .. Len(buf) + n :
                   \/ Emit(buf, x, n)[i] = x
                   \/ Emit(buf, x, n)[i] = Nul /\ i = iobuf_size
<1>s. Nul \in Nat
  BY DEF Nul
<1>0. available(buf) \in Nat /\ available(buf) = iobuf_size - Len(buf) /\ Len(buf) \in Nat
  BY SizeAssumption DEF available
<1>1. CASE n < available(buf)
  <2> DEFINE new == Grown(buf, x, n)
  <2>1. Emit(buf, x, n) = new
    BY <1>1 DEF Emit, Grown
  <2>2. /\ new \in Seq(Nat) /\ Len(new) = Len(buf) + n
        /\ \A i \in 1 .. Len(buf) : new[i] = buf[i]
        /\ \A i \in Len(buf) + 1 .. Len(buf) + n : new[i] = x
    <3>1. new \in Seq(Nat) /\ Len(new) = Len(buf) + n
      BY GrownType
    <3>2. /\ \A i \in 1 .. Len(buf) : new[i] = buf[i]
          /\ \A i \in Len(buf) + 1 .. Len(buf) + n : new[i] = x
      BY GrownBytes
    <3> QED
      BY <3>1, <3>2
  <2> HIDE DEF new
  <2>3. Len(new) <= iobuf_size /\ ~(n > available(buf))
    BY <1>0, <1>1, <2>2, SizeAssumption
  <2> QED
    BY <1>0, <2>1, <2>2, <2>3
<1>2. CASE n = available(buf)
  <2> DEFINE first == Grown(buf, x, n - 1)
             new == Ended(first)
  <2>1. Emit(buf, x, n) = new
    BY <1>2, <1>0 DEF Emit, Grown, Ended
  <2>2. /\ first \in Seq(Nat) /\ Len(first) = Len(buf) + (n - 1)
        /\ \A i \in 1 .. Len(buf) : first[i] = buf[i]
        /\ \A i \in Len(buf) + 1 .. Len(buf) + (n - 1) : first[i] = x
    <3>1. PICK m \in Nat : m = n - 1
      OBVIOUS
    <3>2. Grown(buf, x, m) \in Seq(Nat) /\ Len(Grown(buf, x, m)) = Len(buf) + m
      BY GrownType
    <3>3. /\ \A i \in 1 .. Len(buf) : Grown(buf, x, m)[i] = buf[i]
          /\ \A i \in Len(buf) + 1 .. Len(buf) + m : Grown(buf, x, m)[i] = x
      BY GrownBytes
    <3> QED
      BY <3>1, <3>2, <3>3
  <2> HIDE DEF first
  <2>3. /\ new \in Seq(Nat) /\ Len(new) = Len(first) + 1
        /\ \A i \in 1 .. Len(first) : new[i] = first[i]
        /\ new[Len(first) + 1] = Nul
    BY <2>2, <1>s, EndedFacts
  <2> HIDE DEF new
  <2>4. /\ Len(new) = Len(buf) + n /\ Len(buf) + n = iobuf_size /\ Len(first) + 1 = iobuf_size
        /\ ~(n > available(buf))
    BY <2>2, <2>3, <1>0, <1>2, SizeAssumption
  <2>5. \A i \in 1 .. Len(buf) : new[i] = buf[i]
    BY <2>2, <2>3, <1>0
  <2>6. ASSUME NEW i \in Len(buf) + 1 .. Len(buf) + n
        PROVE  new[i] = x \/ (new[i] = Nul /\ i = iobuf_size)
    <3>1. CASE i = iobuf_size
      BY <3>1, <2>3, <2>4
    <3>2. CASE i # iobuf_size
      <4>0. Len(first) = Len(buf) + (n - 1) /\ Len(buf) \in Nat /\ Len(buf) + n = iobuf_size
        BY <2>2, <2>4, <1>0
      <4>1. i \in Len(buf) + 1 .. Len(buf) + (n - 1) /\ i \in 1 .. Len(first)
        BY <3>2, <4>0
      <4> QED
        BY <4>1, <2>2, <2>3
    <3> QED
      BY <3>1, <3>2
  <2>7. Len(new) <= iobuf_size
    BY <2>4, SizeAssumption
  <2> QED
    BY <1>0, <2>1, <2>3, <2>4, <2>5, <2>6, <2>7
<1>3. CASE n > available(buf)
  <2>1. Emit(buf, x, n) = buf /\ ~(n <= available(buf))
    BY <1>3, <1>0 DEF Emit
  <2> QED
    BY <1>0, <2>1
<1> QED
  BY <1>0, <1>1, <1>2, <1>3

\* The same, fact by fact.
LEMMA EmitType ==
  ASSUME NEW buf \in Seq(Nat), Len(buf) <= iobuf_size, NEW x \in Nat, NEW n \in Nat, n > 0
  PROVE  /\ Emit(buf, x, n) \in Seq(Nat) /\ Len(Emit(buf, x, n)) <= iobuf_size
         /\ Len(Emit(buf, x, n)) = IF n <= available(buf) THEN Len(buf) + n ELSE Len(buf)
<1>1. available(buf) \in Int
  BY SizeAssumption DEF available
<1>2. Emit(buf, x, n) \in Seq(Nat) /\ Len(Emit(buf, x, n)) <= iobuf_size
  BY EmitFacts
<1>3. n <= available(buf) => Len(Emit(buf, x, n)) = Len(buf) + n
  BY EmitFacts
<1>4. n > available(buf) => Emit(buf, x, n) = buf
  BY EmitFacts
<1> QED
  BY <1>1, <1>2, <1>3, <1>4

LEMMA EmitKeeps ==
  ASSUME NEW buf \in Seq(Nat), Len(buf) <= iobuf_size, NEW x \in Nat, NEW n \in Nat, n > 0
  PROVE  \A i \in 1 .. Len(buf) : Emit(buf, x, n)[i] = buf[i]
  BY EmitFacts

LEMMA EmitAdds ==
  ASSUME NEW buf \in Seq(Nat), Len(buf) <= iobuf_size, NEW x \in Nat, NEW n \in Nat, n > 0,
         n <= available(buf)
  PROVE  \A i \in Len(buf) + 1 .. Len(buf) + n :
           Emit(buf, x, n)[i] = x \/ (Emit(buf, x, n)[i] = Nul /\ i = iobuf_size)
  BY EmitFacts
-----------------------------------------------------------------------------
(* The header *)

\* What was meant for a header that is still empty is longer than a buffer.
LEMMA EmptyHeader ==
  ASSUME NEW h, NEW ls, HeaderOK(h, ls), h = <<>>
  PROVE  \A l \in DOMAIN ls : ls[l].len > iobuf_size
<1> SUFFICES ASSUME NEW l \in DOMAIN ls PROVE ls[l].len > iobuf_size
  OBVIOUS
<1> DEFINE end(m) == IF m = 0 THEN 0 ELSE ls[m].end
<1>1. ls \in Seq(LineRec) /\ Len(h) = 0 /\ DOMAIN ls = 1 .. Len(ls) /\ Len(ls) \in Nat
  BY DEF HeaderOK
<1>2. \A m \in DOMAIN ls : ls[m] \in LineRec
  BY <1>1
<1>3. \A m \in DOMAIN ls : ls[m].end \in Nat /\ ls[m].len \in Nat /\ ls[m].len > 0 /\ ls[m].end <= 0
  BY <1>1, <1>2 DEF HeaderOK, LineRec
<1>4. \A m \in DOMAIN ls : end(m) = 0
  BY <1>1, <1>3
<1>5. end(l - 1) = 0 /\ end(l) = 0
  BY <1>1, <1>4
<1>6. end(l) = end(l - 1) + ls[l].len \/ ls[l].len > available(h)
  BY DEF HeaderOK, WholeLines
<1> HIDE DEF end
<1>7. available(h) = iobuf_size
  BY <1>1, SizeAssumption DEF available
<1> QED
  BY <1>3, <1>5, <1>6, <1>7

\* A line written to the header, or left out because it does not fit.
LEMMA OneLine ==
  ASSUME NEW h, NEW ls, HeaderOK(h, ls), NEW kind \in Kinds, NEW n \in Nat, n > 0,
         kind = "field" => StatusSeen(ls)
  PROVE  LET new == Emit(h, Len(ls) + 1, n)
         IN  HeaderOK(new, Append(ls, [kind |-> kind, len |-> n, end |-> Len(new)]))
<1> DEFINE x == Len(ls) + 1
           new == Emit(h, x, n)
           rec == [kind |-> kind, len |-> n, end |-> Len(new)]
           ls2 == Append(ls, rec)
<1>h. /\ h \in Seq(Nat) /\ Len(h) \in Nat /\ DOMAIN h = 1 .. Len(h) /\ Len(h) <= iobuf_size
      /\ ls \in Seq(LineRec) /\ Len(ls) \in Nat /\ DOMAIN ls = 1 .. Len(ls)
      /\ x \in Nat /\ Nul \in Nat
      /\ \A l \in DOMAIN ls : ls[l].end \in Nat /\ ls[l].len \in Nat /\ ls[l].kind \in Kinds
  <2>1. h \in Seq(Nat) /\ ls \in Seq(LineRec) /\ Len(h) <= iobuf_size
    BY DEF HeaderOK, WholeLines
  <2>2. \A l \in DOMAIN ls : ls[l] \in LineRec
    BY <2>1
  <2>3. \A l \in DOMAIN ls : ls[l].end \in Nat /\ ls[l].len \in Nat /\ ls[l].kind \in Kinds
    BY <2>2 DEF LineRec
  <2> QED
    BY <2>1, <2>3 DEF Nul
<1>a. available(h) = iobuf_size - Len(h) /\ available(new) = iobuf_size - Len(new)
  BY DEF available
<1> HIDE DEF x, new
<1>1. /\ new \in Seq(Nat) /\ Len(new) <= iobuf_size
      /\ Len(new) = IF n <= available(h) THEN Len(h) + n ELSE Len(h)
  BY <1>h, EmitType DEF new
<1>2. \A i \in 1 .. Len(h) : new[i] = h[i]
  BY <1>h, EmitKeeps DEF new
<1>3. n <= available(h) => \A i \in Len(h) + 1 .. Len(h) + n :
                             new[i] = x \/ (new[i] = Nul /\ i = iobuf_size)
  <2> SUFFICES ASSUME n <= available(h)
               PROVE  \A i \in Len(h) + 1 .. Len(h) + n :
                        new[i] = x \/ (new[i] = Nul /\ i = iobuf_size)
    OBVIOUS
  <2> QED
    BY <1>h, EmitAdds DEF new
<1>4. /\ Len(new) \in Nat /\ DOMAIN new = 1 .. Len(new) /\ Len(h) <= Len(new)
      /\ available(new) <= available(h) /\ available(h) \in Int /\ available(new) \in Int
  <2>1. Len(new) \in Nat /\ DOMAIN new = 1 .. Len(new)
    BY <1>1
  <2>2. Len(h) \in Nat /\ iobuf_size \in Int /\ n \in Nat
    BY <1>h, SizeAssumption
  <2>3. Len(h) <= Len(new)
    BY <1>1, <2>2
  <2> QED
    BY <2>1, <2>2, <2>3, <1>a
<1>5. /\ rec \in LineRec /\ rec.kind = kind /\ rec.len = n /\ rec.end = Len(new)
  BY <1>4 DEF LineRec
<1> HIDE DEF rec
<1>6. /\ ls2 \in Seq(LineRec) /\ Len(ls2) = Len(ls) + 1 /\ DOMAIN ls2 = 1 .. Len(ls) + 1
      /\ \A l \in 1 .. Len(ls) : ls2[l] = ls[l]
      /\ ls2[x] = rec
  BY <1>5, <1>h DEF x
<1> HIDE DEF ls2
<1>7. \A i \in DOMAIN new : new[i] \in 0 .. Len(ls2)
  <2> TAKE i \in DOMAIN new
  <2>1. CASE i \in 1 .. Len(h)
    <3>1. h[i] \in 0 .. Len(ls)
      BY <2>1, <1>h DEF HeaderOK
    <3> QED
      BY <2>1, <3>1, <1>2, <1>6, <1>h
  <2>2. CASE i \notin 1 .. Len(h)
    <3>1. n <= available(h) /\ i \in Len(h) + 1 .. Len(h) + n
      BY <2>2, <1>1, <1>4, <1>h
    <3>2. new[i] = x \/ new[i] = Nul
      BY <3>1, <1>3
    <3> QED
      BY <3>2, <1>6, <1>h DEF x, Nul
  <2> QED
    BY <2>1, <2>2
<1>8. \A l \in DOMAIN ls2 : ls2[l].end <= Len(new)
  <2> TAKE l \in DOMAIN ls2
  <2>1. CASE l \in DOMAIN ls
    <3>1. ls[l].end <= Len(h) /\ ls2[l] = ls[l]
      BY <2>1, <1>6, <1>h DEF HeaderOK
    <3> QED
      BY <2>1, <3>1, <1>h, <1>4
  <2>2. CASE l = x
    BY <2>2, <1>5, <1>6, <1>4
  <2> QED
    BY <2>1, <2>2, <1>6, <1>h DEF x
<1>9. WholeLines(new, ls2)
  <2> DEFINE end(l) == IF l = 0 THEN 0 ELSE ls[l].end
             end2(l) == IF l = 0 THEN 0 ELSE ls2[l].end
  <2>1. /\ Len(h) = end(Len(ls))
        /\ \A l \in DOMAIN ls :
             \/ /\ end(l) = end(l - 1) + ls[l].len
                /\ \A i \in end(l - 1) + 1 .. end(l) :
                     h[i] = l \/ (h[i] = Nul /\ i = iobuf_size)
             \/ end(l) = end(l - 1) /\ ls[l].len > available(h)
    BY DEF HeaderOK, WholeLines
  <2>2. \A l \in 0 .. Len(ls) : end2(l) = end(l) /\ end(l) \in Nat /\ end(l) <= Len(h)
    <3>1. \A l \in 1 .. Len(ls) : ls[l].end <= Len(h)
      BY <1>h DEF HeaderOK
    <3> QED
      BY <3>1, <1>6, <1>h
  <2>3. end2(x) = Len(new) /\ x # 0 /\ x - 1 = Len(ls)
    BY <1>5, <1>6, <1>h DEF x
  <2> HIDE DEF end, end2
  <2>4. Len(new) = end2(Len(ls2))
    BY <2>3, <1>6 DEF x
  <2>5. ASSUME NEW l \in DOMAIN ls2
        PROVE  \/ /\ end2(l) = end2(l - 1) + ls2[l].len
                  /\ \A i \in end2(l - 1) + 1 .. end2(l) :
                       new[i] = l \/ (new[i] = Nul /\ i = iobuf_size)
               \/ end2(l) = end2(l - 1) /\ ls2[l].len > available(new)
    <3>1. CASE l \in DOMAIN ls
      <4>1. /\ l \in 0 .. Len(ls) /\ l - 1 \in 0 .. Len(ls)
        BY <3>1, <1>h
      <4>2. /\ end2(l) = end(l) /\ end2(l - 1) = end(l - 1) /\ ls2[l] = ls[l]
            /\ end(l) \in Nat /\ end(l - 1) \in Nat /\ end(l) <= Len(h)
        BY <4>1, <2>2, <3>1, <1>6, <1>h
      <4>3. \A i \in end(l - 1) + 1 .. end(l) : new[i] = h[i]
        BY <4>2, <1>2, <1>h
      <4>4. ls[l].len > available(h) => ls[l].len > available(new)
        BY <3>1, <1>4, <1>h
      <4> QED
        BY <4>2, <4>3, <4>4, <2>1, <3>1
    <3>2. CASE l = x
      <4>1. end2(l - 1) = Len(h) /\ end2(l) = Len(new) /\ ls2[l].len = n
        <5>1. Len(ls) \in 0 .. Len(ls)
          BY <1>h
        <5> QED
          BY <5>1, <3>2, <2>1, <2>2, <2>3, <1>5, <1>6
      <4>2. CASE n <= available(h)
        BY <4>1, <4>2, <3>2, <1>1, <1>3
      <4>3. CASE ~(n <= available(h))
        BY <4>1, <4>3, <1>1, <1>4
      <4> QED
        BY <4>2, <4>3
    <3> QED
      BY <3>1, <3>2, <1>6, <1>h DEF x
  <2> QED
    BY <2>4, <2>5, <1>1 DEF WholeLines, end2
<1>10. NoFieldFirst(new, ls2)
  <2> SUFFICES ASSUME new # <<>>, new[1] # Nul, ls2[new[1]].kind = "field"
               PROVE  \E k \in 1 .. new[1] - 1 : ls2[k].kind = "status" /\ ls2[k].len > iobuf_size
    BY DEF NoFieldFirst
  <2>1. CASE h # <<>>
    <3>1. 1 \in 1 .. Len(h) /\ new[1] = h[1] /\ h[1] \in 1 .. Len(ls)
      <4>1. 1 \in 1 .. Len(h)
        BY <2>1, <1>h
      <4>2. new[1] = h[1] /\ h[1] \in 0 .. Len(ls)
        BY <4>1, <1>2, <1>h DEF HeaderOK
      <4> QED
        BY <4>1, <4>2 DEF Nul
    <3>2. \A k \in 1 .. h[1] - 1 : ls2[k] = ls[k]
      BY <3>1, <1>6, <1>h
    <3>3. ls2[h[1]] = ls[h[1]]
      BY <3>1, <1>6
    <3>4. \E k \in 1 .. h[1] - 1 : ls[k].kind = "status" /\ ls[k].len > iobuf_size
      BY <3>1, <3>3, <2>1 DEF HeaderOK, NoFieldFirst
    <3> QED
      BY <3>1, <3>2, <3>4
  <2>2. CASE h = <<>>
    <3>1. Len(h) = 0 /\ Len(new) # 0
      BY <2>2, <1>1
    <3>2. n <= available(h) /\ 1 \in Len(h) + 1 .. Len(h) + n
      BY <3>1, <1>1
    <3>3. new[1] = x
      BY <3>2, <1>3
    <3>4. PICK k \in DOMAIN ls : ls[k].kind = "status"
      BY <3>3, <1>5, <1>6 DEF StatusSeen
    <3>5. ls[k].len > iobuf_size
      BY <2>2, EmptyHeader
    <3>6. k \in 1 .. x - 1 /\ ls2[k] = ls[k]
      BY <1>6, <1>h DEF x
    <3> QED
      BY <3>3, <3>4, <3>5, <3>6
  <2> QED
    BY <2>1, <2>2
<1> QED
  BY <1>1, <1>6, <1>7, <1>8, <1>9, <1>10 DEF HeaderOK, ls2, rec, new, x
-----------------------------------------------------------------------------
(* The body *)

\* What the records of the texts hold.
LEMMA TextTypes ==
  ASSUME NEW ts \in Seq(TextRec), NEW t \in DOMAIN ts
  PROVE  ts[t].len \in Nat /\ ts[t].len > 0 /\ ts[t].buf \in Nat /\ ts[t].end \in Nat
<1>1. ts[t] \in TextRec
  OBVIOUS
<1>2. ts[t].len \in Lens /\ ts[t].buf \in Nat /\ ts[t].end \in Nat
  BY <1>1 DEF TextRec
<1>3. ts[t].len \in Nat \ {0}
  BY <1>2, LensAssumption
<1> QED
  BY <1>2, <1>3

\* Text x of n bytes is added after the first f bytes of buffer B, where the body
\* ended.
Adds(m, m2, x, n, f, B) ==
  /\ B \in DOMAIN m2
  /\ \A b \in DOMAIN m : /\ b \in DOMAIN m2 /\ Len(m[b]) <= Len(m2[b])
                         /\ \A i \in 1 .. Len(m[b]) : m2[b][i] = m[b][i]
                         /\ b < B \/ (b = B /\ Len(m[b]) <= f)
  /\ \A b \in DOMAIN m2 : b # B => b \in DOMAIN m /\ Len(m2[b]) = Len(m[b])
  /\ Len(m2[B]) = f + n
  /\ f > 0 => B \in DOMAIN m /\ f <= Len(m[B])
  /\ \A i \in f + 1 .. f + n : m2[B][i] = x \/ (m2[B][i] = Nul /\ i = iobuf_size)

LEMMA TextAdded ==
  ASSUME NEW m \in Seq(Seq(Nat)), NEW m2 \in Seq(Seq(Nat)), NEW ts \in Seq(TextRec),
         Placed(m, ts), NEW n \in Lens, NEW f \in Nat, NEW B,
         Adds(m, m2, Len(ts) + 1, n, f, B)
  PROVE  Placed(m2, Append(ts, [len |-> n, buf |-> B, end |-> Len(m2[B])]))
<1>a. /\ B \in DOMAIN m2
      /\ \A b \in DOMAIN m : /\ b \in DOMAIN m2 /\ Len(m[b]) <= Len(m2[b])
                             /\ \A i \in 1 .. Len(m[b]) : m2[b][i] = m[b][i]
                             /\ b < B \/ (b = B /\ Len(m[b]) <= f)
      /\ \A b \in DOMAIN m2 : b # B => b \in DOMAIN m /\ Len(m2[b]) = Len(m[b])
      /\ Len(m2[B]) = f + n
      /\ f > 0 => B \in DOMAIN m /\ f <= Len(m[B])
      /\ \A i \in f + 1 .. f + n :
           m2[B][i] = Len(ts) + 1 \/ (m2[B][i] = Nul /\ i = iobuf_size)
  BY DEF Adds
<1> DEFINE x == [len |-> n, buf |-> B, end |-> Len(m2[B])]
           ts2 == Append(ts, x)
<1>0. /\ n \in Nat /\ n > 0 /\ Len(ts) \in Nat /\ DOMAIN ts = 1 .. Len(ts)
      /\ x.len = n /\ x.buf = B /\ x.end = f + n
      /\ B \in Nat /\ DOMAIN m \subseteq Nat
  <2>1. n \in Nat \ {0}
    BY LensAssumption
  <2>2. B \in Nat /\ DOMAIN m \subseteq Nat
    <3>1. B \in 1 .. Len(m2) /\ DOMAIN m = 1 .. Len(m)
      BY <1>a
    <3> QED
      BY <3>1
  <2>3. Len(m2[B]) = f + n
    BY <1>a
  <2> QED
    BY <2>1, <2>2, <2>3
<1>1. x \in TextRec
  BY <1>0 DEF TextRec
<1>l. /\ \A b \in DOMAIN m : Len(m[b]) \in Nat /\ DOMAIN m[b] = 1 .. Len(m[b])
      /\ \A b \in DOMAIN m2 : Len(m2[b]) \in Nat /\ DOMAIN m2[b] = 1 .. Len(m2[b])
  <2>1. /\ \A b \in DOMAIN m : m[b] \in Seq(Nat)
        /\ \A b \in DOMAIN m2 : m2[b] \in Seq(Nat)
    OBVIOUS
  <2> QED
    BY <2>1
<1> HIDE DEF x
<1>2. /\ Len(ts2) = Len(ts) + 1 /\ DOMAIN ts2 = 1 .. Len(ts) + 1
      /\ \A t \in 1 .. Len(ts) : ts2[t] = ts[t]
      /\ ts2[Len(ts) + 1] = x
  BY <1>1
<1> HIDE DEF ts2
<1>3. ASSUME NEW t \in DOMAIN ts
      PROVE  TextAt(m2, t, ts[t]) /\ InTurn(ts[t], x)
  <2> DEFINE y == ts[t]
  <2>1. /\ y.len \in Nat /\ y.len > 0 /\ y.buf \in Nat /\ y.end \in Nat
    BY TextTypes
  <2> HIDE DEF y
  <2>2. /\ y.buf \in DOMAIN m /\ y.end <= Len(m[y.buf]) /\ y.len <= y.end
        /\ \A i \in y.end - y.len + 1 .. y.end :
             m[y.buf][i] = t \/ (m[y.buf][i] = Nul /\ i = iobuf_size)
    BY DEF Placed, TextAt, y
  <2>3. /\ y.buf \in DOMAIN m2 /\ Len(m[y.buf]) <= Len(m2[y.buf])
        /\ \A i \in 1 .. Len(m[y.buf]) : m2[y.buf][i] = m[y.buf][i]
        /\ y.buf < B \/ (y.buf = B /\ Len(m[y.buf]) <= f)
        /\ Len(m[y.buf]) \in Nat /\ Len(m2[y.buf]) \in Nat
    BY <2>2, <1>l, <1>a
  <2>n. PICK e \in Nat, l \in Nat, a \in Nat, a2 \in Nat :
          e = y.end /\ l = y.len /\ a = Len(m[y.buf]) /\ a2 = Len(m2[y.buf])
    BY <2>1, <2>3
  <2>o. e <= a /\ l <= e /\ a <= a2
    BY <2>n, <2>2, <2>3
  <2>4. y.end <= Len(m2[y.buf])
    <3>1. e <= a2
      BY <2>o
    <3> QED
      BY <3>1, <2>n
  <2>5. \A i \in y.end - y.len + 1 .. y.end : i \in 1 .. Len(m[y.buf])
    <3>1. \A i \in e - l + 1 .. e : i \in 1 .. a
      BY <2>o
    <3> QED
      BY <3>1, <2>n
  <2>6. TextAt(m2, t, y)
    BY <2>2, <2>3, <2>4, <2>5 DEF TextAt
  <2>7. y.buf = B => y.end <= x.end - x.len
    <3>1. x.end - x.len = f
      BY <1>0
    <3>2. y.buf = B => a <= f
      BY <2>3, <2>n, <1>0
    <3>3. y.buf = B => e <= f
      BY <3>2, <2>o
    <3> QED
      BY <3>1, <3>3, <2>n
  <2> QED
    BY <2>3, <2>6, <2>7, <1>0 DEF InTurn, y
<1>4. TextAt(m2, Len(ts) + 1, x)
  <2>1. x.end - x.len + 1 = f + 1 /\ x.len <= x.end /\ x.end = Len(m2[B])
    BY <1>0, <1>a
  <2> QED
    BY <2>1, <1>0, <1>a DEF TextAt
<1>5. ASSUME NEW t \in DOMAIN ts2 PROVE TextAt(m2, t, ts2[t])
  <2>1. CASE t = Len(ts) + 1
    BY <2>1, <1>2, <1>4
  <2>2. CASE t \in DOMAIN ts
    <3>1. TextAt(m2, t, ts[t])
      BY <2>2, <1>3
    <3> QED
      BY <2>2, <3>1, <1>2, <1>0
  <2>3. t \in 1 .. Len(ts) + 1 /\ Len(ts) \in Nat /\ DOMAIN ts = 1 .. Len(ts)
    BY <1>2, <1>0
  <2>4. t = Len(ts) + 1 \/ t \in DOMAIN ts
    BY <2>3
  <2> QED
    BY <2>1, <2>2, <2>4
<1>6. ASSUME NEW t \in DOMAIN ts2, NEW u \in DOMAIN ts2, t < u
      PROVE  InTurn(ts2[t], ts2[u])
  <2>1. t \in DOMAIN ts /\ ts2[t] = ts[t]
    BY <1>6, <1>2, <1>0
  <2>2. CASE u = Len(ts) + 1
    BY <2>1, <2>2, <1>2, <1>3
  <2>3. CASE u \in DOMAIN ts
    BY <2>1, <2>3, <1>2, <1>0, <1>6 DEF Placed
  <2> QED
    BY <2>2, <2>3, <1>2, <1>0
<1>7. ASSUME NEW b \in DOMAIN m2, NEW i \in DOMAIN m2[b]
      PROVE  \E t \in DOMAIN ts2 : ts2[t].buf = b /\ i \in ts2[t].end - ts2[t].len + 1 .. ts2[t].end
  <2>1. CASE b \in DOMAIN m /\ i \in DOMAIN m[b]
    <3>1. PICK t \in DOMAIN ts : ts[t].buf = b /\ i \in ts[t].end - ts[t].len + 1 .. ts[t].end
      BY <2>1 DEF Placed
    <3>2. t \in DOMAIN ts2 /\ ts2[t] = ts[t]
      BY <1>2, <1>0
    <3> QED
      BY <3>1, <3>2
  <2>2. CASE ~(b \in DOMAIN m /\ i \in DOMAIN m[b])
    <3>1. b = B
      BY <2>2, <1>l, <1>a
    <3>2. i \in f + 1 .. f + n
      <4>1. i \in 1 .. f + n
        BY <3>1, <1>l, <1>a
      <4>2. ~(i <= f)
        <5> SUFFICES ASSUME i <= f PROVE FALSE
          OBVIOUS
        <5>1. B \in DOMAIN m /\ f <= Len(m[B])
          BY <4>1, <1>a
        <5>2. i \in 1 .. Len(m[B])
          BY <5>1, <4>1, <1>l
        <5> QED
          BY <5>1, <5>2, <2>2, <3>1, <1>l
      <4> QED
        BY <4>1, <4>2, <1>0
    <3>3. x.end - x.len + 1 = f + 1 /\ Len(ts) + 1 \in DOMAIN ts2
      BY <1>0, <1>2
    <3> QED
      BY <3>1, <3>2, <3>3, <1>0, <1>2
  <2> QED
    BY <2>1, <2>2
<1> QED
  BY <1>5, <1>6, <1>7 DEF Placed, ts2, x
-----------------------------------------------------------------------------
(* The header's actions *)

\* A status line stays seen.
LEMMA SeenStays ==
  ASSUME NEW ls \in Seq(LineRec), NEW rec \in LineRec, StatusSeen(ls) \/ rec.kind = "status"
  PROVE  StatusSeen(Append(ls, rec))
<1>1. /\ Len(ls) \in Nat /\ DOMAIN ls = 1 .. Len(ls) /\ DOMAIN Append(ls, rec) = 1 .. Len(ls) + 1
      /\ \A l \in 1 .. Len(ls) : Append(ls, rec)[l] = ls[l]
      /\ Append(ls, rec)[Len(ls) + 1] = rec
  OBVIOUS
<1>2. CASE StatusSeen(ls)
  BY <1>1, <1>2 DEF StatusSeen
<1>3. CASE rec.kind = "status"
  BY <1>1, <1>3 DEF StatusSeen
<1> QED
  BY <1>2, <1>3

\* A line, written or left out, keeps the header's invariant.
LEMMA WrittenStep ==
  ASSUME HeaderOK(header_, lines), NEW kind \in Kinds, NEW n \in Nat, n > 0,
         kind = "field" => StatusSeen(lines), Written(kind, n)
  PROVE  HeaderOK(header_', lines') /\ (StatusSeen(lines) => StatusSeen(lines'))
<1> DEFINE new == Emit(header_, Len(lines) + 1, n)
           rec == [kind |-> kind, len |-> n, end |-> Len(new)]
<1>1. header_' = new /\ lines' = Append(lines, rec)
  BY DEF Written, NewLine
<1>2. HeaderOK(new, Append(lines, rec))
  BY OneLine
<1>3. StatusSeen(lines) => StatusSeen(Append(lines, rec))
  <2>1. lines \in Seq(LineRec) /\ Len(new) \in Nat
    BY <1>2 DEF HeaderOK
  <2> HIDE DEF new
  <2>2. rec \in LineRec
    BY <2>1 DEF LineRec
  <2> HIDE DEF rec
  <2> QED
    BY <2>1, <2>2, SeenStays
<1> QED
  BY <1>1, <1>2, <1>3

\* The status line and the date.
LEMMA StatusStep ==
  ASSUME HeaderOK(header_, lines), NEW n \in Nat, n > 0, status(n)
  PROVE  HeaderOK(header_', lines') /\ StatusSeen(lines')
<1> DEFINE first == Emit(header_, Len(lines) + 1, n)
           a == [kind |-> "status", len |-> n, end |-> Len(first)]
           ls == Append(lines, a)
           second == Emit(first, Len(ls) + 1, DateLen)
           b == [kind |-> "field", len |-> DateLen, end |-> Len(second)]
<1>1. HeaderOK(first, ls)
  BY OneLine DEF Kinds
<1>t. /\ lines \in Seq(LineRec) /\ ls \in Seq(LineRec) /\ Len(lines) \in Nat
      /\ Len(first) \in Nat /\ DateLen \in Nat /\ DateLen > 0 /\ a \in LineRec
  <2>1. lines \in Seq(LineRec) /\ ls \in Seq(LineRec) /\ Len(lines) \in Nat /\ Len(first) \in Nat
    BY <1>1 DEF HeaderOK
  <2> HIDE DEF first, ls
  <2>2. a \in LineRec
    BY <2>1 DEF LineRec, Kinds
  <2> QED
    BY <2>1, <2>2, DateAssumption
<1>s. StatusSeen(ls)
  <2>1. a.kind = "status"
    OBVIOUS
  <2> HIDE DEF a
  <2> QED
    BY <2>1, <1>t, SeenStays
<1>2. HeaderOK(second, Append(ls, b))
  <2> HIDE DEF first, ls
  <2> QED
    BY <1>1, <1>t, <1>s, OneLine DEF Kinds
<1>3. b \in LineRec
  <2>1. Len(second) \in Nat
    BY <1>2 DEF HeaderOK
  <2> HIDE DEF second
  <2> QED
    BY <2>1, <1>t DEF LineRec, Kinds
<1>4. Len(ls) = Len(lines) + 1
  BY <1>t
<1>5. header_' = second /\ lines' = lines \o <<a, b>>
  <2> HIDE DEF first, ls
  <2>1. header_' = Emit(first, Len(lines) + 1 + 1, DateLen)
    BY DEF status, NewLine, first
  <2>2. lines' = lines \o <<a, [kind |-> "field", len |-> DateLen, end |-> Len(header_')]>>
    BY DEF status, NewLine, first
  <2>3. Len(lines) + 1 + 1 = Len(ls) + 1
    BY <1>4, <1>t
  <2> QED
    BY <2>1, <2>2, <2>3
<1>6. lines \o <<a, b>> = Append(ls, b)
  <2> HIDE DEF a, b
  <2> QED
    BY <1>t, <1>3
<1>7. StatusSeen(Append(ls, b))
  <2> HIDE DEF ls, b
  <2> QED
    BY <1>t, <1>s, <1>3, SeenStays
<1> QED
  BY <1>2, <1>5, <1>6, <1>7
-----------------------------------------------------------------------------
(* The body's actions *)

\* A buffer that holds no more than it can, and no bytes but those of texts.
Sound(buf) == Len(buf) <= iobuf_size /\ \A i \in DOMAIN buf : buf[i] \in 0 .. MaxTexts

\* What a new text leaves of the last buffer, or of a new one: the old bytes, and
\* then the text.
Extends(old, new, x, n) ==
  /\ new \in Seq(Nat) /\ Len(new) = Len(old) + n
  /\ \A i \in 1 .. Len(old) : new[i] = old[i]
  /\ \A i \in Len(old) + 1 .. Len(old) + n :
       new[i] = x \/ (new[i] = Nul /\ i = iobuf_size)

LEMMA EmitExtends ==
  ASSUME NEW buf \in Seq(Nat), Len(buf) <= iobuf_size, NEW x \in Nat, NEW n \in Nat, n > 0,
         n <= available(buf)
  PROVE  Extends(buf, Emit(buf, x, n), x, n) /\ Len(Emit(buf, x, n)) <= iobuf_size
  BY EmitFacts DEF Extends

LEMMA GrownExtends ==
  ASSUME NEW buf \in Seq(Nat), Len(buf) <= iobuf_size, NEW x \in Nat, NEW n \in Nat,
         n <= available(buf)
  PROVE  Extends(buf, buf \o Repeat(x, n), x, n) /\ Len(buf \o Repeat(x, n)) <= iobuf_size
<1> DEFINE new == Grown(buf, x, n)
<1>1. new \in Seq(Nat) /\ Len(new) = Len(buf) + n
  BY GrownType
<1>2. /\ \A i \in 1 .. Len(buf) : new[i] = buf[i]
      /\ \A i \in Len(buf) + 1 .. Len(buf) + n : new[i] = x
  BY GrownBytes
<1> HIDE DEF new
<1>3. Len(new) <= iobuf_size
  BY <1>1, SizeAssumption DEF available
<1>4. Extends(buf, new, x, n)
  BY <1>1, <1>2 DEF Extends
<1> QED
  BY <1>3, <1>4 DEF new, Grown

\* Such a buffer is sound, if the text is one of those allowed.
LEMMA ExtendsSound ==
  ASSUME NEW old \in Seq(Nat), NEW new, NEW x \in 0 .. MaxTexts, NEW n \in Nat,
         Sound(old), Extends(old, new, x, n), Len(new) <= iobuf_size
  PROVE  Sound(new)
<1>1. /\ Len(old) \in Nat /\ new \in Seq(Nat) /\ Len(new) = Len(old) + n
      /\ DOMAIN old = 1 .. Len(old) /\ DOMAIN new = 1 .. Len(new)
  BY DEF Extends
<1>2. ASSUME NEW i \in DOMAIN new PROVE new[i] \in 0 .. MaxTexts
  <2>1. CASE i \in 1 .. Len(old)
    BY <2>1, <1>1 DEF Extends, Sound
  <2>2. CASE i \in Len(old) + 1 .. Len(old) + n
    <3>1. new[i] = x \/ new[i] = Nul
      BY <2>2 DEF Extends
    <3>2. 0 \in 0 .. MaxTexts
      BY BoundAssumption
    <3> QED
      BY <3>1, <3>2 DEF Nul
  <2> QED
    BY <2>1, <2>2, <1>1
<1> QED
  BY <1>2 DEF Sound

\* A list of sound buffers.
BuffersOK(m) == m \in Seq(Seq(Nat)) /\ \A b \in DOMAIN m : Sound(m[b])

\* The record of the text that was written.
LEMMA WroteType ==
  ASSUME texts \in Seq(TextRec), NEW n \in Lens, Wrote(n), BuffersOK(mem)', body_' \in Seq(Nat),
         (body_ # <<>> /\ \A b \in DOMAIN body_ : body_[b] \in DOMAIN mem)'
  PROVE  texts' \in Seq(TextRec)
<1>1. Len(body_') \in DOMAIN body_' /\ Len(body_') \in Nat
  OBVIOUS
<1>2. body_'[Len(body_')] \in DOMAIN mem'
  BY <1>1
<1>3. mem'[body_'[Len(body_')]] \in Seq(Nat)
  BY <1>2 DEF BuffersOK
<1>4. Len(mem'[body_'[Len(body_')]]) \in Nat
  BY <1>3
<1>5. [len |-> n, buf |-> Len(body_'), end |-> Len(mem'[body_'[Len(body_')]])] \in TextRec
  BY <1>1, <1>4 DEF TextRec
<1> QED
  BY <1>5 DEF Wrote

\* The last buffer, while the handler runs.
LEMMA LastBuffer ==
  ASSUME Buffers, OwnBuffers, handler = "runs"
  PROVE  /\ Back \in DOMAIN body_ /\ body_[Back] \in DOMAIN mem
         /\ mem[body_[Back]] \in Seq(Nat) /\ Sound(mem[body_[Back]])
         /\ Len(mem[body_[Back]]) <= iobuf_size
         /\ BuffersOK(mem) /\ Len(mem) \in Nat /\ DOMAIN mem = 1 .. Len(mem)
         /\ Len(body_) \in Nat /\ DOMAIN body_ = 1 .. Len(body_)
<1>1. body_ \in Seq(Nat) /\ body_ # <<>> /\ mem \in Seq(Seq(Nat))
  BY DEF Buffers, OwnBuffers
<1>2. Back \in DOMAIN body_ /\ Len(body_) \in Nat
  BY <1>1 DEF Back
<1>3. body_[Back] \in DOMAIN mem
  BY <1>2 DEF Buffers
<1>4. BuffersOK(mem)
  BY DEF Buffers, BuffersOK, Sound
<1> QED
  BY <1>1, <1>2, <1>3, <1>4 DEF BuffersOK, Sound

\* A text goes into the last buffer.
LEMMA IntoLast ==
  ASSUME Buffers, OwnBuffers, handler = "runs", Len(texts) < MaxTexts,
         NEW n \in Lens, NEW new, Extends(mem[body_[Back]], new, NewText, n),
         Len(new) <= iobuf_size,
         mem' = [mem EXCEPT ![body_[Back]] = new],
         UNCHANGED <<body_, spoilt, handler>>, Wrote(n)
  PROVE  Buffers' /\ OwnBuffers'
<1> DEFINE L == body_[Back]
<1>0. /\ n \in Nat /\ n > 0
  <2>1. n \in Nat \ {0}
    BY LensAssumption
  <2> QED
    BY <2>1
<1>1. /\ Back \in DOMAIN body_ /\ L \in DOMAIN mem /\ mem[L] \in Seq(Nat) /\ Sound(mem[L])
      /\ BuffersOK(mem) /\ Len(mem) \in Nat /\ DOMAIN mem = 1 .. Len(mem)
      /\ Len(body_) \in Nat /\ DOMAIN body_ = 1 .. Len(body_)
  BY LastBuffer
<1>2. NewText \in 0 .. MaxTexts /\ texts \in Seq(TextRec)
  BY BoundAssumption DEF NewText, Buffers
<1>3. Sound(new) /\ new \in Seq(Nat)
  <2>1. new \in Seq(Nat)
    BY DEF Extends
  <2>2. Sound(new)
    BY <1>0, <1>1, <1>2, ExtendsSound
  <2> QED
    BY <2>1, <2>2
<1>4. BuffersOK(mem)' /\ Len(mem') = Len(mem) /\ DOMAIN mem' = DOMAIN mem
  BY <1>1, <1>3 DEF BuffersOK
<1>5. body_' \in Seq(Nat) /\ body_' # <<>> /\ \A b \in DOMAIN body_' : body_'[b] \in DOMAIN mem'
  BY <1>4 DEF Buffers, OwnBuffers
<1>6. texts' \in Seq(TextRec)
  BY <1>2, <1>4, <1>5, WroteType
<1>7. Buffers'
  BY <1>4, <1>5, <1>6 DEF Buffers, BuffersOK, Sound
<1>8. ASSUME ~spoilt PROVE Placed(mem', texts')
  <2>1. /\ Len(mem) = Len(body_) /\ L = Len(body_) /\ Placed(mem, texts)
        /\ \A b \in DOMAIN body_ : body_[b] = b
    BY <1>8, <1>1 DEF OwnBuffers, Back
  <2> DEFINE f == Len(mem[L])
  <2>2. f \in Nat /\ mem'[L] = new /\ Len(new) = f + n
    BY <1>1 DEF Extends
  <2>3. \A b \in DOMAIN mem : b # L => mem'[b] = mem[b]
    BY <1>1
  <2>4. ASSUME NEW b \in DOMAIN mem
        PROVE  /\ b \in DOMAIN mem' /\ Len(mem[b]) <= Len(mem'[b])
               /\ \A i \in 1 .. Len(mem[b]) : mem'[b][i] = mem[b][i]
               /\ b < L \/ (b = L /\ Len(mem[b]) <= f)
    <3>1. mem[b] \in Seq(Nat) /\ Len(mem[b]) \in Nat
      BY <1>1 DEF BuffersOK
    <3>2. CASE b = L
      BY <3>1, <3>2, <2>2, <1>0, <1>4 DEF Extends
    <3>3. CASE b # L
      BY <3>1, <3>3, <2>1, <2>3, <1>1, <1>4
    <3> QED
      BY <3>2, <3>3
  <2>5. \A b \in DOMAIN mem' : b # L => b \in DOMAIN mem /\ Len(mem'[b]) = Len(mem[b])
    BY <2>3, <1>4
  <2>6. \A i \in f + 1 .. f + n :
          mem'[L][i] = Len(texts) + 1 \/ (mem'[L][i] = Nul /\ i = iobuf_size)
    BY <2>2 DEF Extends, NewText
  <2>7. texts' = Append(texts, [len |-> n, buf |-> L, end |-> Len(mem'[L])])
    <3>1. Len(body_') = L /\ body_'[L] = L
      BY <2>1, <1>1 DEF Back
    <3> QED
      BY <3>1 DEF Wrote
  <2>8. mem \in Seq(Seq(Nat)) /\ mem' \in Seq(Seq(Nat)) /\ L \in DOMAIN mem'
    BY <1>1, <1>4 DEF BuffersOK
  <2>9. Len(mem'[L]) = f + n /\ (f > 0 => L \in DOMAIN mem /\ f <= Len(mem[L]))
    BY <2>2, <1>1
  <2> HIDE DEF L, f
  <2>10. Adds(mem, mem', Len(texts) + 1, n, f, L)
    BY <2>4, <2>5, <2>6, <2>8, <2>9 DEF Adds
  <2> QED
    BY <2>1, <2>2, <2>7, <2>8, <2>10, <1>2, TextAdded
<1>9. OwnBuffers'
  BY <1>4, <1>5, <1>8 DEF OwnBuffers
<1> QED
  BY <1>7, <1>9

\* A text goes into a new buffer.
LEMMA IntoNew ==
  ASSUME Buffers, OwnBuffers, handler = "runs", Len(texts) < MaxTexts,
         NEW n \in Lens, NEW new, Extends(<<>>, new, NewText, n), Len(new) <= iobuf_size,
         mem' = Append(mem, new), body_' = Append(body_, New),
         UNCHANGED <<spoilt, handler>>, Wrote(n)
  PROVE  Buffers' /\ OwnBuffers'
<1>0. /\ n \in Nat /\ n > 0
  <2>1. n \in Nat \ {0}
    BY LensAssumption
  <2> QED
    BY <2>1
<1>1. /\ BuffersOK(mem) /\ Len(mem) \in Nat /\ DOMAIN mem = 1 .. Len(mem)
      /\ Len(body_) \in Nat /\ DOMAIN body_ = 1 .. Len(body_)
  BY LastBuffer
<1>m. mem \in Seq(Seq(Nat)) /\ body_ \in Seq(Nat) /\ New = Len(mem) + 1 /\ New \in Nat
  BY <1>1 DEF BuffersOK, Buffers, New
<1>2. NewText \in 0 .. MaxTexts /\ texts \in Seq(TextRec)
  BY BoundAssumption DEF NewText, Buffers
<1>3. Sound(new) /\ new \in Seq(Nat) /\ Len(new) = n
  <2>1. <<>> \in Seq(Nat) /\ Len(<<>>) = 0 /\ Sound(<<>>)
    BY SizeAssumption DEF Sound
  <2>2. new \in Seq(Nat) /\ Len(new) = n
    BY <1>0, <2>1 DEF Extends
  <2>3. Sound(new)
    BY <1>0, <1>2, <2>1, ExtendsSound
  <2> QED
    BY <2>2, <2>3
<1>4. /\ mem' \in Seq(Seq(Nat)) /\ Len(mem') = New /\ DOMAIN mem' = 1 .. New
      /\ \A b \in 1 .. Len(mem) : mem'[b] = mem[b]
      /\ mem'[New] = new
  BY <1>m, <1>1, <1>3
<1>5. BuffersOK(mem)'
  BY <1>1, <1>3, <1>4, <1>m DEF BuffersOK
<1>6. /\ body_' \in Seq(Nat) /\ Len(body_') = Len(body_) + 1 /\ DOMAIN body_' = 1 .. Len(body_) + 1
      /\ \A b \in 1 .. Len(body_) : body_'[b] = body_[b]
      /\ body_'[Len(body_) + 1] = New
  BY <1>m, <1>1
<1>7. body_' # <<>>
  <2>1. Len(body_') # 0
    BY <1>6, <1>1
  <2> QED
    BY <2>1
<1>8. \A b \in DOMAIN body_' : body_'[b] \in DOMAIN mem'
  <2>1. \A b \in 1 .. Len(body_) : body_[b] \in 1 .. Len(mem)
    BY <1>1 DEF Buffers
  <2> QED
    BY <2>1, <1>1, <1>4, <1>6, <1>m
<1>9. texts' \in Seq(TextRec)
  BY <1>2, <1>5, <1>6, <1>7, <1>8, WroteType
<1>10. Buffers'
  BY <1>5, <1>6, <1>8, <1>9 DEF Buffers, BuffersOK, Sound
<1>11. ASSUME ~spoilt
       PROVE  /\ Len(mem') = Len(body_') /\ \A b \in DOMAIN body_' : body_'[b] = b
              /\ Placed(mem', texts')
  <2>1. Len(mem) = Len(body_) /\ Placed(mem, texts) /\ \A b \in DOMAIN body_ : body_[b] = b
    BY <1>11 DEF OwnBuffers
  <2>2. Len(mem') = Len(body_') /\ Len(body_') = New
    BY <2>1, <1>4, <1>6, <1>m
  <2>3. \A b \in DOMAIN body_' : body_'[b] = b
    BY <2>1, <1>1, <1>6, <1>m
  <2>4. texts' = Append(texts, [len |-> n, buf |-> New, end |-> Len(mem'[New])])
    <3>1. body_'[New] = New
      BY <2>1, <1>6, <1>m
    <3> QED
      BY <2>2, <3>1 DEF Wrote
  <2>5. ASSUME NEW b \in DOMAIN mem
        PROVE  /\ b \in DOMAIN mem' /\ Len(mem[b]) <= Len(mem'[b])
               /\ \A i \in 1 .. Len(mem[b]) : mem'[b][i] = mem[b][i]
               /\ b < New
    <3>1. mem[b] \in Seq(Nat) /\ Len(mem[b]) \in Nat
      BY <1>m
    <3> QED
      BY <3>1, <1>1, <1>4, <1>m
  <2>6. /\ New \in DOMAIN mem' /\ Len(mem'[New]) = 0 + n
        /\ \A b \in DOMAIN mem' : b # New => b \in DOMAIN mem /\ Len(mem'[b]) = Len(mem[b])
    <3>1. 0 + n = n /\ New \in 1 .. New
      BY <1>0, <1>1, <1>m
    <3>2. \A b \in 1 .. New : b # New => b \in 1 .. Len(mem)
      BY <1>1, <1>m
    <3>3. \A b \in DOMAIN mem' : b # New => b \in DOMAIN mem /\ mem'[b] = mem[b]
      BY <3>2, <1>1, <1>4
    <3> QED
      BY <3>1, <3>3, <1>3, <1>4
  <2>7. \A i \in 0 + 1 .. 0 + n :
          mem'[New][i] = Len(texts) + 1 \/ (mem'[New][i] = Nul /\ i = iobuf_size)
    <3>1. Len(<<>>) = 0
      OBVIOUS
    <3> QED
      BY <3>1, <1>4 DEF Extends, NewText
  <2>8. Adds(mem, mem', Len(texts) + 1, n, 0, New)
    BY <2>5, <2>6, <2>7 DEF Adds
  <2>9. Placed(mem', texts')
    BY <2>1, <2>4, <2>8, <1>2, <1>4, <1>m, TextAdded
  <2> QED
    BY <2>2, <2>3, <2>9
<1>12. OwnBuffers'
  BY <1>7, <1>11 DEF OwnBuffers
<1> QED
  BY <1>10, <1>12

\* Buffers are added and the body is not what was written.
LEMMA Spoils ==
  ASSUME Buffers, NEW n \in Lens, NEW more, more \in Seq(Seq(Nat)),
         \A b \in DOMAIN more : Sound(more[b]), mem' = mem \o more,
         body_' \in Seq(Nat), body_' # <<>>,
         \A b \in DOMAIN body_' : body_'[b] \in 1 .. Len(mem) + Len(more),
         spoilt' = TRUE, handler' = "runs", Wrote(n)
  PROVE  Buffers' /\ OwnBuffers'
<1>1. BuffersOK(mem) /\ mem \in Seq(Seq(Nat)) /\ texts \in Seq(TextRec)
  BY DEF Buffers, BuffersOK, Sound
<1>2. /\ mem' \in Seq(Seq(Nat)) /\ Len(mem') = Len(mem) + Len(more)
      /\ DOMAIN mem' = 1 .. Len(mem) + Len(more)
      /\ \A b \in 1 .. Len(mem) : mem'[b] = mem[b]
      /\ \A b \in 1 .. Len(more) : mem'[Len(mem) + b] = more[b]
  BY <1>1
<1>3. ASSUME NEW b \in DOMAIN mem' PROVE Sound(mem'[b])
  <2>1. Len(mem) \in Nat /\ Len(more) \in Nat /\ b \in 1 .. Len(mem) + Len(more)
    BY <1>1, <1>2
  <2>2. CASE b \in 1 .. Len(mem)
    BY <2>2, <1>1, <1>2 DEF BuffersOK
  <2>3. CASE ~(b \in 1 .. Len(mem))
    <3>1. b - Len(mem) \in 1 .. Len(more) /\ Len(mem) + (b - Len(mem)) = b
      BY <2>1, <2>3
    <3>2. DOMAIN more = 1 .. Len(more)
      OBVIOUS
    <3>3. mem'[b] = more[b - Len(mem)]
      BY <3>1, <1>2
    <3> QED
      BY <3>1, <3>2, <3>3
  <2> QED
    BY <2>2, <2>3
<1>4. BuffersOK(mem)'
  BY <1>2, <1>3 DEF BuffersOK
<1>5. \A b \in DOMAIN body_' : body_'[b] \in DOMAIN mem'
  BY <1>2
<1>6. texts' \in Seq(TextRec)
  BY <1>1, <1>4, <1>5, WroteType
<1>7. Buffers'
  BY <1>4, <1>5, <1>6 DEF Buffers, BuffersOK, Sound
<1>8. OwnBuffers'
  BY DEF OwnBuffers
<1> QED
  BY <1>7, <1>8

\* printf(): into the last buffer, a new one, or given up after two.
LEMMA PrintfStep ==
  ASSUME Inv, NEW n \in Lens, printf(n)
  PROVE  Buffers' /\ OwnBuffers'
<1> DEFINE old == mem[body_[Back]]
<1>0. /\ Buffers /\ OwnBuffers /\ handler = "runs" /\ Len(texts) < MaxTexts
      /\ handler' = "runs" /\ UNCHANGED handler /\ Wrote(n)
  BY DEF Inv, printf, Text
<1>n. n \in Nat /\ n > 0
  <2>1. n \in Nat \ {0}
    BY LensAssumption
  <2> QED
    BY <2>1
<1>1. /\ old \in Seq(Nat) /\ Len(old) <= iobuf_size /\ NewText \in Nat
      /\ <<>> \in Seq(Nat) /\ Len(<<>>) = 0 /\ Len(<<>>) <= iobuf_size
      /\ available(<<>>) = iobuf_size
  <2>1. old \in Seq(Nat) /\ Len(old) <= iobuf_size
    BY <1>0, LastBuffer
  <2>2. NewText \in Nat
    BY <1>0 DEF NewText, Buffers
  <2> QED
    BY <2>1, <2>2, SizeAssumption DEF available
<1>2. CASE /\ n <= available(old)
           /\ mem' = [mem EXCEPT ![body_[Back]] = Emit(old, NewText, n)]
           /\ UNCHANGED <<body_, spoilt>>
  <2>1. Extends(old, Emit(old, NewText, n), NewText, n) /\ Len(Emit(old, NewText, n)) <= iobuf_size
    BY <1>1, <1>n, <1>2, EmitExtends
  <2> QED
    BY <1>0, <1>2, <2>1, IntoLast
<1>3. CASE /\ n <= iobuf_size
           /\ mem' = Append(mem, Emit(<<>>, NewText, n))
           /\ body_' = Append(body_, New)
           /\ UNCHANGED spoilt
  <2>1. Extends(<<>>, Emit(<<>>, NewText, n), NewText, n) /\ Len(Emit(<<>>, NewText, n)) <= iobuf_size
    BY <1>1, <1>n, <1>3, EmitExtends
  <2> QED
    BY <1>0, <1>3, <2>1, IntoNew
<1>4. CASE /\ mem' = mem \o <<<<>>, <<>>>>
           /\ body_' = body_ \o <<New, New + 1>>
           /\ spoilt' = TRUE
  <2> DEFINE more == <<<<>>, <<>>>>
             news == <<New, New + 1>>
  <2>1. more \in Seq(Seq(Nat)) /\ Len(more) = 2 /\ DOMAIN more = {1, 2} /\ \A b \in {1, 2} : more[b] = <<>>
    OBVIOUS
  <2>2. Sound(<<>>)
    BY SizeAssumption DEF Sound
  <2>3. /\ body_ \in Seq(Nat) /\ Len(mem) \in Nat /\ New = Len(mem) + 1
        /\ \A b \in DOMAIN body_ : body_[b] \in 1 .. Len(mem)
    BY <1>0 DEF Buffers, New
  <2>4. news \in Seq(Nat) /\ Len(news) = 2 /\ \A b \in 1 .. 2 : news[b] \in 1 .. Len(mem) + 2
    BY <2>3
  <2> HIDE DEF more, news
  <2>5. /\ body_' \in Seq(Nat) /\ Len(body_') = Len(body_) + 2
        /\ DOMAIN body_' = 1 .. Len(body_) + 2
        /\ \A b \in 1 .. Len(body_) : body_'[b] = body_[b]
        /\ \A b \in 1 .. 2 : body_'[Len(body_) + b] = news[b]
    BY <1>4, <2>3, <2>4 DEF news
  <2>6. body_' # <<>>
    <3>1. Len(body_') # 0
      BY <2>5, <2>3
    <3> QED
      BY <3>1
  <2>7. ASSUME NEW b \in DOMAIN body_' PROVE body_'[b] \in 1 .. Len(mem) + Len(more)
    <3>1. Len(body_) \in Nat /\ DOMAIN body_ = 1 .. Len(body_) /\ b \in 1 .. Len(body_) + 2
      BY <2>3, <2>5
    <3>2. CASE b \in 1 .. Len(body_)
      <4>1. body_'[b] \in 1 .. Len(mem)
        BY <3>1, <3>2, <2>3, <2>5
      <4> QED
        BY <4>1, <2>1, <2>3
    <3>3. CASE ~(b \in 1 .. Len(body_))
      <4>1. b - Len(body_) \in 1 .. 2 /\ Len(body_) + (b - Len(body_)) = b
        BY <3>1, <3>3
      <4>2. body_'[b] = news[b - Len(body_)]
        BY <4>1, <2>5
      <4> QED
        BY <4>1, <4>2, <2>1, <2>4
    <3> QED
      BY <3>2, <3>3
  <2>8. mem' = mem \o more
    BY <1>4 DEF more
  <2> QED
    BY <1>0, <1>4, <2>1, <2>2, <2>5, <2>6, <2>7, <2>8, Spoils
<1> QED
  BY <1>2, <1>3, <1>4 DEF printf

\* The number of buffers that k bytes fill.
LEMMA BuffersNeeded ==
  ASSUME NEW k \in Nat, k > 0
  PROVE  (k + iobuf_size - 1) \div iobuf_size \in Nat /\ (k + iobuf_size - 1) \div iobuf_size >= 1
<1>1. PICK s \in Nat : s = iobuf_size /\ s > 0
  BY SizeAssumption
<1>2. PICK a \in Nat : a = k + s - 1
  BY <1>1
<1>3. a >= s
  BY <1>1, <1>2
<1>4. a \div s \in Nat /\ a \div s >= 1
  BY <1>1, <1>3
<1> QED
  BY <1>1, <1>2, <1>4

\* The bytes of each of them.
LEMMA PartSound ==
  ASSUME NEW k \in Int, NEW i \in Int, NewText \in 0 .. MaxTexts
  PROVE  Part(k, i) \in Seq(Nat) /\ Sound(Part(k, i))
<1> DEFINE c == Least(iobuf_size, k - (i - 1) * iobuf_size)
<1>1. c \in Int /\ c <= iobuf_size /\ iobuf_size \in Nat /\ NewText \in Nat
  <2>1. PICK s \in Nat : s = iobuf_size
    BY SizeAssumption
  <2>2. PICK p \in Int : p = (i - 1) * s
    OBVIOUS
  <2>3. c = Least(s, k - p)
    BY <2>1, <2>2
  <2>4. NewText \in Nat
    BY BoundAssumption
  <2> QED
    BY <2>1, <2>3, <2>4 DEF Least
<1> HIDE DEF c
<1>2. /\ Repeat(NewText, c) \in Seq(Nat)
      /\ c >= 0 => Len(Repeat(NewText, c)) = c
      /\ c < 0 => Repeat(NewText, c) = <<>>
      /\ \A j \in 1 .. c : Repeat(NewText, c)[j] = NewText
  BY <1>1, RepeatFacts
<1>3. Sound(Repeat(NewText, c))
  <2>1. CASE c >= 0
    BY <2>1, <1>1, <1>2 DEF Sound
  <2>2. CASE c < 0
    BY <2>2, <1>1, <1>2 DEF Sound
  <2> QED
    BY <2>1, <2>2, <1>1
<1> QED
  BY <1>2, <1>3 DEF Part, c

\* append(): into the last buffer, or over it.
LEMMA AppendStep ==
  ASSUME Inv, NEW n \in Lens, append(n)
  PROVE  Buffers' /\ OwnBuffers'
<1> DEFINE old == mem[body_[Back]]
           room == available(old)
           more == (n - room + iobuf_size - 1) \div iobuf_size
           parts == [i \in 1 .. more |-> Part(n - room, i)]
           news == [i \in 1 .. more |-> New + i - 1]
<1>0. /\ Buffers /\ OwnBuffers /\ handler = "runs" /\ Len(texts) < MaxTexts /\ Wrote(n)
  BY DEF Inv, append, Text
<1>n. n \in Nat /\ n > 0
  <2>1. n \in Nat \ {0}
    BY LensAssumption
  <2> QED
    BY <2>1
<1>1. /\ old \in Seq(Nat) /\ Len(old) <= iobuf_size /\ NewText \in 0 .. MaxTexts
      /\ NewText \in Nat /\ room \in Nat
  <2>1. old \in Seq(Nat) /\ Len(old) <= iobuf_size
    BY <1>0, LastBuffer
  <2>2. NewText \in 0 .. MaxTexts /\ NewText \in Nat
    BY <1>0, BoundAssumption DEF NewText, Buffers
  <2> QED
    BY <2>1, <2>2, SizeAssumption DEF available
<1>2. CASE /\ n <= room
           /\ mem' = [mem EXCEPT ![body_[Back]] = old \o Repeat(NewText, n)]
           /\ UNCHANGED <<body_, spoilt, handler>>
  <2>1. /\ Extends(old, old \o Repeat(NewText, n), NewText, n)
        /\ Len(old \o Repeat(NewText, n)) <= iobuf_size
    BY <1>1, <1>n, <1>2, GrownExtends
  <2> QED
    BY <1>0, <1>2, <2>1, IntoLast
<1>3. CASE spoilt' = TRUE /\ handler' = "undefined" /\ UNCHANGED <<body_, mem>>
  <2>1. BuffersOK(mem)' /\ texts \in Seq(TextRec) /\ body_' \in Seq(Nat)
    BY <1>0, <1>3 DEF Buffers, BuffersOK, Sound
  <2>2. (body_ # <<>> /\ \A b \in DOMAIN body_ : body_[b] \in DOMAIN mem)'
    BY <1>0, <1>3 DEF Buffers, OwnBuffers
  <2>3. texts' \in Seq(TextRec)
    BY <1>0, <2>1, <2>2, WroteType
  <2>4. Buffers'
    BY <2>1, <2>2, <2>3 DEF Buffers, BuffersOK, Sound
  <2>5. OwnBuffers'
    BY <1>3 DEF OwnBuffers
  <2> QED
    BY <2>4, <2>5
<1>4. CASE /\ n > room
           /\ mem' = mem \o parts
           /\ body_' = [body_ EXCEPT ![Back] = news[more]] \o news
           /\ spoilt' = TRUE /\ UNCHANGED handler
  <2>1. more \in Nat /\ more >= 1
    <3>r. PICK r \in Nat : r = room /\ n > r
      BY <1>1, <1>4
    <3>1. PICK k \in Nat : k = n - r /\ k > 0
      BY <3>r, <1>n
    <3>2. (k + iobuf_size - 1) \div iobuf_size \in Nat /\ (k + iobuf_size - 1) \div iobuf_size >= 1
      BY <3>1, BuffersNeeded
    <3> QED
      BY <3>r, <3>1, <3>2
  <2>k. n - room \in Int
    BY <1>1, <1>n
  <2> HIDE DEF more, room
  <2>2. \A i \in 1 .. more : Part(n - room, i) \in Seq(Nat) /\ Sound(Part(n - room, i))
    <3> TAKE i \in 1 .. more
    <3>1. i \in Int
      OBVIOUS
    <3> QED
      BY <3>1, <2>k, <1>1, PartSound
  <2>3. parts \in Seq(Seq(Nat)) /\ Len(parts) = more /\ \A b \in DOMAIN parts : Sound(parts[b])
    BY <2>1, <2>2
  <2>4. /\ body_ \in Seq(Nat) /\ Len(mem) \in Nat /\ New = Len(mem) + 1
        /\ \A b \in DOMAIN body_ : body_[b] \in 1 .. Len(mem)
        /\ Back \in DOMAIN body_ /\ Len(body_) \in Nat /\ DOMAIN body_ = 1 .. Len(body_)
    BY <1>0, LastBuffer DEF Buffers, New
  <2>5. /\ news \in Seq(Nat) /\ Len(news) = more /\ more \in 1 .. more
        /\ \A b \in 1 .. more : news[b] \in 1 .. Len(mem) + more
    BY <2>1, <2>4
  <2> HIDE DEF news, parts
  <2> DEFINE kept == [body_ EXCEPT ![Back] = news[more]]
  <2>6. /\ kept \in Seq(Nat) /\ Len(kept) = Len(body_) /\ DOMAIN kept = 1 .. Len(body_)
    <3>1. news[more] \in Nat
      BY <2>4, <2>5
    <3> QED
      BY <3>1, <2>4
  <2>7. \A b \in 1 .. Len(body_) : kept[b] \in 1 .. Len(mem) + more
    <3> TAKE b \in 1 .. Len(body_)
    <3>1. CASE b = Back
      BY <3>1, <2>4, <2>5
    <3>2. CASE b # Back
      <4>1. kept[b] \in 1 .. Len(mem)
        BY <3>2, <2>4
      <4> QED
        BY <4>1, <2>1, <2>4
    <3> QED
      BY <3>1, <3>2
  <2> HIDE DEF kept
  <2>8. /\ body_' \in Seq(Nat) /\ Len(body_') = Len(body_) + more
        /\ DOMAIN body_' = 1 .. Len(body_) + more
        /\ \A b \in 1 .. Len(body_) : body_'[b] = kept[b]
        /\ \A b \in 1 .. more : body_'[Len(body_) + b] = news[b]
    <3>1. body_' = kept \o news
      BY <1>4 DEF kept
    <3>2. /\ kept \o news \in Seq(Nat) /\ Len(kept \o news) = Len(kept) + Len(news)
          /\ DOMAIN (kept \o news) = 1 .. Len(kept) + Len(news)
          /\ \A b \in 1 .. Len(kept) : (kept \o news)[b] = kept[b]
          /\ \A b \in 1 .. Len(news) : (kept \o news)[Len(kept) + b] = news[b]
      BY <2>5, <2>6, Joined
    <3> QED
      BY <3>1, <3>2, <2>5, <2>6
  <2>9. body_' # <<>>
    <3>1. Len(body_') # 0
      BY <2>8, <2>1, <2>4
    <3> QED
      BY <3>1
  <2>10. ASSUME NEW b \in DOMAIN body_' PROVE body_'[b] \in 1 .. Len(mem) + Len(parts)
    <3>1. b \in 1 .. Len(body_) + more
      BY <2>8
    <3>2. CASE b \in 1 .. Len(body_)
      BY <3>2, <2>3, <2>7, <2>8
    <3>3. CASE ~(b \in 1 .. Len(body_))
      <4>1. b - Len(body_) \in 1 .. more /\ Len(body_) + (b - Len(body_)) = b
        BY <3>1, <3>3, <2>1, <2>4
      <4>2. body_'[b] = news[b - Len(body_)]
        BY <4>1, <2>8
      <4> QED
        BY <4>1, <4>2, <2>3, <2>5
    <3> QED
      BY <3>2, <3>3
  <2> QED
    BY <1>0, <1>4, <2>3, <2>8, <2>9, <2>10, Spoils
<1> QED
  BY <1>2, <1>3, <1>4 DEF append
-----------------------------------------------------------------------------
(* The invariant *)

LEMMA InitInv == Init => Inv
<1> SUFFICES ASSUME Init PROVE Inv
  OBVIOUS
<1> USE DEF Init
<1>1. HeaderOK(header_, lines)
  BY SizeAssumption DEF HeaderOK, WholeLines, NoFieldFirst
<1>2. Buffers
  BY SizeAssumption DEF Buffers
<1>3. Scalars /\ StatusWritten
  BY DEF Scalars, StatusWritten
<1>4. OwnBuffers
  <2>1. Placed(mem, texts)
    BY DEF Placed
  <2> QED
    BY <2>1 DEF OwnBuffers
<1> QED
  BY <1>1, <1>2, <1>3, <1>4 DEF Inv

\* An action of the header leaves the body alone.
LEMMA BodyKept ==
  ASSUME Buffers, OwnBuffers, handler = "runs", UNCHANGED bodyVars, handler' # "reset"
  PROVE  Buffers' /\ OwnBuffers'
<1>1. UNCHANGED <<body_, mem, texts, spoilt>>
  BY DEF bodyVars
<1>2. Buffers'
  BY <1>1 DEF Buffers
<1>3. OwnBuffers'
  BY <1>1 DEF OwnBuffers
<1> QED
  BY <1>2, <1>3

\* A line of the header.
LEMMA LineStep ==
  ASSUME Inv, NEW kind \in Kinds, NEW n \in Nat, n > 0,
         kind = "field" => StatusSeen(lines), Line, Written(kind, n), Scalars', status_' = status_
  PROVE  Inv'
<1>1. HeaderOK(header_, lines)' /\ (StatusSeen(lines) => StatusSeen(lines)')
  <2>1. HeaderOK(header_, lines)
    BY DEF Inv
  <2> QED
    BY <2>1, WrittenStep
<1>2. Buffers' /\ OwnBuffers'
  BY BodyKept DEF Inv, Line, Written
<1>3. StatusWritten'
  BY <1>1 DEF Inv, StatusWritten
<1> QED
  BY <1>1, <1>2, <1>3 DEF Inv

\* A call that is refused.
LEMMA EndsStep ==
  ASSUME Inv, Line, NEW how \in {"thrown", "undefined"}, Ends(how)
  PROVE  Inv'
<1>1. UNCHANGED <<header_, status_, alive_, iseom_, lines>> /\ handler' = how /\ UNCHANGED bodyVars
  BY DEF Ends, Line
<1>2. HeaderOK(header_, lines)' /\ StatusWritten'
  BY <1>1 DEF Inv, StatusWritten
<1>3. Buffers' /\ OwnBuffers'
  BY <1>1, BodyKept DEF Inv, Line
<1>4. Scalars'
  BY <1>1 DEF Inv, Scalars, bodyVars
<1> QED
  BY <1>2, <1>3, <1>4 DEF Inv

\* The actions of the header.
LEMMA HeaderSteps ==
  ASSUME Inv, NEW n \in Lens
  PROVE  /\ status(n) \/ content_type(n) \/ header(n) => Inv'
         /\ \A alive \in {0, 1} : keep_alive(n, alive) => Inv'
<1>n. n \in Nat /\ n > 0 /\ n + 1 \in Nat /\ n + 1 > 0
  <2>1. n \in Nat \ {0}
    BY LensAssumption
  <2> QED
    BY <2>1
<1>h. HeaderOK(header_, lines) /\ Buffers /\ Scalars /\ StatusWritten /\ OwnBuffers
  BY DEF Inv
<1>1. ASSUME status(n) PROVE Inv'
  <2>1. HeaderOK(header_, lines)' /\ StatusSeen(lines)'
    BY <1>h, <1>n, <1>1, StatusStep
  <2>2. StatusWritten' /\ Scalars'
    BY <1>h, <1>1, <2>1 DEF StatusWritten, Scalars, status, bodyVars
  <2>3. Buffers' /\ OwnBuffers'
    BY <1>h, <1>1, BodyKept DEF status
  <2> QED
    BY <2>1, <2>2, <2>3 DEF Inv
<1>2. ASSUME NEW k \in Nat, k > 0, Line, status_ # -1, Written("field", k),
             UNCHANGED <<status_, iseom_>>, alive_' \in {0, 1}
      PROVE  Inv'
  <2>1. StatusSeen(lines) /\ "field" \in Kinds
    BY <1>h, <1>2 DEF StatusWritten, Kinds
  <2>2. Scalars'
    BY <1>h, <1>2 DEF Scalars, Written, Line, bodyVars
  <2> QED
    BY <1>2, <2>1, <2>2, LineStep
<1>3. ASSUME content_type(n) PROVE Inv'
  <2>0. Line
    BY <1>3 DEF content_type
  <2>1. CASE Ends("thrown")
    BY <2>0, <2>1, EndsStep
  <2>2. CASE Ends("undefined")
    BY <2>0, <2>2, EndsStep
  <2>3. CASE status_ # -1 /\ Written("field", n + 1) /\ UNCHANGED <<status_, alive_, iseom_>>
    BY <1>2, <1>h, <1>n, <2>0, <2>3 DEF Scalars
  <2> QED
    BY <1>3, <2>1, <2>2, <2>3 DEF content_type
<1>4. ASSUME header(n) PROVE Inv'
  <2>0. Line
    BY <1>4 DEF header
  <2>1. CASE Ends("thrown")
    BY <2>0, <2>1, EndsStep
  <2>2. CASE status_ # -1 /\ Written("field", n) /\ UNCHANGED <<status_, alive_, iseom_>>
    BY <1>2, <1>h, <1>n, <2>0, <2>2 DEF Scalars
  <2> QED
    BY <1>4, <2>1, <2>2 DEF header
<1>5. ASSUME NEW alive \in {0, 1}, keep_alive(n, alive) PROVE Inv'
  <2>0. Line
    BY <1>5 DEF keep_alive
  <2>1. CASE Ends("thrown")
    BY <2>0, <2>1, EndsStep
  <2>2. CASE /\ status_ # -1 /\ Written("field", n)
             /\ alive_' = alive /\ UNCHANGED <<status_, iseom_>>
    BY <1>2, <1>n, <2>0, <2>2
  <2> QED
    BY <1>5, <2>1, <2>2 DEF keep_alive
<1> QED
  BY <1>1, <1>3, <1>4, <1>5

\* eom().
LEMMA EomStep ==
  ASSUME Inv, eom
  PROVE  Inv'
<1>1. Line /\ Written("end", 2) /\ status_' = status_ /\ "end" \in Kinds
  BY DEF eom, Kinds
<1>2. Scalars'
  BY <1>1 DEF Inv, Scalars, eom, Line, Written, bodyVars
<1> QED
  BY <1>1, <1>2, LineStep

\* The actions of the body.
LEMMA BodySteps ==
  ASSUME Inv, NEW n \in Lens, printf(n) \/ append(n)
  PROVE  Inv'
<1>1. Buffers' /\ OwnBuffers'
  BY PrintfStep, AppendStep
<1>2. UNCHANGED <<header_, status_, alive_, iseom_, lines>>
  BY DEF printf, append, Text, headerVars
<1>3. spoilt' \in BOOLEAN /\ handler' \in {"runs", "undefined"}
  <2>1. spoilt \in BOOLEAN
    BY DEF Inv, Scalars
  <2> QED
    BY <2>1 DEF printf, append, Text
<1>4. Scalars' /\ StatusWritten' /\ HeaderOK(header_, lines)'
  BY <1>2, <1>3 DEF Inv, Scalars, StatusWritten
<1> QED
  BY <1>1, <1>4 DEF Inv

\* reset().
LEMMA ResetStep ==
  ASSUME Inv, reset
  PROVE  Inv'
<1> USE DEF reset
<1>1. HeaderOK(header_, lines)'
  BY SizeAssumption DEF HeaderOK, WholeLines, NoFieldFirst
<1>2. Buffers'
  BY DEF Inv, Buffers
<1>3. Scalars' /\ StatusWritten' /\ OwnBuffers'
  BY DEF Inv, Scalars, StatusWritten, OwnBuffers
<1> QED
  BY <1>1, <1>2, <1>3 DEF Inv

LEMMA NextInv == Inv /\ [Next]_vars => Inv'
<1> SUFFICES ASSUME Inv, [Next]_vars PROVE Inv'
  OBVIOUS
<1>1. ASSUME NEW n \in Lens,
             \/ status(n) \/ content_type(n) \/ header(n) \/ printf(n) \/ append(n)
             \/ \E alive \in {0, 1} : keep_alive(n, alive)
      PROVE  Inv'
  BY <1>1, HeaderSteps, BodySteps
<1>2. CASE eom
  BY <1>2, EomStep
<1>3. CASE reset
  BY <1>3, ResetStep
<1>4. CASE UNCHANGED vars
  <2>1. UNCHANGED <<header_, status_, alive_, iseom_, lines, body_, mem, texts, spoilt, handler>>
    BY <1>4 DEF vars, headerVars, bodyVars
  <2>2. HeaderOK(header_, lines)'
    BY <2>1 DEF Inv
  <2>3. Buffers'
    BY <2>1 DEF Inv, Buffers
  <2>4. Scalars' /\ StatusWritten'
    BY <2>1 DEF Inv, Scalars, StatusWritten
  <2>5. OwnBuffers'
    BY <2>1 DEF Inv, OwnBuffers
  <2> QED
    BY <2>2, <2>3, <2>4, <2>5 DEF Inv
<1> QED
  BY <1>1, <1>2, <1>3, <1>4 DEF Next

LEMMA InvHolds == Spec => []Inv
  BY InitInv, NextInv, PTL DEF Spec
-----------------------------------------------------------------------------
(* What is shown *)

\* The header and the buffers of the body stay within their size, and every part
\* of the body is a buffer that the response owns.
THEOREM ResponseTypes == Spec => []TypeOK
<1>1. Inv => TypeOK
  <2> SUFFICES ASSUME Inv PROVE TypeOK
    OBVIOUS
  <2>1. lines \in Seq(LineRec) /\ \A i \in DOMAIN header_ : header_[i] \in 0 .. Len(lines)
    BY DEF Inv, HeaderOK
  <2>2. \A l \in DOMAIN lines : lines[l].kind \in {"status", "field", "end"}
    <3>1. \A l \in DOMAIN lines : lines[l] \in LineRec
      BY <2>1
    <3> QED
      BY <3>1 DEF LineRec, Kinds
  <2>3. \A t \in DOMAIN texts : texts[t].len \in Lens
    <3>1. \A t \in DOMAIN texts : texts[t] \in TextRec
      BY DEF Inv, Buffers
    <3> QED
      BY <3>1 DEF TextRec
  <2>4. /\ \A i \in DOMAIN body_ : body_[i] \in DOMAIN mem
        /\ \A b \in DOMAIN mem : /\ Len(mem[b]) <= iobuf_size
                                 /\ \A i \in DOMAIN mem[b] : mem[b][i] \in 0 .. MaxTexts
    BY DEF Inv, Buffers
  <2>5. Scalars
    BY DEF Inv
  <2> QED
    BY <2>1, <2>2, <2>3, <2>4, <2>5 DEF TypeOK, Scalars
<1> QED
  BY <1>1, InvHolds, PTL

\* Whatever the lengths of its lines, the header holds whole lines in the order of
\* the calls; status(), content_type() and the others leave a line out only if it
\* does not fit.
THEOREM HeaderWhole == Spec => []HeaderOfWholeLines
<1>1. Inv => HeaderOfWholeLines
  BY DEF Inv, HeaderOK, HeaderOfWholeLines
<1> QED
  BY <1>1, InvHolds, PTL

\* The check of status_ in content_type(), keep_alive() and header() is enough for
\* the status line to come before every field, unless the line is longer than a whole
\* buffer.
THEOREM StatusComesFirst == Spec => []StatusFirst
<1>1. Inv => StatusFirst
  BY DEF Inv, HeaderOK, NoFieldFirst, StatusFirst
<1> QED
  BY <1>1, InvHolds, PTL

\* What printf() and append() wrote is what buffers() returns, unless a text was
\* longer than a buffer or append() ran out of room.
THEOREM BodySent == Spec => []BodyAsWritten
<1>1. Inv => BodyAsWritten
  <2> SUFFICES ASSUME Inv, ~spoilt PROVE BodyAsWritten
    BY DEF BodyAsWritten
  <2>1. CASE handler = "reset"
    <3>1. body_ = <<>> /\ texts = <<>>
      BY <2>1 DEF Inv, OwnBuffers
    <3> QED
      BY <3>1 DEF BodyAsWritten, Body
  <2>2. CASE handler # "reset"
    <3>1. /\ Len(mem) = Len(body_) /\ Placed(mem, texts) /\ \A b \in DOMAIN body_ : body_[b] = b
          /\ mem \in Seq(Seq(Nat)) /\ body_ \in Seq(Nat) /\ texts \in Seq(TextRec)
      BY <2>2 DEF Inv, OwnBuffers, Buffers
    <3>2. DOMAIN Body = DOMAIN mem /\ \A b \in DOMAIN mem : Body[b] = mem[b]
      BY <3>1 DEF Body
    <3>3. ASSUME NEW t \in DOMAIN texts, NEW i \in Span(t)
          PROVE  /\ i \in DOMAIN Body[texts[t].buf]
                 /\ \/ Body[texts[t].buf][i] = t
                    \/ Body[texts[t].buf][i] = Nul /\ i = iobuf_size
      <4> DEFINE y == texts[t]
      <4>1. y.len \in Nat /\ y.len > 0 /\ y.end \in Nat
        BY <3>1, TextTypes
      <4>2. /\ y.buf \in DOMAIN mem /\ y.end <= Len(mem[y.buf]) /\ y.len <= y.end
            /\ \A j \in y.end - y.len + 1 .. y.end :
                 mem[y.buf][j] = t \/ (mem[y.buf][j] = Nul /\ j = iobuf_size)
        BY <3>1 DEF Placed, TextAt
      <4>3. mem[y.buf] \in Seq(Nat)
        BY <3>1, <4>2
      <4>4. i \in y.end - y.len + 1 .. y.end
        BY DEF Span
      <4> HIDE DEF y
      <4>5. PICK e \in Nat, l \in Nat, a \in Nat : e = y.end /\ l = y.len /\ a = Len(mem[y.buf])
        BY <4>1, <4>3
      <4>6. i \in e - l + 1 .. e /\ e <= a /\ l <= e
        BY <4>2, <4>4, <4>5
      <4>7. i \in 1 .. a
        BY <4>6
      <4>8. i \in DOMAIN mem[y.buf]
        BY <4>3, <4>5, <4>7
      <4> QED
        BY <3>2, <4>2, <4>4, <4>8 DEF y
    <3>4. \A t, u \in DOMAIN texts : t < u =>
            \/ texts[t].buf < texts[u].buf
            \/ texts[t].buf = texts[u].buf /\ texts[t].end <= texts[u].end - texts[u].len
      BY <3>1 DEF Placed, InTurn
    <3>5. \A b \in DOMAIN Body : \A i \in DOMAIN Body[b] :
            \E t \in DOMAIN texts : texts[t].buf = b /\ i \in Span(t)
      BY <3>1, <3>2 DEF Placed, Span
    <3> QED
      BY <3>3, <3>4, <3>5 DEF BodyAsWritten
  <2> QED
    BY <2>1, <2>2
<1> QED
  BY <1>1, InvHolds, PTL
=============================================================================
