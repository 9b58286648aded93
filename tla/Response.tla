------------------------------ MODULE Response ------------------------------
(***************************************************************************)
(* http_response (response.cpp): a module's handler writes the lines of    *)
(* the header into one buffer and the body into a list of buffers that     *)
(* grows.  A byte of the header is the number of its line, a byte of the   *)
(* body the number of the text it belongs to; Nul is the terminator that   *)
(* snprintf() puts in place of the last character of a text that fills its *)
(* room exactly.                                                           *)
(***************************************************************************)
EXTENDS Integers, Sequences

CONSTANTS
  iobuf_size,  \* Memory.ChunkSize
  DateLen,     \* length of the Date field
  Lens,        \* lengths of the texts a handler writes
  MaxLines,    \* bound: lines the handler writes to the header
  MaxTexts     \* bound: texts it writes to the body

ASSUME SizeAssumption == iobuf_size \in Nat \ {0}
ASSUME DateAssumption == DateLen \in Nat \ {0}
ASSUME LensAssumption == Lens \subseteq Nat \ {0}
ASSUME BoundAssumption == MaxLines \in Nat /\ MaxTexts \in Nat

Nul == 0

VARIABLES
  header_,   \* the bytes of the header's only buffer
  body_,     \* the body's buffers
  mem,       \* mem[b]: the bytes of body buffer b
  status_,   \* -1: not set
  alive_, iseom_,
  lines,     \* (history) the lines the handler meant to write to the header, and
             \* where the header ended after each
  texts,     \* (history) the texts it meant to write to the body, and the buffer
             \* and place in it where the body ended after each
  spoilt,    \* (history) a text of the body has been lost or doubled
  handler    \* "runs", or how it ended

headerVars == <<header_, status_, alive_, iseom_, lines>>
bodyVars == <<body_, mem, texts, spoilt>>
vars == <<headerVars, bodyVars, handler>>

Repeat(x, n) == [i \in 1 .. n |-> x]
available(buf) == iobuf_size - Len(buf)

\* Defect: a text that does not fit is sent as far as it does.
Emit_truncates(buf, x, n) ==
  IF n < available(buf) THEN buf \o Repeat(x, n) ELSE buf \o Repeat(x, available(buf))

\* snprintf() of n characters into the room left in a buffer, and then
\* iobuf_set_w_len(), which refuses a text that does not fit.
Emit(buf, x, n) ==
  CASE n < available(buf) -> buf \o Repeat(x, n)
    [] n = available(buf) -> buf \o Repeat(x, n - 1) \o <<Nul>>
    [] OTHER -> buf
-----------------------------------------------------------------------------
Init ==
  /\ header_ = <<>>
  /\ body_ = <<1>> /\ mem = <<<<>>>>
  /\ status_ = -1 /\ alive_ = 1 /\ iseom_ = 0
  /\ lines = <<>> /\ texts = <<>>
  /\ spoilt = FALSE /\ handler = "runs"

Line ==
  /\ handler = "runs" /\ Len(lines) < MaxLines
  /\ UNCHANGED bodyVars

NewLine == Len(lines) + 1

\* Nothing is written: an exception, or what the language leaves undefined.
Ends(how) ==
  /\ handler' = how
  /\ UNCHANGED <<header_, status_, alive_, iseom_, lines>>

Written(kind, n) ==
  /\ header_' = Emit(header_, NewLine, n)
  /\ lines' = Append(lines, [kind |-> kind, len |-> n, end |-> Len(header_')])
  /\ UNCHANGED handler

\* The status line with the server's name, and then the Date field.  Neither is
\* missed when it does not fit.
status(n) ==
  /\ handler = "runs" /\ Len(lines) + 1 < MaxLines
  /\ status_' = 200
  /\ LET first == Emit(header_, NewLine, n)
         second == Emit(first, NewLine + 1, DateLen)
     IN  /\ header_' = second
         /\ lines' = lines \o <<[kind |-> "status", len |-> n, end |-> Len(first)],
                               [kind |-> "field", len |-> DateLen, end |-> Len(second)]>>
  /\ UNCHANGED <<alive_, iseom_, bodyVars, handler>>

\* The type, and then the rest of the line into the room that is left.  If the
\* type alone does not fit, that room is a negative number: undefined.
content_type(n) ==
  /\ Line
  /\ \/ status_ = -1 /\ Ends("thrown")
     \/ status_ # -1 /\ n > available(header_) /\ Ends("undefined")
     \/ status_ # -1 /\ n <= available(header_) /\ Written("field", n + 1)
        /\ UNCHANGED <<status_, alive_, iseom_>>

keep_alive(n, alive) ==
  /\ Line
  /\ \/ status_ = -1 /\ Ends("thrown")
     \/ status_ # -1 /\ Written("field", n) /\ alive_' = alive /\ UNCHANGED <<status_, iseom_>>

\* Defect: a field may come before the status line.
header_any_time(n) ==
  /\ Line
  /\ \/ n > available(header_) /\ Ends("thrown")
     \/ n <= available(header_) /\ Written("field", n) /\ UNCHANGED <<status_, alive_, iseom_>>

\* Either header(): the only ones that notice a line that does not fit.
header(n) ==
  /\ Line
  /\ \/ (status_ = -1 \/ n > available(header_)) /\ Ends("thrown")
     \/ status_ # -1 /\ n <= available(header_) /\ Written("field", n)
        /\ UNCHANGED <<status_, alive_, iseom_>>

\* The blank line, with or without a status line before it.
eom ==
  /\ Line
  /\ Written("end", 2)
  /\ iseom_' = 1
  /\ UNCHANGED <<status_, alive_>>
-----------------------------------------------------------------------------
Text ==
  /\ handler = "runs" /\ Len(texts) < MaxTexts
  /\ UNCHANGED headerVars

NewText == Len(texts) + 1
Back == Len(body_)
New == Len(mem) + 1       \* the buffer that acquire() returns

\* The text and where the body ends after the call.
Wrote(n) ==
  texts' = Append(texts, [len |-> n, buf |-> Len(body_'),
                          end |-> Len(mem'[body_'[Len(body_')]])])

\* Defect: the text is not written again after a buffer has been added.
printf_no_retry(n) ==
  /\ Text
  /\ \/ /\ n <= available(mem[body_[Back]])
        /\ mem' = [mem EXCEPT ![body_[Back]] = Emit(@, NewText, n)]
        /\ UNCHANGED body_
     \/ /\ n > available(mem[body_[Back]])
        /\ mem' = Append(mem, <<>>)
        /\ body_' = Append(body_, New)
  /\ Wrote(n)
  /\ UNCHANGED <<spoilt, handler>>

\* Defect: what is added to the body is not a new buffer.
printf_no_acquire(n) ==
  /\ Text
  /\ IF n <= available(mem[body_[Back]])
     THEN mem' = [mem EXCEPT ![body_[Back]] = Emit(@, NewText, n)] /\ UNCHANGED body_
     ELSE body_' = Append(body_, New) /\ UNCHANGED mem
  /\ texts' = Append(texts, [len |-> n, buf |-> Len(body_'), end |-> n])
  /\ UNCHANGED <<spoilt, handler>>

\* Into the last buffer or, tried again, into a new one.  A text longer than a
\* buffer is given up after two new ones.
printf(n) ==
  /\ Text
  /\ \/ /\ n <= available(mem[body_[Back]])
        /\ mem' = [mem EXCEPT ![body_[Back]] = Emit(@, NewText, n)]
        /\ UNCHANGED <<body_, spoilt>>
     \/ /\ n > available(mem[body_[Back]]) /\ n <= iobuf_size
        /\ mem' = Append(mem, Emit(<<>>, NewText, n))
        /\ body_' = Append(body_, New)
        /\ UNCHANGED spoilt
     \/ /\ n > available(mem[body_[Back]]) /\ n > iobuf_size
        /\ mem' = mem \o <<<<>>, <<>>>>
        /\ body_' = body_ \o <<New, New + 1>>
        /\ spoilt' = TRUE
  /\ Wrote(n)
  /\ UNCHANGED handler

\* (external) push_back() moves the elements of a std::vector that is full; a
\* vector grown from nothing is full at 1, 2, 4, ... elements.
Moves(size) == \E k \in 0 .. size : size = 2^k

Least(a, b) == IF a < b THEN a ELSE b

\* The part of n bytes that goes to the i-th of a series of empty buffers.
Part(n, i) == Repeat(NewText, Least(iobuf_size, n - (i - 1) * iobuf_size))

\* memcpy() into the last buffer.  `iov' is a reference to the last element of
\* body_: the next buffer is assigned over that element before it is added, so
\* the filled buffer is lost; and if push_back() moves the elements, `iov'
\* dangles and what follows is undefined.
append(n) ==
  LET room == available(mem[body_[Back]])
      more == (n - room + iobuf_size - 1) \div iobuf_size
      news == [i \in 1 .. more |-> New + i - 1]
  IN  /\ Text
      /\ \/ /\ n <= room
            /\ mem' = [mem EXCEPT ![body_[Back]] = @ \o Repeat(NewText, n)]
            /\ UNCHANGED <<body_, spoilt, handler>>
         \/ /\ n > room
            /\ spoilt' = TRUE
            /\ \/ /\ \E i \in 1 .. more : Moves(Back + i - 1)
                  /\ handler' = "undefined"
                  /\ UNCHANGED <<body_, mem>>
               \/ /\ \A i \in 1 .. more : ~Moves(Back + i - 1)
                  /\ mem' = mem \o [i \in 1 .. more |-> Part(n - room, i)]
                  /\ body_' = [body_ EXCEPT ![Back] = news[more]] \o news
                  /\ UNCHANGED handler
      /\ Wrote(n)

\* reset(): no buffer is left, and back() of an empty vector is undefined.
reset ==
  /\ handler = "runs"
  /\ handler' = "reset"
  /\ header_' = <<>> /\ body_' = <<>>
  /\ status_' = -1 /\ alive_' = 1 /\ iseom_' = 0
  /\ lines' = <<>> /\ texts' = <<>>
  /\ UNCHANGED <<mem, spoilt>>

\* The calls of a module's handler, in any order.
Next ==
  \/ \E n \in Lens : \/ status(n) \/ content_type(n) \/ header(n)
                     \/ printf(n) \/ append(n)
                     \/ \E alive \in {0, 1} : keep_alive(n, alive)
  \/ eom
  \/ reset

Spec == Init /\ [][Next]_vars
-----------------------------------------------------------------------------
(* Properties *)

TypeOK ==
  /\ \A i \in DOMAIN header_ : header_[i] \in 0 .. Len(lines)
  /\ \A i \in DOMAIN body_ : body_[i] \in DOMAIN mem
  /\ \A b \in DOMAIN mem : /\ Len(mem[b]) <= iobuf_size
                           /\ \A i \in DOMAIN mem[b] : mem[b][i] \in 0 .. MaxTexts
  /\ status_ \in {-1, 200} /\ alive_ \in {0, 1} /\ iseom_ \in {0, 1}
  /\ \A l \in DOMAIN lines : lines[l].kind \in {"status", "field", "end"}
  /\ \A t \in DOMAIN texts : texts[t].len \in Lens
  /\ spoilt \in BOOLEAN
  /\ handler \in {"runs", "thrown", "undefined", "reset"}

\* Buffer buf is the lines ls in their order, each one whole or not at all, and a
\* line is left out only if it did not fit.  Only the last byte of a full buffer
\* may differ.
WholeLines(buf, ls) ==
  LET end(l) == IF l = 0 THEN 0 ELSE ls[l].end
  IN  /\ Len(buf) = end(Len(ls)) /\ Len(buf) <= iobuf_size
      /\ \A l \in DOMAIN ls :
           \/ /\ end(l) = end(l - 1) + ls[l].len
              /\ \A i \in end(l - 1) + 1 .. end(l) :
                   buf[i] = l \/ (buf[i] = Nul /\ i = iobuf_size)
           \/ end(l) = end(l - 1) /\ ls[l].len > available(buf)

\* The header is made of the lines in the order of the calls, whole ones only,
\* and those that did not fit.
HeaderOfWholeLines == WholeLines(header_, lines)

\* "response should set status first": no field, not even the Date that status()
\* writes itself, stands first in a header, unless a status line was written before
\* it that does not fit into a whole buffer: status() does not notice that.
StatusFirst ==
  header_ # <<>> /\ header_[1] # Nul /\ lines[header_[1]].kind = "field" =>
    \E k \in 1 .. header_[1] - 1 : lines[k].kind = "status" /\ lines[k].len > iobuf_size

\* What buffers() returns after the header, buffer by buffer.
Body == [b \in DOMAIN body_ |-> mem[body_[b]]]

\* The places of text t in its buffer.
Span(t) == texts[t].end - texts[t].len + 1 .. texts[t].end

\* The body is sent as it was written: every text, once and whole, in the order of
\* the calls, and nothing else, so that the lengths printf() returned add up to
\* the Content-Length.  Only the last byte of a full buffer may differ.  It holds
\* unless a text was longer than a buffer or append() did not find room in the
\* last one.
BodyAsWritten ==
  ~spoilt =>
    /\ \A t \in DOMAIN texts : \A i \in Span(t) :
         /\ i \in DOMAIN Body[texts[t].buf]
         /\ \/ Body[texts[t].buf][i] = t
            \/ Body[texts[t].buf][i] = Nul /\ i = iobuf_size
    /\ \A t, u \in DOMAIN texts : t < u =>
         \/ texts[t].buf < texts[u].buf
         \/ texts[t].buf = texts[u].buf /\ texts[t].end <= texts[u].end - texts[u].len
    /\ \A b \in DOMAIN Body : \A i \in DOMAIN Body[b] :
         \E t \in DOMAIN texts : texts[t].buf = b /\ i \in Span(t)
=============================================================================
