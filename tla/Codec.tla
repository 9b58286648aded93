-------------------------------- MODULE Codec --------------------------------
(***************************************************************************)
(* http_codec and http_request (codecs.cpp, request.cpp): what the         *)
(* callbacks of http_parser make of the requests on one connection.  The   *)
(* bytes arrive in reads of any length and lie in buffers of iobuf_size;   *)
(* the parser calls back with the part of a text that one read has brought.*)
(***************************************************************************)
EXTENDS Integers, Sequences, FiniteSets, SequencesExt

CONSTANTS
  Stream,      \* the requests on the connection: url, fields, body, trailers,
               \* and whether the body is sent in chunks of one byte
  Names,       \* the field names a handler asks for
  iobuf_size   \* Memory.ChunkSize

Text == Seq(Nat)
Field == [name : Text \ {<<>>}, value : Text]
Request == [url : Seq(STRING) \ {<<>>}, fields : Seq(Field), body : Text,
            trailers : Seq(Field), chunked : BOOLEAN]

ASSUME BufferAssumption == iobuf_size \in Nat \ {0}
ASSUME NamesAssumption == Names \subseteq Text
\* Trailers come after chunks only.
ASSUME StreamAssumption ==
  /\ Stream \in Seq(Request) /\ Stream # <<>>
  /\ \A t \in DOMAIN Stream : ~Stream[t].chunked => Stream[t].trailers = <<>>

VARIABLES
  got,         \* bytes of the stream received
  where,       \* where each of them lies: its buffer and the place in it
  pos,         \* bytes the parser has consumed
  txn,         \* the number of the request
  strurl_, fields_,
  bodybf_,     \* slices: where each begins, and its length
  bodysz_, headers_completed_, message_completed_,
  state_field_value_,   \* the last callback was for the value of a field
  error        \* a callback has refused its text

connVars == <<got, where>>
requestVars == <<strurl_, fields_, bodybf_, bodysz_, headers_completed_,
                 message_completed_, state_field_value_, error>>
codecVars == <<connVars, pos, txn, requestVars>>
-----------------------------------------------------------------------------
(* The bytes of the stream *)

Bytes(kind, s) == [i \in DOMAIN s |-> [k |-> kind, x |-> s[i]]]
Mark(kind) == <<[k |-> kind, x |-> 0]>>
Lines(fs) ==
  FlattenSeq([i \in DOMAIN fs |-> Bytes("name", fs[i].name) \o Mark("colon")
                                  \o Bytes("value", fs[i].value) \o Mark("eol")])

HeadBytes(m) == Bytes("url", m.url) \o Mark("skip") \o Lines(m.fields) \o Mark("head")
BodyBytes(m) ==
  IF m.chunked
  THEN FlattenSeq([i \in DOMAIN m.body |-> Mark("skip") \o Bytes("body", <<m.body[i]>>)])
       \o Mark("skip") \o Lines(m.trailers) \o Mark("skip")
  ELSE Bytes("body", m.body)

Wire == FlattenSeq([t \in DOMAIN Stream |-> HeadBytes(Stream[t]) \o BodyBytes(Stream[t])])

MsgEnd[t \in 0 .. Len(Stream)] ==
  IF t = 0 THEN 0 ELSE MsgEnd[t - 1] + Len(HeadBytes(Stream[t])) + Len(BodyBytes(Stream[t]))
HeadEnd(t) == MsgEnd[t - 1] + Len(HeadBytes(Stream[t]))
-----------------------------------------------------------------------------
(* http_request *)

\* Defect: the first callback is taken for the rest of a name.
NewRequest_value(url, fields, body, size, headers, message, value, err) ==
  /\ url = <<>> /\ fields = <<>> /\ body = <<>> /\ size = 0
  /\ headers = FALSE /\ message = FALSE /\ value = FALSE /\ err = FALSE

\* http_request(): the values of its members.
NewRequest(url, fields, body, size, headers, message, value, err) ==
  /\ url = <<>> /\ fields = <<>> /\ body = <<>> /\ size = 0
  /\ headers = FALSE /\ message = FALSE /\ value = TRUE /\ err = FALSE

CodecInit ==
  /\ got = 0 /\ where = <<>> /\ pos = 0 /\ txn = 1
  /\ NewRequest(strurl_, fields_, bodybf_, bodysz_, headers_completed_, message_completed_,
                state_field_value_, error)

\* string_pair_less: the order of std::string.
Less(a, b) ==
  \/ \E i \in 1 .. Len(b) : /\ i <= Len(a) /\ a[i] < b[i]
                            /\ \A j \in 1 .. i - 1 : a[j] = b[j]
  \/ Len(a) < Len(b) /\ \A j \in 1 .. Len(a) : a[j] = b[j]

\* sorthdr(): std::sort leaves open how fields of one name are ordered.
Sorted(fs) ==
  {gs \in {[i \in DOMAIN fs |-> fs[p[i]]] : p \in Bijection(DOMAIN fs, DOMAIN fs)} :
     \A i \in 1 .. Len(fs) - 1 : ~Less(gs[i + 1].name, gs[i].name)}

\* Defect: the upper half is kept when the middle element equals the key.
lower_bound_upper(fs, key) ==
  LET lb[n \in 0 .. Len(fs)] == [lo \in 1 .. Len(fs) + 1 |->
        LET half == n \div 2
        IN  IF n = 0 \/ lo + half > Len(fs) THEN lo
            ELSE IF ~Less(key, fs[lo + half].name) THEN lb[n - half - 1][lo + half + 1]
            ELSE lb[half][lo]]
  IN  lb[Len(fs)][1]

\* std::lower_bound: n elements from lo on are left to search.
lower_bound(fs, key) ==
  LET lb[n \in 0 .. Len(fs)] == [lo \in 1 .. Len(fs) + 1 |->
        LET half == n \div 2
        IN  IF n = 0 \/ lo + half > Len(fs) THEN lo
            ELSE IF Less(fs[lo + half].name, key) THEN lb[n - half - 1][lo + half + 1]
            ELSE lb[half][lo]]
  IN  lb[Len(fs)][1]

\* operator[]: the place of the field, or 0.
Lookup(key) ==
  LET i == lower_bound(fields_, key)
  IN  IF i > Len(fields_) \/ fields_[i].name # key THEN 0 ELSE i
-----------------------------------------------------------------------------
(* http_codec *)

Parsing == ~message_completed_ /\ ~error
At(kind) == Parsing /\ pos < got /\ Wire[pos + 1].k = kind

\* The end of the text that begins at the next byte, or of what is there of it.
RunEnd == Max({j \in pos + 1 .. got : \A i \in pos + 1 .. j : Wire[i].k = Wire[pos + 1].k})
Run == [i \in 1 .. RunEnd - pos |-> Wire[pos + i].x]

of_url ==
  /\ At("url") /\ pos' = RunEnd
  /\ strurl_' = strurl_ \o Run
  /\ UNCHANGED <<connVars, txn, fields_, bodybf_, bodysz_, headers_completed_,
                 message_completed_, state_field_value_, error>>

of_header_field ==
  /\ At("name") /\ pos' = RunEnd
  /\ state_field_value_' = FALSE
  /\ error' = (~state_field_value_ /\ fields_ = <<>>)
  /\ fields_' = CASE state_field_value_ -> Append(fields_, [name |-> Run, value |-> <<>>])
                  [] error' -> fields_
                  [] OTHER -> [fields_ EXCEPT ![Len(fields_)].name = @ \o Run]
  /\ UNCHANGED <<connVars, txn, strurl_, bodybf_, bodysz_, headers_completed_,
                 message_completed_>>

\* Also called, with no text, at the end of a line with an empty value.
of_header_value ==
  /\ \/ At("value") /\ pos' = RunEnd
     \/ At("eol") /\ Wire[pos].k = "colon" /\ pos' = pos + 1
  /\ state_field_value_' = TRUE
  /\ error' = (fields_ = <<>>)
  /\ LET text == IF Wire[pos + 1].k = "value" THEN Run ELSE <<>>
     IN  fields_' = IF error' THEN fields_
                    ELSE [fields_ EXCEPT ![Len(fields_)].value = @ \o text]
  /\ UNCHANGED <<connVars, txn, strurl_, bodybf_, bodysz_, headers_completed_,
                 message_completed_>>

\* Called in front of the last byte of the header.
of_headers_complete ==
  /\ At("head") /\ ~headers_completed_
  /\ headers_completed_' = TRUE
  /\ fields_' \in Sorted(fields_)
  /\ UNCHANGED <<connVars, pos, txn, strurl_, bodybf_, bodysz_, message_completed_,
                 state_field_value_, error>>

\* Defect: a part of the body is always added to the last slice.
of_body_joins ==
  /\ At("body") /\ pos' = RunEnd
  /\ bodysz_' = bodysz_ + Len(Run)
  /\ bodybf_' = IF bodybf_ = <<>> THEN <<[at |-> where[pos + 1], len |-> Len(Run)]>>
                ELSE [bodybf_ EXCEPT ![Len(bodybf_)].len = @ + Len(Run)]
  /\ UNCHANGED <<connVars, txn, strurl_, fields_, headers_completed_,
                 message_completed_, state_field_value_, error>>

\* The place n bytes behind a place.
Behind(place, n) == <<place[1], place[2] + n>>

\* A part that begins where the last slice ends makes that slice longer.
of_body ==
  /\ At("body") /\ pos' = RunEnd
  /\ bodysz_' = bodysz_ + Len(Run)
  /\ LET last == bodybf_[Len(bodybf_)]
     IN  bodybf_' = IF bodybf_ # <<>> /\ Behind(last.at, last.len) = where[pos + 1]
                    THEN [bodybf_ EXCEPT ![Len(bodybf_)].len = @ + Len(Run)]
                    ELSE Append(bodybf_, [at |-> where[pos + 1], len |-> Len(Run)])
  /\ UNCHANGED <<connVars, txn, strurl_, fields_, headers_completed_,
                 message_completed_, state_field_value_, error>>

of_message_complete ==
  /\ Parsing /\ headers_completed_ /\ pos = MsgEnd[txn]
  /\ message_completed_' = TRUE
  /\ UNCHANGED <<connVars, pos, txn, strurl_, fields_, bodybf_, bodysz_,
                 headers_completed_, state_field_value_, error>>

\* (external) bytes for which the parser calls nothing.
skip ==
  /\ \/ At("skip")
     \/ At("colon")
     \/ At("eol") /\ Wire[pos].k # "colon"
     \/ At("head") /\ headers_completed_
  /\ pos' = pos + 1
  /\ UNCHANGED <<connVars, txn, requestVars>>

parse_header == of_url \/ of_header_field \/ of_header_value \/ of_headers_complete \/ skip
parse_body ==
  of_header_field \/ of_header_value \/ of_body \/ of_message_complete \/ skip
-----------------------------------------------------------------------------
(* What http_connection does with them *)

\* The place of the next byte: in the last buffer, or in a new one if that is
\* full or was given back.
NextPlace ==
  IF where = <<>> THEN <<1, 0>>
  ELSE LET last == where[Len(where)]
       IN  IF last[2] + 1 = iobuf_size \/ (txn > 1 /\ got = MsgEnd[txn - 1])
           THEN <<last[1] + 1, 0>> ELSE Behind(last, 1)

\* The parser has consumed what is there and the message is not complete.
Reading == Parsing /\ pos = got /\ (headers_completed_ => pos < MsgEnd[txn])

\* Defect: a read may be longer than what is left of the buffer.
read_some_any(n) ==
  /\ Reading /\ got + n <= Len(Wire)
  /\ got' = got + n
  /\ where' = where \o [i \in 1 .. n |-> Behind(NextPlace, i - 1)]
  /\ UNCHANGED <<pos, txn, requestVars>>

\* read_some() into what is left of the buffer.
read_some(n) ==
  /\ Reading
  /\ got + n <= Len(Wire) /\ n <= iobuf_size - NextPlace[2]
  /\ got' = got + n
  /\ where' = where \o [i \in 1 .. n |-> Behind(NextPlace, i - 1)]
  /\ UNCHANGED <<pos, txn, requestVars>>

\* process_request() is called again, with a new http_request.
next_request ==
  /\ message_completed_ /\ txn < Len(Stream)
  /\ txn' = txn + 1
  /\ NewRequest(strurl_', fields_', bodybf_', bodysz_', headers_completed_',
                message_completed_', state_field_value_', error')
  /\ UNCHANGED <<connVars, pos>>
-----------------------------------------------------------------------------
(* Properties *)

CodecTypeOK ==
  /\ got \in 0 .. Len(Wire) /\ pos \in 0 .. got /\ txn \in 1 .. Len(Stream)
  /\ Len(where) = got /\ \A i \in 1 .. got : where[i] \in Nat \X (0 .. iobuf_size - 1)
  /\ strurl_ \in Seq(STRING) /\ fields_ \in Seq(Field)
  /\ \A i \in DOMAIN bodybf_ : bodybf_[i].at \in Nat \X Nat /\ bodybf_[i].len \in Nat
  /\ bodysz_ \in Nat
  /\ {headers_completed_, message_completed_, state_field_value_, error} \subseteq BOOLEAN

\* request.cpp, "so that the first to come is the key of a field": no callback
\* refuses a text of a well-formed request, however it is split.
NoneRefused == ~error

\* From the end of the header until a trailer arrives, a handler that asks for a
\* field by its name gets the value of a field of that name, if one was sent.
LookupFinds ==
  headers_completed_ /\ Len(fields_) = Len(Stream[txn].fields) =>
    \A key \in Names :
      LET sent == {f \in Range(Stream[txn].fields) : f.name = key}
      IN  IF sent = {} THEN Lookup(key) = 0
          ELSE Lookup(key) # 0 /\ fields_[Lookup(key)] \in sent

\* The bytes of the body in the memory that the slices point to.
Memory(place) ==
  LET at == {i \in DOMAIN where : where[i] = place}
  IN  IF at = {} THEN 0 ELSE Wire[CHOOSE i \in at : TRUE].x
InMemory(s) == [i \in 1 .. s.len |-> Memory(Behind(s.at, i - 1))]

Received == Len(fields_)
Sent == Len(Stream[txn].fields)

\* What a handler sees of the header and of the rest, once they are complete.
SeenHeader ==
  IF headers_completed_
  THEN <<[url |-> strurl_, fields |-> [i \in 1 .. Min({Sent, Received}) |-> fields_[i]]]>>
  ELSE <<>>
SeenBody ==
  IF message_completed_
  THEN <<[bytes |-> FlattenSeq([s \in DOMAIN bodybf_ |-> InMemory(bodybf_[s])]),
          size |-> bodysz_,
          trailers |-> [i \in 1 .. Received - Sent |-> fields_[Sent + i]]]>>
  ELSE <<>>

Delivery == INSTANCE RequestDelivery WITH header <- SeenHeader, body <- SeenBody

\* http_codec and http_request deliver each request whole, whatever the reads and
\* buffers: url, fields, and the bytes that the slices of the body point to.
ImplementsDelivery == Delivery!Spec

=============================================================================
