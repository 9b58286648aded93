-------------------------- MODULE RequestDelivery --------------------------
(***************************************************************************)
(* What a module may rely on: of each request of a connection it sees the  *)
(* whole header, then the whole message, then the next request, however    *)
(* the bytes were split over reads and buffers.                            *)
(***************************************************************************)
EXTENDS Integers, Sequences, FiniteSets

CONSTANT Stream     \* the requests the peer sends, in order

VARIABLES txn,      \* the request at hand
          header,   \* <<>>, or what its handler sees of the header
          body      \* <<>>, or what it sees of the rest

\* The same fields, equally often.
SameFields(fs, gs) ==
  \A f \in {fs[i] : i \in DOMAIN fs} \cup {gs[i] : i \in DOMAIN gs} :
    Cardinality({i \in DOMAIN fs : fs[i] = f}) = Cardinality({i \in DOMAIN gs : gs[i] = f})

Init == txn = 1 /\ header = <<>> /\ body = <<>>

Header ==
  /\ txn <= Len(Stream) /\ header = <<>>
  /\ Len(header') = 1 /\ header'[1].url = Stream[txn].url
  /\ SameFields(header'[1].fields, Stream[txn].fields)
  /\ UNCHANGED <<txn, body>>

Body ==
  /\ header # <<>> /\ body = <<>>
  /\ body' = <<[bytes |-> Stream[txn].body, size |-> Len(Stream[txn].body),
             trailers |-> Stream[txn].trailers]>>
  /\ UNCHANGED <<txn, header>>

NextRequest ==
  /\ body # <<>>
  /\ txn' = txn + 1 /\ header' = <<>> /\ body' = <<>>

Spec == Init /\ [][Header \/ Body \/ NextRequest]_<<txn, header, body>>
=============================================================================
