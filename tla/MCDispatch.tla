----------------------------- MODULE MCDispatch -----------------------------
(***************************************************************************)
(* Instances of Dispatch for TLC: a request with fields whose names are    *)
(* prefixes of each other, occur twice and have an empty value; one with a *)
(* query and no fields and no body; one with a body in chunks and trailers.*)
(***************************************************************************)
EXTENDS Dispatch

F(name, value) == [name |-> name, value |-> value]

MCStream == <<
  [url |-> <<"/", "a">>, body |-> <<7, 8, 9>>, chunked |-> FALSE, trailers |-> <<>>,
   fields |-> <<F(<<2, 1>>, <<>>), F(<<2>>, <<5, 6>>), F(<<2, 1>>, <<6>>)>>],
  [url |-> <<"/", "A", "b", "?", "a">>, body |-> <<>>, chunked |-> FALSE,
   fields |-> <<>>, trailers |-> <<>>],
  [url |-> <<"h", "/", "A", "b">>, body |-> <<7, 8>>, chunked |-> TRUE,
   fields |-> <<F(<<2>>, <<5>>)>>, trailers |-> <<F(<<1>>, <<4>>)>>] >>

QueryStream == <<
  [url |-> <<"/", "a", "?", "b">>, body |-> <<>>, chunked |-> FALSE, trailers |-> <<>>,
   fields |-> <<>>] >>

MCNames == {<<1>>, <<2>>, <<2, 1>>, <<3>>}

Lib(how, path, events) ==
  [load |-> how, path |-> path, default |-> path = <<>>, events |-> events]

MCLibrary == [f1 |-> Lib("created", <<"/", "a">>, {"process", "connect", "header", "body"}),
              f2 |-> Lib("created", <<"/", "A", "b">>, {"connect", "body"}),
              f3 |-> Lib("created", <<"/", "A">>, {"header"}),
              f4 |-> Lib("created", <<>>, {"header", "connect"}),
              f5 |-> Lib("throws", <<>>, {}),
              f6 |-> Lib("no library", <<>>, {})]

MCFiles == DOMAIN MCLibrary
MCupper(c) == CASE c = "a" -> "A" [] c = "b" -> "B" [] OTHER -> c
=============================================================================
