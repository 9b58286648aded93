------------------------------- MODULE Dispatch -------------------------------
(***************************************************************************)
(* From the start of a worker to the handlers of a request: modules (see   *)
(* Routing) and the codec (see Codec) composed by http_service::start() and*)
(* http_connection, on one connection.  Reads, limits and timers are in    *)
(* HttpConnection; here a connection may close at any read.                *)
(***************************************************************************)
EXTENDS Codec, Routing, LpmTree

VARIABLES
  stage,     \* setup, accept, header, body, closed
  mh,        \* the module of the request at hand
  calls      \* (history) for each module the events it was called for

vars == <<codecVars, routingVars, stage, mh, calls>>

\* (external) http_parser_parse_url(): where the path begins, 0 if there is none,
\* and where it ends: in front of a query or a fragment.  What comes before the first
\* slash stands for the scheme, host and port of an absolute URL.
PathAt(url) ==
  LET slashes == {i \in DOMAIN url : url[i] = "/"}
  IN  IF slashes = {} THEN 0 ELSE Min(slashes)
PathEnd(url) == Min({i \in PathAt(url) .. Len(url) : i = Len(url) \/ url[i + 1] \in {"?", "#"}})
Path(url) == SubSeq(url, PathAt(url), PathEnd(url))

\* The text at path.data(): up to the end of the string that the slice is in.
PathData(url) == SubSeq(url, PathAt(url), Len(url))

\* A loop over modules: those of them that want the event are called.
Called(fs, event, call) ==
  calls' = [f \in Files |-> IF f \in fs /\ event \in Library[f].events
                            THEN Append(calls[f], [event |-> call, txn |-> txn]) ELSE calls[f]]
-----------------------------------------------------------------------------
Init ==
  /\ CodecInit /\ RoutingInit
  /\ stage = "setup" /\ mh = NULL /\ calls = [f \in Files |-> <<>>]

load == stage = "setup" /\ (\E f \in Files : setup(f)) /\ UNCHANGED <<codecVars, stage, mh, calls>>

\* Defect: the modules are not told that the process begins.
start_silent ==
  /\ stage = "setup" /\ todo = {} /\ stage' = "accept"
  /\ UNCHANGED <<codecVars, routingVars, mh, calls>>

\* http_service::start(), up to its loop, which nothing ends: setup() has returned.
start ==
  /\ stage = "setup" /\ todo = {} /\ stage' = "accept"
  /\ Called(list_handler, "process", "on_process_init")
  /\ UNCHANGED <<codecVars, routingVars, mh>>

http_connection ==
  /\ stage = "accept" /\ stage' = "header"
  /\ Called(list_handler, "connect", "on_connect_init")
  /\ UNCHANGED <<codecVars, routingVars, mh>>

receive_header ==
  /\ stage = "header" /\ ~headers_completed_
  /\ parse_header \/ \E n \in 1 .. iobuf_size : read_some(n)
  /\ UNCHANGED <<routingVars, stage, mh, calls>>

on_request_header ==
  /\ stage = "header" /\ headers_completed_ /\ stage' = "body"
  /\ mh' = IF PathAt(strurl_) = 0 THEN default_ ELSE match_handler(PathData(strurl_))
  /\ Called({mh'}, "header", "on_request_header")
  /\ UNCHANGED <<codecVars, routingVars>>

receive_body ==
  /\ stage = "body" /\ ~message_completed_
  /\ parse_body \/ \E n \in 1 .. iobuf_size : read_some(n)
  /\ UNCHANGED <<routingVars, stage, mh, calls>>

\* on_request_body() and the response; the connection is kept for another request.
on_request_body ==
  /\ stage = "body" /\ message_completed_
  /\ Called({mh}, "body", "on_request_body")
  /\ stage' = "header" /\ mh' = NULL
  /\ next_request
  /\ UNCHANGED routingVars

\* The response to the last request, a failed read or a refused request ends the
\* connection.
close ==
  /\ \/ stage = "body" /\ message_completed_
     \/ stage \in {"header", "body"} /\ (error \/ Reading)
  /\ stage' = "closed"
  /\ LET served == IF message_completed_ /\ mh # NULL /\ "body" \in Library[mh].events
                   THEN [calls EXCEPT ![mh] = Append(@, [event |-> "on_request_body", txn |-> txn])]
                   ELSE calls
     IN  calls' = [f \in Files |-> IF f \in list_handler /\ "connect" \in Library[f].events
                     THEN Append(served[f], [event |-> "on_connect_exit", txn |-> txn])
                     ELSE served[f]]
  /\ UNCHANGED <<codecVars, routingVars, mh>>

Next == load \/ start \/ http_connection \/ receive_header \/ on_request_header
        \/ receive_body \/ on_request_body \/ close

Spec == Init /\ [][Next]_vars
-----------------------------------------------------------------------------
(* Properties *)

TypeOK ==
  /\ CodecTypeOK /\ RoutingTypeOK
  /\ stage \in {"setup", "accept", "header", "body", "closed"}
  /\ mh \in Files \cup {NULL}
  /\ DOMAIN calls = Files

\* In whatever order the directory lists the files and whichever of them fail, a
\* request whose URL ends with its path goes to the module that was created first
\* for that path, letters of either case being the same, and otherwise to the
\* module created last without a path.
RoutedToOwner ==
  stage = "body" =>
    /\ PathAt(strurl_) = 0 => mh = LastWithout
    /\ PathAt(strurl_) # 0 /\ PathEnd(strurl_) = Len(strurl_) => mh = Owner(Path(strurl_))

\* codecs.cpp, "the start and the length have to be kept": the path of a request
\* ends where its slice ends, so a query does not matter for the choice.
RoutedByPath ==
  stage = "body" /\ PathAt(strurl_) # 0 => mh = Owner(Path(strurl_))

\* handler.hpp: a module in the table that asks for it is told of the process
\* before, and of the connection before and after all requests of the connection
\* it gets, and gets the header of a request before its body.
LifeCycle ==
  \A f \in list_handler :
    LET at(e) == {i \in DOMAIN calls[f] : calls[f][i].event = e}
        before(i, e) == \E j \in at(e) : j < i
        wants(e) == e \in Library[f].events
    IN  /\ \A i \in at("on_request_header") \cup at("on_request_body") :
             /\ wants("process") => before(i, "on_process_init")
             /\ wants("connect") => before(i, "on_connect_init")
             /\ ~before(i, "on_connect_exit")
        /\ wants("header") => \A i \in at("on_request_body") :
             \E j \in at("on_request_header") : j < i /\ calls[f][j].txn = calls[f][i].txn
        /\ stage = "closed" =>
             Cardinality(at("on_connect_init")) = Cardinality(at("on_connect_exit"))

\* On the paths of the modules, in the order of their creation, search() of
\* lpmtree finds for every URL what its test calls the matched prefix: the longest
\* one inserted, with the value inserted last; and values() has each value once.
TreeMatchesLongest ==
  LET series == [i \in DOMAIN created |-> <<Library[created[i]].path, created[i]>>]
      tree == Grown(series)
  IN  /\ \A t \in DOMAIN Stream :
           search(tree, Stream[t].url) = LongestPrefix(series, Stream[t].url)
      /\ ToSet(tree.values_) = ToSet(created)
      /\ Len(tree.values_) = Cardinality(ToSet(created))
=============================================================================
