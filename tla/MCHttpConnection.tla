-------------------------- MODULE MCHttpConnection --------------------------
(***************************************************************************)
(* Instances of HttpConnection for TLC: buffers of three bytes, so that a  *)
(* request spans several of them and a buffer holds the end of one request *)
(* and the start of the next.                                              *)
(***************************************************************************)
EXTENDS HttpConnection

Req(h, b, x) == [hdr |-> h, body |-> b, bad |-> x]

\* Headers and bodies within the limits, beyond them by the slack and by more,
\* and malformed requests.
MCRequests == {Req(1, 0, 0), Req(2, 0, 0), Req(5, 1, 0), Req(6, 0, 0),
               Req(1, 5, 0), Req(2, 6, 0), Req(3, 1, 2), Req(2, 2, 4)}

\* Two requests whose headers are within the limit of three bytes.
MCShortHeaders == {Req(1, 0, 0), Req(3, 2, 0)}
=============================================================================
