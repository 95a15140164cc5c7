---------------------------- MODULE MCHttpClient ----------------------------
(***************************************************************************)
(* HttpClient with up to three requests and two connections, so that one   *)
(* request may have a connection while another gives one back and a third  *)
(* takes it.                                                               *)
(***************************************************************************)
EXTENDS HttpClient, TLC

CONSTANTS r1, r2, r3, c1, c2

TwoRequests == {r1, r2}
ThreeRequests == {r1, r2, r3}
OneConn == {c1}
TwoConns == {c1, c2}

\* Requests are interchangeable, and so are connections.
PoolSymmetry == Permutations(Requests) \cup Permutations(Conns)
=============================================================================
