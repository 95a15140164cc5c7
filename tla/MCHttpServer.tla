---------------------------- MODULE MCHttpServer ----------------------------
(***************************************************************************)
(* HttpServer with two Connection objects: that of a peer and the one that *)
(* is waited for.                                                          *)
(***************************************************************************)
EXTENDS HttpServer

CONSTANTS c1, c2

TwoConns == {c1, c2}
=============================================================================
