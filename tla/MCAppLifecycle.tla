--------------------------- MODULE MCAppLifecycle ---------------------------
(***************************************************************************)
(* The whole program, closed at any moment or only while the server runs.  *)
(* There is nothing to bound: the threads' loops are finite-state.         *)
(***************************************************************************)
EXTENDS AppLifecycle
=============================================================================
