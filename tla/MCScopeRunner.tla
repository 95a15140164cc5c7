---------------------------- MODULE MCScopeRunner ----------------------------
(***************************************************************************)
(* ScopeRunner with three handlers and two stop() calls: the destructor's  *)
(* and one that finds the scopes already cancelled.  Three handlers are    *)
(* enough for one to hold a lock, one to race for it and one to be stale.  *)
(***************************************************************************)
EXTENDS ScopeRunner

CONSTANTS s1, s2, s3, d1, d2

MCScopes == {s1, s2, s3}
MCStoppers == {d1, d2}
=============================================================================
