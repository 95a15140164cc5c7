---------------------------- MODULE MCSyncRequest ----------------------------
(***************************************************************************)
(* Three threads with two calls each: one inside run(), one that posts and *)
(* one that comes back and resets, and each may do it all over again.      *)
(***************************************************************************)
EXTENDS SyncRequest

CONSTANTS t1, t2, t3

ThreeThreads == {t1, t2, t3}
=============================================================================
