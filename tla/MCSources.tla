----------------------------- MODULE MCSources -----------------------------
(***************************************************************************)
(* Sources with a few danmaku: one that is there before a script starts,   *)
(* one that comes while another is being added.                            *)
(***************************************************************************)
EXTENDS Sources

CONSTANT MaxId

FewIds == 1..MaxId
=============================================================================
