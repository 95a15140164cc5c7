--------------------------- MODULE MCDanmakuManager ---------------------------
(***************************************************************************)
(* DanmakuManager on a screen of 3 x 2 with danmaku of one row, of two     *)
(* rows and empty ones, so that a candidate may find the first row, the    *)
(* second or none free, and leave the screen after a few passes.           *)
(***************************************************************************)
EXTENDS DanmakuManager

CONSTANTS server, window

OneAdder == {server}
TwoAdders == {server, window}

SizeWH(width, height) == [w |-> width, h |-> height]
SizesAll == {SizeWH(2, 1), SizeWH(1, 2), SizeWH(0, 0)}
SizesTwo == {SizeWH(2, 1), SizeWH(1, 1)}
SpeedsTwo == {1, 2}
=============================================================================
