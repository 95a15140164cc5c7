--------------------------- MODULE DanmakuChannel ---------------------------
(***************************************************************************)
(* What a source of danmaku promises: whatever is offered to it is handed  *)
(* to the program at most once, if at all, and nothing else is.            *)
(***************************************************************************)
EXTENDS Naturals

CONSTANT
    Danmakus

VARIABLES
    offered,         \* the danmaku there are at the source
    tried,           \* those that were handed over
    shown            \* how often the program took each of them

vars == <<offered, tried, shown>>

Init ==
    /\ offered = {}
    /\ tried = {}
    /\ shown = [d \in Danmakus |-> 0]

Offer(d) ==
    /\ d \notin offered
    /\ offered' = offered \cup {d}
    /\ UNCHANGED <<tried, shown>>

\* The one attempt, which may fail.
Try(d) ==
    /\ d \in offered \ tried
    /\ tried' = tried \cup {d}
    /\ \E n \in {0, 1} : shown' = [shown EXCEPT ![d] = n]
    /\ UNCHANGED offered

Next == \E d \in Danmakus : Offer(d) \/ Try(d)

Spec == Init /\ [][Next]_vars
=============================================================================
