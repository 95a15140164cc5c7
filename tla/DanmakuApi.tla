----------------------------- MODULE DanmakuApi -----------------------------
(***************************************************************************)
(* The way of a danmaku into the program: add_danmaku() of the scripts     *)
(* (danmaku_chicken.py), a POST to /danmaku, and HandleAddDanmaku, which   *)
(* answers it.  offered, tried and shown record what has become of each.   *)
(***************************************************************************)
EXTENDS Naturals, FiniteSets

CONSTANT
    Ids              \* danmaku that a source may offer, numbered

ASSUME IdsAssumption == IsFiniteSet(Ids) /\ Ids = 1 .. Cardinality(Ids)

VARIABLES
    offered,         \* danmaku that the source has
    tried,           \* danmaku that add_danmaku() was called with
    shown            \* how often the program took each of them

apiVars == <<offered, tried, shown>>

ApiTypeOK ==
    /\ offered \subseteq Ids
    /\ tried \subseteq Ids
    /\ shown \in [Ids -> Nat]

ApiInit ==
    /\ offered = {}
    /\ tried = {}
    /\ shown = [d \in Ids |-> 0]

\* 200 if the danmaku was added, 400 if its JSON is no good; no answer if the
\* program is not there, or if it goes before its answer has arrived.
Replies ==
    { [taken |-> TRUE, status |-> 200],
      [taken |-> FALSE, status |-> 400],
      [taken |-> FALSE, status |-> 0],
      [taken |-> TRUE, status |-> 0] }

\* The call.  It returns whether the status is 200, so that all failures look
\* alike, and its callers only print that.
AddDanmaku(d) ==
    \E reply \in Replies :
        /\ tried' = tried \cup {d}
        /\ shown' = [shown EXCEPT ![d] = IF reply.taken THEN @ + 1 ELSE @]

\* Something new at the source.
Offer(d) ==
    /\ d \notin offered
    /\ offered' = offered \cup {d}
    /\ UNCHANGED <<tried, shown>>
=============================================================================
