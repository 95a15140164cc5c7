--------------------------- MODULE DanmakuManager ---------------------------
(***************************************************************************)
(* DanmakuManager (Danmaku.h, Danmaku.cpp): the danmaku that scroll from   *)
(* right to left over the screen.  Three kinds of threads share            *)
(* m_danmakuSet under m_danmakuSetLock: those that add a danmaku (the HTTP *)
(* server's and the window's, for its test button), the update thread that *)
(* moves and erases them, and the render thread that draws them.  The      *)
(* speed is read and written without the lock.                             *)
(*                                                                         *)
(* AddDanmaku holds the lock for one scan of the set or for the push_back, *)
(* each one step here.  A pass of UpdateDanmaku and of RenderDanmakuSet    *)
(* holds the lock over one step per danmaku.                               *)
(***************************************************************************)
EXTENDS Integers, SequencesExt

CONSTANTS
    Adders,          \* threads that call AddDanmaku
    Sizes,           \* sizes [w, h] a text may have; empty texts have none
    BoxWidth,        \* m_danmakuBoxSize: the virtual screen
    BoxHeight,
    InitSpeed,       \* m_danmakuSpeed at the start
    Speeds,          \* positions of the speed slider
    MaxAdded,        \* bound: calls of AddDanmaku
    MaxChanges       \* bound: moves of the speed slider

ASSUME SizesAssumption == Sizes \subseteq [w : Nat, h : Nat]
ASSUME BoxAssumption == BoxWidth \in Nat /\ BoxHeight \in Nat
ASSUME SpeedsAssumption == InitSpeed \in Nat \ {0} /\ Speeds \subseteq Nat \ {0}
ASSUME BoundsAssumption == MaxAdded \in Nat /\ MaxChanges \in Nat

Danmakus == [x : Int, y : Nat, w : Nat, h : Nat]

VARIABLES
    danmakuSet,      \* m_danmakuSet, the oldest first
    lock,            \* who holds m_danmakuSetLock across steps
    it,              \* UpdateDanmaku's iterator, 0 outside a pass
    frame,           \* where RenderDanmakuSet has drawn danmaku so far
    speed,           \* m_danmakuSpeed
    pc,              \* where each call of AddDanmaku is
    cand,            \* the danmaku each call is placing
    added,           \* calls of AddDanmaku so far
    changes          \* moves of the speed slider so far

vars == <<danmakuSet, lock, it, frame, speed, pc, cand, added, changes>>

NoDanmaku == [x |-> 0, y |-> 0, w |-> 0, h |-> 0]

TypeOK ==
    /\ danmakuSet \in Seq(Danmakus)
    /\ lock \in {"free", "update", "render"}
    /\ it \in Nat
    /\ lock = "update" <=> it # 0
    /\ it # 0 => it \in 1 .. Len(danmakuSet) + 1
    /\ frame \in Seq(Int \X Nat)
    /\ speed \in Nat \ {0}
    /\ pc \in [Adders -> {"idle", "scan", "push"}]
    /\ cand \in [Adders -> Danmakus]
    /\ added \in Nat
    /\ changes \in Nat

Init ==
    /\ danmakuSet = <<>>
    /\ lock = "free"
    /\ it = 0
    /\ frame = <<>>
    /\ speed = InitSpeed
    /\ pc = [a \in Adders |-> "idle"]
    /\ cand = [a \in Adders |-> NoDanmaku]
    /\ added = 0
    /\ changes = 0

\* The collision test of AddDanmaku.
Collide(i, d) ==
    /\ i.x + i.w > d.x /\ i.x < d.x + d.w
    /\ i.y + i.h > d.y /\ i.y < d.y + d.h

Fits(d) == d.y + d.h <= BoxHeight

-----------------------------------------------------------------------------
(* AddDanmaku                                                              *)

\* The danmaku is built at the right edge, in the top row.
StartAdd(a) ==
    /\ pc[a] = "idle"
    /\ added < MaxAdded
    /\ \E size \in Sizes :
          cand' = [cand EXCEPT ![a] = [x |-> BoxWidth, y |-> 0, w |-> size.w, h |-> size.h]]
    /\ pc' = [pc EXCEPT ![a] = "scan"]
    /\ added' = added + 1
    /\ UNCHANGED <<danmakuSet, lock, it, frame, speed, changes>>

\* Mutant of ScanClear: hasCollision keeps the value of the scan before.
ScanClearSticky(a) ==
    /\ pc[a] = "scan"
    /\ lock = "free"
    /\ cand[a].y = 0
    /\ \A k \in DOMAIN danmakuSet : ~Collide(danmakuSet[k], cand[a])
    /\ pc' = [pc EXCEPT ![a] = "push"]
    /\ UNCHANGED <<danmakuSet, lock, it, frame, speed, cand, added, changes>>

\* No danmaku of the set is in the way.
ScanClear(a) ==
    /\ pc[a] = "scan"
    /\ lock = "free"
    /\ \A k \in DOMAIN danmakuSet : ~Collide(danmakuSet[k], cand[a])
    /\ pc' = [pc EXCEPT ![a] = "push"]
    /\ UNCHANGED <<danmakuSet, lock, it, frame, speed, cand, added, changes>>

\* Mutant of ScanBlocked: the loop is left after the first collision.
ScanOnce(a) ==
    /\ pc[a] = "scan"
    /\ lock = "free"
    /\ \E k \in DOMAIN danmakuSet :
          /\ Collide(danmakuSet[k], cand[a])
          /\ \A j \in 1 .. k - 1 : ~Collide(danmakuSet[j], cand[a])
          /\ cand' = [cand EXCEPT ![a].y = danmakuSet[k].y + danmakuSet[k].h]
    /\ pc' = [pc EXCEPT ![a] = "push"]
    /\ UNCHANGED <<danmakuSet, lock, it, frame, speed, added, changes>>

\* Mutant of ScanBlocked: the loop does not stop at the bottom of the screen.
ScanUnbounded(a) ==
    /\ pc[a] = "scan"
    /\ lock = "free"
    /\ \E k \in DOMAIN danmakuSet :
          /\ Collide(danmakuSet[k], cand[a])
          /\ cand' = [cand EXCEPT ![a].y = danmakuSet[k].y + danmakuSet[k].h]
    /\ UNCHANGED <<danmakuSet, lock, it, frame, speed, pc, added, changes>>

\* The first danmaku in the way moves the candidate below it, and the scan
\* starts again unless that is below the bottom of the screen.
ScanBlocked(a) ==
    /\ pc[a] = "scan"
    /\ lock = "free"
    /\ \E k \in DOMAIN danmakuSet :
          /\ Collide(danmakuSet[k], cand[a])
          /\ \A j \in 1 .. k - 1 : ~Collide(danmakuSet[j], cand[a])
          /\ cand' = [cand EXCEPT ![a].y = danmakuSet[k].y + danmakuSet[k].h]
    /\ pc' = [pc EXCEPT ![a] = IF Fits(cand'[a]) THEN "scan" ELSE "push"]
    /\ UNCHANGED <<danmakuSet, lock, it, frame, speed, added, changes>>

\* m_danmakuSet.push_back under a lock of its own: the scan's was released.
Push(a) ==
    /\ pc[a] = "push"
    /\ lock = "free"
    /\ danmakuSet' = Append(danmakuSet, cand[a])
    /\ pc' = [pc EXCEPT ![a] = "idle"]
    /\ cand' = [cand EXCEPT ![a] = NoDanmaku]
    /\ UNCHANGED <<lock, it, frame, speed, added, changes>>

-----------------------------------------------------------------------------
(* UpdateDanmaku                                                           *)

UpdateBegin ==
    /\ lock = "free"
    /\ lock' = "update"
    /\ it' = 1
    /\ UNCHANGED <<danmakuSet, frame, speed, pc, cand, added, changes>>

Moved(d) == [d EXCEPT !.x = @ - speed]

\* Mutant of UpdateMove: the position before the move is tested.
UpdateMoveTestedFirst ==
    /\ it \in DOMAIN danmakuSet
    /\ danmakuSet[it].x + danmakuSet[it].w > 0
    /\ danmakuSet' = [danmakuSet EXCEPT ![it] = Moved(@)]
    /\ it' = it + 1
    /\ UNCHANGED <<lock, frame, speed, pc, cand, added, changes>>

\* Mutant of UpdateMove: a copy of the danmaku is moved.
UpdateMoveCopy ==
    /\ it \in DOMAIN danmakuSet
    /\ LET d == Moved(danmakuSet[it])
       IN  d.x + d.w > 0
    /\ it' = it + 1
    /\ UNCHANGED <<danmakuSet, lock, frame, speed, pc, cand, added, changes>>

\* The danmaku at the iterator is still on the screen after its move.
UpdateMove ==
    /\ it \in DOMAIN danmakuSet
    /\ LET d == Moved(danmakuSet[it])
       IN  /\ d.x + d.w > 0
           /\ danmakuSet' = [danmakuSet EXCEPT ![it] = d]
    /\ it' = it + 1
    /\ UNCHANGED <<lock, frame, speed, pc, cand, added, changes>>

\* Mutant of UpdateErase: the iterator is advanced as well, and skips one.
UpdateEraseSkips ==
    /\ it \in DOMAIN danmakuSet
    /\ LET d == Moved(danmakuSet[it])
       IN  d.x + d.w <= 0
    /\ danmakuSet' = RemoveAt(danmakuSet, it)
    /\ it' = it + 1
    /\ UNCHANGED <<lock, frame, speed, pc, cand, added, changes>>

\* It is not: erase it.  The iterator then stands on its successor.
UpdateErase ==
    /\ it \in DOMAIN danmakuSet
    /\ LET d == Moved(danmakuSet[it])
       IN  d.x + d.w <= 0
    /\ danmakuSet' = RemoveAt(danmakuSet, it)
    /\ UNCHANGED <<lock, it, frame, speed, pc, cand, added, changes>>

UpdateEnd ==
    /\ it = Len(danmakuSet) + 1
    /\ lock' = "free"
    /\ it' = 0
    /\ UNCHANGED <<danmakuSet, frame, speed, pc, cand, added, changes>>

-----------------------------------------------------------------------------
(* RenderDanmakuSet                                                        *)

RenderBegin ==
    /\ lock = "free"
    /\ lock' = "render"
    /\ frame' = <<>>
    /\ UNCHANGED <<danmakuSet, it, speed, pc, cand, added, changes>>

RenderStep ==
    /\ lock = "render"
    /\ Len(frame) < Len(danmakuSet)
    /\ LET d == danmakuSet[Len(frame) + 1]
       IN  frame' = Append(frame, <<d.x, d.y>>)
    /\ UNCHANGED <<danmakuSet, lock, it, speed, pc, cand, added, changes>>

\* The frame is complete and goes to the screen.
RenderEnd ==
    /\ lock = "render"
    /\ Len(frame) = Len(danmakuSet)
    /\ lock' = "free"
    /\ frame' = <<>>
    /\ UNCHANGED <<danmakuSet, it, speed, pc, cand, added, changes>>

-----------------------------------------------------------------------------
\* The speed slider is dragged, at any moment.
SetSpeed ==
    /\ changes < MaxChanges
    /\ speed' \in Speeds
    /\ changes' = changes + 1
    /\ UNCHANGED <<danmakuSet, lock, it, frame, pc, cand, added>>

Update == UpdateBegin \/ UpdateMove \/ UpdateErase \/ UpdateEnd
Render == RenderBegin \/ RenderStep \/ RenderEnd
Add(a) == StartAdd(a) \/ ScanClear(a) \/ ScanBlocked(a) \/ Push(a)

Next ==
    \/ \E a \in Adders : Add(a)
    \/ Update
    \/ Render
    \/ SetSpeed

Spec == Init /\ [][Next]_vars

\* The slider is not dragged in the middle of a pass.
SteadyNext == Next /\ (it # 0 => UNCHANGED speed)

SteadySpec == Init /\ [][SteadyNext]_vars

\* Every pass and every call of AddDanmaku goes on.  The update and the render
\* thread sleep between two passes without the lock, so whoever waits for it
\* gets it: strong fairness.  Nobody has to add a danmaku.
Fairness ==
    /\ \A a \in Adders : SF_vars(ScanClear(a) \/ ScanBlocked(a) \/ Push(a))
    /\ SF_vars(UpdateBegin)
    /\ WF_vars(UpdateMove \/ UpdateErase \/ UpdateEnd)
    /\ WF_vars(RenderStep \/ RenderEnd)

FairSpec == Spec /\ Fairness

-----------------------------------------------------------------------------
(* Properties                                                              *)

Visible(d) == d.w > 0 /\ d.h > 0

\* Outside a pass no danmaku that found room on the screen covers an older one:
\* AddDanmaku looks for a row that is free, and all danmaku move together.
\* It takes one adding thread and a slider at rest during passes.
NoCover ==
    it = 0 =>
        \A j \in DOMAIN danmakuSet, i \in DOMAIN danmakuSet :
            /\ i < j
            /\ Fits(danmakuSet[j])
            /\ Visible(danmakuSet[i]) /\ Visible(danmakuSet[j])
            => ~Collide(danmakuSet[i], danmakuSet[j])

\* Outside a pass every danmaku of the set has a column on the screen, or is an
\* empty one that waits at its right edge: a pass leaves none behind that it
\* should have erased, whatever it erased before, and moves each of them.
OnScreen ==
    it = 0 =>
        \A k \in DOMAIN danmakuSet :
            /\ danmakuSet[k].x <= BoxWidth
            /\ danmakuSet[k].x + danmakuSet[k].w > 0 \/ danmakuSet[k].x = BoxWidth

\* A burst of danmaku does not pile up below the screen without end: the search
\* for a row gives up at the first row that does not fit.
StackBounded ==
    \A k \in DOMAIN danmakuSet :
        LET d == danmakuSet[k]
        IN  \/ d.y = 0
            \/ \E size \in Sizes :
                  d.y < (IF d.h > BoxHeight THEN d.h ELSE BoxHeight) + size.h

\* The frame being drawn shows the danmaku where one and the same state of the
\* set has them: no pass and no erasure happens under the render thread.
FrameConsistent ==
    lock = "render" =>
        /\ it = 0
        /\ Len(frame) <= Len(danmakuSet)
        /\ \A k \in DOMAIN frame : frame[k] = <<danmakuSet[k].x, danmakuSet[k].y>>

\* The search for a row ends and the danmaku is added, whatever the other
\* threads do to the set between two scans.
AddReturns == \A a \in Adders : pc[a] = "scan" ~> pc[a] = "idle"

\* Every danmaku leaves the screen in the end (the calls of AddDanmaku are
\* bounded by MaxAdded).
Drains == <>[](danmakuSet = <<>>)
=============================================================================
