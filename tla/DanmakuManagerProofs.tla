------------------------ MODULE DanmakuManagerProofs ------------------------
(***************************************************************************)
(* Proofs about DanmakuManager, for every screen, every set of text sizes, *)
(* every slider and any number of danmaku.                                 *)
(*                                                                         *)
(* The types, OnScreen, StackBounded and FrameConsistent hold of Spec: any *)
(* number of adding threads, the slider at any moment.  NoCover holds of   *)
(* SteadySpec with one adding thread.  Its inductive invariant compares    *)
(* the danmaku where the running pass will have put them, see SettledX.    *)
(***************************************************************************)
EXTENDS DanmakuManager, SequenceTheorems, TLAPS

\* What erasing an element does to a sequence.
LEMMA RemoveAtProperties ==
    ASSUME NEW S, NEW s \in Seq(S), NEW k \in 1 .. Len(s)
    PROVE  /\ RemoveAt(s, k) \in Seq(S)
           /\ Len(RemoveAt(s, k)) = Len(s) - 1
           /\ \A i \in 1 .. Len(s) - 1 :
                 RemoveAt(s, k)[i] = s[IF i < k THEN i ELSE i + 1]
<1> DEFINE l == SubSeq(s, 1, k - 1)
           r == SubSeq(s, k + 1, Len(s))
<1>1. l \in Seq(S) /\ Len(l) = k - 1 /\ \A i \in 1 .. k - 1 : l[i] = s[i]
  BY SubSeqProperties
<1>2. r \in Seq(S) /\ Len(r) = Len(s) - k /\ \A i \in 1 .. Len(s) - k : r[i] = s[k + i]
  <2>1. \A i \in k + 1 .. Len(s) : i \in 1 .. Len(s)
    OBVIOUS
  <2>2. r \in Seq(S) /\ Len(r) = (IF k + 1 <= Len(s) THEN Len(s) - (k + 1) + 1 ELSE 0)
        /\ \A i \in 1 .. Len(s) - (k + 1) + 1 : r[i] = s[(k + 1) + i - 1]
    BY SubSeqProperties
  <2>3. QED
    BY <2>2
<1>3. RemoveAt(s, k) = l \o r
  BY DEF RemoveAt
<1> HIDE DEF l, r
<1>4. /\ l \o r \in Seq(S)
      /\ Len(l \o r) = Len(l) + Len(r)
      /\ \A i \in 1 .. Len(l) + Len(r) :
            (l \o r)[i] = IF i <= Len(l) THEN l[i] ELSE r[i - Len(l)]
  BY <1>1, <1>2, ConcatProperties
<1>5. Len(l) + Len(r) = Len(s) - 1
  BY <1>1, <1>2
<1>6. ASSUME NEW i \in 1 .. Len(s) - 1
      PROVE  (l \o r)[i] = s[IF i < k THEN i ELSE i + 1]
  <2>1. CASE i < k
    BY <2>1, <1>1, <1>4, <1>5
  <2>2. CASE ~(i < k)
    <3>1. i - Len(l) \in 1 .. Len(s) - k /\ k + (i - Len(l)) = i + 1 /\ ~(i <= Len(l))
      BY <2>2, <1>1
    <3>2. (l \o r)[i] = r[i - Len(l)]
      BY <3>1, <1>4, <1>5
    <3>3. r[i - Len(l)] = s[i + 1]
      BY <3>1, <1>2
    <3>4. QED
      BY <2>2, <3>2, <3>3
  <2>3. QED
    BY <2>1, <2>2
<1>7. QED
  BY <1>3, <1>4, <1>5, <1>6

LEMMA ElementType ==
    ASSUME TypeOK
    PROVE  \A k \in 1 .. Len(danmakuSet) : danmakuSet[k] \in Danmakus
  BY DEF TypeOK

\* What each step of the set does to it, element by element.
LEMMA PushFacts ==
    ASSUME TypeOK, NEW a \in Adders, Push(a)
    PROVE  /\ Len(danmakuSet') = Len(danmakuSet) + 1
           /\ \A k \in 1 .. Len(danmakuSet) : danmakuSet'[k] = danmakuSet[k]
           /\ danmakuSet'[Len(danmakuSet) + 1] = cand[a]
           /\ cand[a] \in Danmakus
           /\ it = 0 /\ it' = 0
  BY DEF Push, TypeOK

LEMMA MoveFacts ==
    ASSUME TypeOK, UpdateMove
    PROVE  /\ it \in 1 .. Len(danmakuSet) /\ it' = it + 1
           /\ danmakuSet' \in Seq(Danmakus)
           /\ Len(danmakuSet') = Len(danmakuSet)
           /\ \A k \in 1 .. Len(danmakuSet) :
                 /\ danmakuSet'[k].x = danmakuSet[k].x - (IF k = it THEN speed ELSE 0)
                 /\ danmakuSet'[k].y = danmakuSet[k].y
                 /\ danmakuSet'[k].w = danmakuSet[k].w
                 /\ danmakuSet'[k].h = danmakuSet[k].h
           /\ danmakuSet'[it].x + danmakuSet'[it].w > 0
<1>1. it \in 1 .. Len(danmakuSet) /\ it' = it + 1
  BY DEF UpdateMove, TypeOK
<1>2. Moved(danmakuSet[it]) \in Danmakus
  <2>1. danmakuSet[it] \in Danmakus
    BY <1>1 DEF TypeOK
  <2>2. speed \in Int
    BY DEF TypeOK
  <2>3. ASSUME NEW d \in Danmakus PROVE Moved(d) \in Danmakus
    <3>1. d.x - speed \in Int
      BY <2>2 DEF Danmakus
    <3>2. QED
      BY <3>1 DEF Moved, Danmakus
  <2>4. QED
    BY <2>1, <2>3
<1>3. danmakuSet' = [danmakuSet EXCEPT ![it] = Moved(danmakuSet[it])]
  BY DEF UpdateMove
<1>4. danmakuSet' \in Seq(Danmakus) /\ Len(danmakuSet') = Len(danmakuSet)
  BY <1>1, <1>2, <1>3 DEF TypeOK
<1>5. \A k \in 1 .. Len(danmakuSet) :
         danmakuSet'[k] = IF k = it THEN Moved(danmakuSet[it]) ELSE danmakuSet[k]
  BY <1>1, <1>3 DEF TypeOK
<1>6. \A d \in Danmakus : /\ Moved(d).x = d.x - speed
                          /\ Moved(d).y = d.y /\ Moved(d).w = d.w /\ Moved(d).h = d.h
  BY DEF Moved, Danmakus, TypeOK
<1>7. \A k \in 1 .. Len(danmakuSet) : danmakuSet[k] \in Danmakus
  BY DEF TypeOK
<1>8. ASSUME NEW k \in 1 .. Len(danmakuSet)
      PROVE  /\ danmakuSet'[k].x = danmakuSet[k].x - (IF k = it THEN speed ELSE 0)
             /\ danmakuSet'[k].y = danmakuSet[k].y
             /\ danmakuSet'[k].w = danmakuSet[k].w
             /\ danmakuSet'[k].h = danmakuSet[k].h
  <2>1. CASE k = it
    BY <2>1, <1>5, <1>6, <1>7
  <2>2. CASE k # it
    <3>1. danmakuSet[k].x \in Int
      BY <1>7 DEF Danmakus
    <3>2. QED
      BY <2>2, <1>5, <3>1
  <2>3. QED
    BY <2>1, <2>2
<1>9. danmakuSet'[it].x + danmakuSet'[it].w > 0
  BY <1>1, <1>5 DEF UpdateMove
<1>10. QED
  BY <1>1, <1>4, <1>8, <1>9

LEMMA EraseFacts ==
    ASSUME TypeOK, UpdateErase
    PROVE  /\ it \in 1 .. Len(danmakuSet) /\ it' = it
           /\ danmakuSet' \in Seq(Danmakus)
           /\ Len(danmakuSet') = Len(danmakuSet) - 1
           /\ \A k \in 1 .. Len(danmakuSet) - 1 :
                 danmakuSet'[k] = danmakuSet[IF k < it THEN k ELSE k + 1]
<1>1. it \in 1 .. Len(danmakuSet) /\ it' = it
  BY DEF UpdateErase, TypeOK
<1>2. danmakuSet' = RemoveAt(danmakuSet, it)
  BY DEF UpdateErase
<1>3. QED
  BY <1>1, <1>2, RemoveAtProperties DEF TypeOK

-----------------------------------------------------------------------------
LEMMA TypeInit == Init => TypeOK
  BY SpeedsAssumption DEF Init, TypeOK, NoDanmaku, Danmakus

LEMMA TypeStep == TypeOK /\ [Next]_vars => TypeOK'
<1> SUFFICES ASSUME TypeOK, [Next]_vars PROVE TypeOK'
  OBVIOUS
<1>1. ASSUME NEW a \in Adders, StartAdd(a) PROVE TypeOK'
  <2>1. \E size \in Sizes :
           cand' = [cand EXCEPT ![a] = [x |-> BoxWidth, y |-> 0, w |-> size.w, h |-> size.h]]
    BY <1>1 DEF StartAdd
  <2>2. ASSUME NEW size \in Sizes
        PROVE  [x |-> BoxWidth, y |-> 0, w |-> size.w, h |-> size.h] \in Danmakus
    BY SizesAssumption, BoxAssumption DEF Danmakus
  <2>3. cand' \in [Adders -> Danmakus]
    BY <2>1, <2>2 DEF TypeOK
  <2>4. QED
    BY <1>1, <2>3 DEF StartAdd, TypeOK
<1>2. ASSUME NEW a \in Adders, ScanClear(a) PROVE TypeOK'
  BY <1>2 DEF ScanClear, TypeOK
<1>3. ASSUME NEW a \in Adders, ScanBlocked(a) PROVE TypeOK'
  <2>1. PICK k \in DOMAIN danmakuSet :
           cand' = [cand EXCEPT ![a].y = danmakuSet[k].y + danmakuSet[k].h]
    BY <1>3 DEF ScanBlocked
  <2>2. danmakuSet[k] \in Danmakus /\ cand[a] \in Danmakus
    BY DEF TypeOK
  <2>3. danmakuSet[k].y + danmakuSet[k].h \in Nat
    BY <2>2 DEF Danmakus
  <2>4. cand' \in [Adders -> Danmakus]
    BY <2>1, <2>2, <2>3 DEF TypeOK, Danmakus
  <2>5. QED
    BY <1>3, <2>4 DEF ScanBlocked, TypeOK
<1>4. ASSUME NEW a \in Adders, Push(a) PROVE TypeOK'
  BY <1>4, PushFacts DEF Push, TypeOK, NoDanmaku, Danmakus
<1>5. CASE UpdateBegin
  BY <1>5 DEF UpdateBegin, TypeOK
<1>6. CASE UpdateMove
  BY <1>6, MoveFacts DEF UpdateMove, TypeOK
<1>7. CASE UpdateErase
  BY <1>7, EraseFacts DEF UpdateErase, TypeOK
<1>8. CASE UpdateEnd
  BY <1>8 DEF UpdateEnd, TypeOK
<1>9. CASE RenderBegin
  BY <1>9 DEF RenderBegin, TypeOK
<1>10. CASE RenderStep
  <2>1. danmakuSet[Len(frame) + 1] \in Danmakus
    BY <1>10 DEF RenderStep, TypeOK
  <2>2. <<danmakuSet[Len(frame) + 1].x, danmakuSet[Len(frame) + 1].y>> \in Int \X Nat
    BY <2>1 DEF Danmakus
  <2>3. frame' \in Seq(Int \X Nat)
    BY <1>10, <2>2 DEF RenderStep, TypeOK
  <2>4. QED
    BY <1>10, <2>3 DEF RenderStep, TypeOK
<1>11. CASE RenderEnd
  BY <1>11 DEF RenderEnd, TypeOK
<1>12. CASE SetSpeed
  BY <1>12, SpeedsAssumption DEF SetSpeed, TypeOK
<1>13. CASE UNCHANGED vars
  BY <1>13 DEF vars, TypeOK
<1>14. QED
  BY <1>1, <1>2, <1>3, <1>4, <1>5, <1>6, <1>7, <1>8, <1>9, <1>10, <1>11, <1>12, <1>13
     DEF Next, Add, Update, Render

\* Every variable keeps its type: the update thread's iterator stays within the
\* set it shortens, and no arithmetic leaves a danmaku without a position.
THEOREM TypeCorrect == Spec => []TypeOK
  BY TypeInit, TypeStep, PTL DEF Spec

-----------------------------------------------------------------------------
(* OnScreen.  In a pass, the danmaku before the iterator have been tested. *)

CandAtEdge == \A a \in Adders : pc[a] # "idle" => cand[a].x = BoxWidth

EdgesInv ==
    \A k \in 1 .. Len(danmakuSet) :
        /\ danmakuSet[k].x <= BoxWidth
        /\ k < it => danmakuSet[k].x + danmakuSet[k].w > 0
        /\ it = 0 => danmakuSet[k].x + danmakuSet[k].w > 0 \/ danmakuSet[k].x = BoxWidth

\* A candidate stays at the right edge until it is pushed.
LEMMA CandAtEdgeStep == TypeOK /\ CandAtEdge /\ [Next]_vars => CandAtEdge'
<1> SUFFICES ASSUME TypeOK, CandAtEdge, [Next]_vars, NEW b \in Adders, pc'[b] # "idle"
             PROVE  cand'[b].x = BoxWidth
  BY DEF CandAtEdge
<1>1. ASSUME NEW a \in Adders, StartAdd(a) PROVE cand'[b].x = BoxWidth
  BY <1>1 DEF StartAdd, TypeOK, CandAtEdge
<1>2. ASSUME NEW a \in Adders, ScanBlocked(a) PROVE cand'[b].x = BoxWidth
  <2>1. PICK k \in DOMAIN danmakuSet :
           cand' = [cand EXCEPT ![a].y = danmakuSet[k].y + danmakuSet[k].h]
    BY <1>2 DEF ScanBlocked
  <2>2. cand[a] \in Danmakus
    BY DEF TypeOK
  <2>3. cand'[b].x = cand[b].x
    BY <2>1, <2>2 DEF TypeOK, Danmakus
  <2>4. pc[b] # "idle"
    BY <1>2 DEF ScanBlocked, TypeOK
  <2>5. QED
    BY <2>3, <2>4 DEF CandAtEdge
<1>3. ASSUME NEW a \in Adders, ScanClear(a) \/ Push(a) PROVE cand'[b].x = BoxWidth
  BY <1>3 DEF ScanClear, Push, TypeOK, CandAtEdge
<1>4. CASE Update \/ Render \/ SetSpeed \/ UNCHANGED vars
  BY <1>4 DEF CandAtEdge, vars, Update, Render, SetSpeed, UpdateBegin, UpdateMove,
     UpdateErase, UpdateEnd, RenderBegin, RenderStep, RenderEnd
<1>5. QED
  BY <1>1, <1>2, <1>3, <1>4 DEF Next, Add

\* Steps that leave the set and the iterator alone.
LEMMA QuietSteps ==
    ASSUME TypeOK, [Next]_vars, ~UpdateBegin, ~UpdateMove, ~UpdateErase, ~UpdateEnd,
           \A a \in Adders : ~Push(a)
    PROVE  UNCHANGED <<danmakuSet, it>>
  BY DEF Next, Add, Update, Render, vars, StartAdd, ScanClear, ScanBlocked, SetSpeed,
     RenderBegin, RenderStep, RenderEnd

LEMMA EdgesStep == TypeOK /\ CandAtEdge /\ EdgesInv /\ [Next]_vars => EdgesInv'
<1> SUFFICES ASSUME TypeOK, CandAtEdge, EdgesInv, [Next]_vars PROVE EdgesInv'
  OBVIOUS
<1>0. \A k \in 1 .. Len(danmakuSet) : /\ danmakuSet[k].x \in Int
                                      /\ danmakuSet[k].w \in Nat
  BY ElementType DEF Danmakus
<1>1. ASSUME NEW a \in Adders, Push(a) PROVE EdgesInv'
  <2>1. cand[a].x = BoxWidth
    BY <1>1 DEF Push, CandAtEdge
  <2>2. Len(danmakuSet) \in Nat
    BY DEF TypeOK
  <2>3. QED
    BY <1>0, <1>1, <2>1, <2>2, PushFacts, BoxAssumption DEF EdgesInv
<1>2. CASE UpdateBegin
  BY <1>2 DEF UpdateBegin, EdgesInv
<1>3. CASE UpdateMove
  <2>1. speed \in Nat \ {0}
    BY DEF TypeOK
  <2>2. QED
    BY <1>0, <1>3, <2>1, MoveFacts, BoxAssumption DEF EdgesInv
<1>4. CASE UpdateErase
  <2> SUFFICES ASSUME NEW k \in 1 .. Len(danmakuSet) - 1
               PROVE  /\ danmakuSet'[k].x <= BoxWidth
                      /\ k < it => danmakuSet'[k].x + danmakuSet'[k].w > 0
                      /\ it # 0
    BY <1>4, EraseFacts DEF EdgesInv
  <2> DEFINE old == IF k < it THEN k ELSE k + 1
  <2>1. danmakuSet'[k] = danmakuSet[old] /\ old \in 1 .. Len(danmakuSet)
    BY <1>4, EraseFacts
  <2>2. k < it => old < it
    OBVIOUS
  <2>3. it # 0
    BY <1>4, EraseFacts
  <2> HIDE DEF old
  <2>4. QED
    BY <2>1, <2>2, <2>3 DEF EdgesInv
<1>5. CASE UpdateEnd
  BY <1>5 DEF UpdateEnd, EdgesInv
<1>6. CASE /\ ~UpdateBegin /\ ~UpdateMove /\ ~UpdateErase /\ ~UpdateEnd
           /\ \A a \in Adders : ~Push(a)
  BY <1>6, QuietSteps DEF EdgesInv
<1>7. QED
  BY <1>1, <1>2, <1>3, <1>4, <1>5, <1>6

\* No pass leaves a danmaku in the set that has left the screen.
THEOREM OnScreenCorrect == Spec => []OnScreen
<1>1. Init => CandAtEdge /\ EdgesInv
  BY DEF Init, CandAtEdge, EdgesInv
<1>2. TypeOK /\ EdgesInv => OnScreen
  BY DEF TypeOK, EdgesInv, OnScreen
<1>3. QED
  BY <1>1, <1>2, TypeInit, TypeStep, CandAtEdgeStep, EdgesStep, PTL DEF Spec

-----------------------------------------------------------------------------
(* FrameConsistent is inductive by itself.                                 *)

LEMMA FrameStep == TypeOK /\ FrameConsistent /\ [Next]_vars => FrameConsistent'
<1> SUFFICES ASSUME TypeOK, FrameConsistent, [Next]_vars PROVE FrameConsistent'
  OBVIOUS
<1>1. CASE RenderBegin
  BY <1>1 DEF RenderBegin, FrameConsistent, TypeOK
<1>2. CASE RenderStep
  <2> DEFINE n == Len(frame)
             d == danmakuSet[n + 1]
  <2>1. n \in Nat /\ n + 1 \in 1 .. Len(danmakuSet) /\ Len(frame') = n + 1
    BY <1>2 DEF RenderStep, TypeOK
  <2>2. /\ \A k \in 1 .. n : frame'[k] = frame[k]
        /\ frame'[n + 1] = <<d.x, d.y>>
    BY <1>2 DEF RenderStep, TypeOK
  <2>3. DOMAIN frame' = 1 .. n + 1 /\ DOMAIN frame = 1 .. n
    BY <1>2 DEF RenderStep, TypeOK
  <2>4. it = 0 /\ it' = 0 /\ danmakuSet' = danmakuSet
    BY <1>2 DEF RenderStep, FrameConsistent
  <2>5. \A k \in 1 .. n : frame[k] = <<danmakuSet[k].x, danmakuSet[k].y>>
    BY <1>2, <2>3 DEF RenderStep, FrameConsistent
  <2> HIDE DEF n, d
  <2>6. ASSUME NEW k \in 1 .. n + 1
        PROVE  frame'[k] = <<danmakuSet[k].x, danmakuSet[k].y>>
    <3>1. CASE k = n + 1
      BY <3>1, <2>2 DEF d
    <3>2. CASE k # n + 1
      BY <3>2, <2>1, <2>2, <2>5
    <3>3. QED
      BY <3>1, <3>2
  <2>7. QED
    BY <2>1, <2>3, <2>4, <2>6 DEF FrameConsistent
<1>3. CASE lock' # "render"
  BY <1>3 DEF FrameConsistent
<1>4. CASE UNCHANGED <<danmakuSet, lock, it, frame>>
  BY <1>4 DEF FrameConsistent
<1>5. QED
  BY <1>1, <1>2, <1>3, <1>4 DEF Next, Add, Update, Render, vars, StartAdd, ScanClear,
     ScanBlocked, Push, UpdateBegin, UpdateMove, UpdateErase, UpdateEnd, RenderEnd,
     SetSpeed, TypeOK

\* A frame never mixes positions of two states of the set.
THEOREM FrameCorrect == Spec => []FrameConsistent
<1>1. Init => FrameConsistent
  BY DEF Init, FrameConsistent
<1>2. QED
  BY <1>1, TypeInit, TypeStep, FrameStep, PTL DEF Spec

-----------------------------------------------------------------------------
(* StackBounded.  The bound of a danmaku is that of the candidate it was:  *)
(* the row a candidate moves to is below one it collided with, and it goes *)
(* on only while it fits.                                                  *)

Sized(d) == \E size \in Sizes : d.w = size.w /\ d.h = size.h

Lower(d) == IF d.h > BoxHeight THEN d.h ELSE BoxHeight

Bounded(d) == d.y = 0 \/ \E size \in Sizes : d.y < Lower(d) + size.h

StackInv ==
    /\ \A k \in 1 .. Len(danmakuSet) : Sized(danmakuSet[k]) /\ Bounded(danmakuSet[k])
    /\ \A a \in Adders :
          /\ pc[a] # "idle" => Sized(cand[a]) /\ Bounded(cand[a])
          /\ pc[a] = "scan" => cand[a].y = 0 \/ Fits(cand[a])

\* The row below a danmaku the candidate collides with is within the bound.
LEMMA BlockedBounded ==
    ASSUME TypeOK, NEW a \in Adders, NEW k \in 1 .. Len(danmakuSet),
           Sized(danmakuSet[k]), Collide(danmakuSet[k], cand[a]),
           cand[a].y = 0 \/ Fits(cand[a]),
           NEW d \in Danmakus, d.h = cand[a].h, d.y = danmakuSet[k].y + danmakuSet[k].h
    PROVE  Bounded(d)
<1>1. danmakuSet[k] \in Danmakus /\ cand[a] \in Danmakus
  BY ElementType DEF TypeOK
<1>2. danmakuSet[k].y < cand[a].y + cand[a].h
  BY DEF Collide
<1>3. danmakuSet[k].y < Lower(d)
  <2>1. /\ danmakuSet[k].y \in Nat /\ cand[a].y \in Nat
        /\ cand[a].h \in Nat /\ BoxHeight \in Nat
    BY <1>1, BoxAssumption DEF Danmakus
  <2>2. CASE cand[a].y = 0
    <3>1. danmakuSet[k].y < d.h
      BY <2>1, <2>2, <1>2
    <3>2. QED
      BY <2>1, <3>1 DEF Lower
  <2>3. CASE Fits(cand[a])
    <3>1. danmakuSet[k].y < BoxHeight
      BY <2>1, <2>3, <1>2 DEF Fits
    <3>2. QED
      BY <2>1, <3>1 DEF Lower
  <2>4. QED
    BY <2>2, <2>3
<1>4. PICK size \in Sizes : danmakuSet[k].h = size.h
  BY DEF Sized
<1>5. /\ danmakuSet[k].y \in Nat /\ danmakuSet[k].h \in Nat /\ size.h = danmakuSet[k].h
      /\ Lower(d) \in Int
  BY <1>1, <1>4, BoxAssumption DEF Danmakus, Lower
<1>6. d.y < Lower(d) + size.h
  BY <1>3, <1>5
<1>7. QED
  BY <1>6 DEF Bounded

\* The bound is about heights and rows: a move to the left keeps it.
LEMMA SameRow ==
    ASSUME NEW c, NEW d, c.y = d.y, c.w = d.w, c.h = d.h
    PROVE  Sized(c) /\ Bounded(c) <=> Sized(d) /\ Bounded(d)
  BY DEF Sized, Bounded, Lower

LEMMA StackStep == TypeOK /\ StackInv /\ [Next]_vars => StackInv'
<1> SUFFICES ASSUME TypeOK, StackInv, [Next]_vars PROVE StackInv'
  OBVIOUS
<1> DEFINE CandOK(a) ==
              /\ pc[a] # "idle" => Sized(cand[a]) /\ Bounded(cand[a])
              /\ pc[a] = "scan" => cand[a].y = 0 \/ Fits(cand[a])
           SetOK ==
              \A k \in 1 .. Len(danmakuSet) : Sized(danmakuSet[k]) /\ Bounded(danmakuSet[k])
<1>0. SetOK /\ \A a \in Adders : CandOK(a)
  BY DEF StackInv
<1>1. ASSUME NEW a \in Adders, StartAdd(a) PROVE StackInv'
  <2>1. PICK size \in Sizes :
           cand' = [cand EXCEPT ![a] = [x |-> BoxWidth, y |-> 0, w |-> size.w, h |-> size.h]]
    BY <1>1 DEF StartAdd
  <2>2. /\ cand'[a].y = 0 /\ cand'[a].w = size.w /\ cand'[a].h = size.h
        /\ \A b \in Adders \ {a} : cand'[b] = cand[b] /\ pc'[b] = pc[b]
    BY <1>1, <2>1 DEF StartAdd, TypeOK
  <2>3. Sized(cand'[a]) /\ Bounded(cand'[a])
    BY <2>2 DEF Sized, Bounded
  <2>4. danmakuSet' = danmakuSet
    BY <1>1 DEF StartAdd
  <2>5. QED
    BY <2>2, <2>3, <2>4 DEF StackInv
<1>2. ASSUME NEW a \in Adders, ScanBlocked(a) PROVE StackInv'
  <2>1. PICK k \in DOMAIN danmakuSet :
           /\ Collide(danmakuSet[k], cand[a])
           /\ cand' = [cand EXCEPT ![a].y = danmakuSet[k].y + danmakuSet[k].h]
    BY <1>2 DEF ScanBlocked
  <2>2. k \in 1 .. Len(danmakuSet) /\ cand[a] \in Danmakus /\ pc[a] = "scan"
    BY <1>2 DEF ScanBlocked, TypeOK
  <2>3. /\ cand'[a] \in Danmakus
        /\ cand'[a].y = danmakuSet[k].y + danmakuSet[k].h
        /\ cand'[a].w = cand[a].w /\ cand'[a].h = cand[a].h
        /\ \A b \in Adders \ {a} : cand'[b] = cand[b] /\ pc'[b] = pc[b]
    BY <1>2, <2>1, <2>2, TypeStep DEF ScanBlocked, TypeOK, Danmakus
  <2>4. Sized(cand'[a])
    BY <1>0, <2>2, <2>3 DEF Sized
  <2>5. Bounded(cand'[a])
    BY <1>0, <2>1, <2>2, <2>3, BlockedBounded
  <2>6. pc'[a] = "scan" => Fits(cand'[a])
    BY <1>2 DEF ScanBlocked, TypeOK
  <2>7. danmakuSet' = danmakuSet
    BY <1>2 DEF ScanBlocked
  <2>8. QED
    BY <2>3, <2>4, <2>5, <2>6, <2>7 DEF StackInv
<1>3. ASSUME NEW a \in Adders, ScanClear(a) PROVE StackInv'
  BY <1>3 DEF ScanClear, StackInv, TypeOK
<1>4. ASSUME NEW a \in Adders, Push(a) PROVE StackInv'
  <2>1. pc[a] = "push" /\ Sized(cand[a]) /\ Bounded(cand[a])
    BY <1>0, <1>4 DEF Push
  <2>2. Len(danmakuSet) \in Nat
    BY DEF TypeOK
  <2>3. SetOK'
    BY <1>0, <1>4, <2>1, <2>2, PushFacts
  <2>4. \A b \in Adders : CandOK(b)'
    BY <1>0, <1>4 DEF Push, TypeOK
  <2>5. QED
    BY <2>3, <2>4 DEF StackInv
<1>5. CASE UpdateMove
  <2>1. SetOK'
    BY <1>0, <1>5, MoveFacts, SameRow
  <2>2. UNCHANGED <<pc, cand>>
    BY <1>5 DEF UpdateMove
  <2>3. QED
    BY <1>0, <2>1, <2>2 DEF StackInv
<1>6. CASE UpdateErase
  <2>1. SetOK'
    BY <1>0, <1>6, EraseFacts
  <2>2. UNCHANGED <<pc, cand>>
    BY <1>6 DEF UpdateErase
  <2>3. QED
    BY <1>0, <2>1, <2>2 DEF StackInv
<1>7. CASE UNCHANGED <<danmakuSet, pc, cand>>
  BY <1>7 DEF StackInv
<1>8. QED
  BY <1>1, <1>2, <1>3, <1>4, <1>5, <1>6, <1>7 DEF Next, Add, Update, Render, vars,
     UpdateBegin, UpdateEnd, RenderBegin, RenderStep, RenderEnd, SetSpeed

\* The stack of danmaku below the screen has a bottom.
THEOREM StackCorrect == Spec => []StackBounded
<1>1. Init => StackInv
  BY DEF Init, StackInv
<1>2. TypeOK /\ StackInv => StackBounded
  BY DEF TypeOK, StackInv, StackBounded, Bounded, Lower
<1>3. QED
  BY <1>1, <1>2, TypeInit, TypeStep, StackStep, PTL DEF Spec

-----------------------------------------------------------------------------
(* NoCover.  In the middle of a pass the danmaku before the iterator have  *)
(* moved and the others have not, so that two of a row may overlap for a   *)
(* moment that nobody can see.  SettledX is where a danmaku will be when   *)
(* the pass is over; there, no two of them overlap at any time.  With one  *)
(* adding thread nothing is pushed between its last scan and its push, so  *)
(* the candidate is clear of the whole set when it is pushed.              *)

SettledX(k) == danmakuSet[k].x - (IF it # 0 /\ k >= it THEN speed ELSE 0)

\* Collide for danmaku whose columns are given apart from them.
Overlap(xi, i, xj, j) ==
    /\ xi + i.w > xj /\ xi < xj + j.w
    /\ i.y + i.h > j.y /\ i.y < j.y + j.h

PairsApart ==
    \A i \in 1 .. Len(danmakuSet), j \in 1 .. Len(danmakuSet) :
        i < j /\ Fits(danmakuSet[j]) /\ Visible(danmakuSet[i]) /\ Visible(danmakuSet[j])
        => ~Overlap(SettledX(i), danmakuSet[i], SettledX(j), danmakuSet[j])

CandApart ==
    \A a \in Adders :
        pc[a] = "push" /\ Fits(cand[a]) /\ Visible(cand[a]) =>
            \A k \in 1 .. Len(danmakuSet) :
                Visible(danmakuSet[k])
                => ~Overlap(SettledX(k), danmakuSet[k], BoxWidth, cand[a])

CoverInv ==
    /\ TypeOK
    /\ CandAtEdge
    /\ EdgesInv
    /\ PairsApart
    /\ CandApart

\* Overlap depends on the distance of the columns only, and on rows and sizes.
LEMMA OverlapShift ==
    ASSUME NEW i, NEW j, NEW ip, NEW jp, NEW xi \in Int, NEW xj \in Int, NEW s \in Int,
           i.w \in Int, j.w \in Int,
           ip.y = i.y, ip.w = i.w, ip.h = i.h, jp.y = j.y, jp.w = j.w, jp.h = j.h
    PROVE  Overlap(xi - s, ip, xj - s, jp) <=> Overlap(xi, i, xj, j)
<1>1. xi - s + i.w > xj - s <=> xi + i.w > xj
  OBVIOUS
<1>2. xi - s < xj - s + j.w <=> xi < xj + j.w
  OBVIOUS
<1>3. QED
  BY <1>1, <1>2 DEF Overlap

\* A danmaku left of the right edge that is clear of a visible candidate stays
\* clear of it when it moves to the left.
LEMMA OverlapLeft ==
    ASSUME NEW i, NEW c, NEW x \in Int, NEW s \in Nat, i.w \in Nat, c.w \in Nat,
           c.w > 0, x <= BoxWidth, ~Overlap(x, i, BoxWidth, c)
    PROVE  ~Overlap(x - s, i, BoxWidth, c)
<1>1. x - s + i.w > BoxWidth => x + i.w > BoxWidth
  BY BoxAssumption
<1>2. x < BoxWidth + c.w
  BY BoxAssumption
<1>3. QED
  BY <1>1, <1>2 DEF Overlap

LEMMA SettledType ==
    ASSUME TypeOK
    PROVE  \A k \in 1 .. Len(danmakuSet) :
              /\ danmakuSet[k].x \in Int /\ SettledX(k) \in Int
              /\ danmakuSet[k].w \in Nat
<1>1. speed \in Int
  BY DEF TypeOK
<1>2. \A k \in 1 .. Len(danmakuSet) : danmakuSet[k].x \in Int /\ danmakuSet[k].w \in Nat
  BY ElementType DEF Danmakus
<1>3. QED
  BY <1>1, <1>2 DEF SettledX

\* A step that leaves the danmaku where they will settle, and the rows and the
\* sizes of those it keeps, keeps them apart.  f says where each was before.
LEMMA ApartKept ==
    ASSUME CoverInv, UNCHANGED <<pc, cand>>,
           NEW f, Len(danmakuSet') \in Nat,
           \A k \in 1 .. Len(danmakuSet') : f[k] \in 1 .. Len(danmakuSet),
           \A i, j \in 1 .. Len(danmakuSet') : i < j => f[i] < f[j],
           \A k \in 1 .. Len(danmakuSet') :
              /\ SettledX(k)' = SettledX(f[k])
              /\ danmakuSet'[k].y = danmakuSet[f[k]].y
              /\ danmakuSet'[k].w = danmakuSet[f[k]].w
              /\ danmakuSet'[k].h = danmakuSet[f[k]].h
    PROVE  PairsApart' /\ CandApart'
<1>1. PairsApart'
  <2> SUFFICES ASSUME NEW i \in 1 .. Len(danmakuSet'), NEW j \in 1 .. Len(danmakuSet'),
                      i < j, Fits(danmakuSet'[j]),
                      Visible(danmakuSet'[i]), Visible(danmakuSet'[j])
               PROVE  ~Overlap(SettledX(i)', danmakuSet'[i], SettledX(j)', danmakuSet'[j])
    BY DEF PairsApart
  <2>1. /\ f[i] \in 1 .. Len(danmakuSet) /\ f[j] \in 1 .. Len(danmakuSet) /\ f[i] < f[j]
        /\ Fits(danmakuSet[f[j]])
        /\ Visible(danmakuSet[f[i]]) /\ Visible(danmakuSet[f[j]])
    BY DEF Fits, Visible
  <2>2. ~Overlap(SettledX(f[i]), danmakuSet[f[i]], SettledX(f[j]), danmakuSet[f[j]])
    BY <2>1 DEF CoverInv, PairsApart
  <2>3. QED
    BY <2>2 DEF Overlap
<1>2. CandApart'
  <2> SUFFICES ASSUME NEW a \in Adders, pc[a] = "push", Fits(cand[a]), Visible(cand[a]),
                      NEW k \in 1 .. Len(danmakuSet'), Visible(danmakuSet'[k])
               PROVE  ~Overlap(SettledX(k)', danmakuSet'[k], BoxWidth, cand[a])
    BY DEF CandApart
  <2>1. f[k] \in 1 .. Len(danmakuSet) /\ Visible(danmakuSet[f[k]])
    BY DEF Visible
  <2>2. ~Overlap(SettledX(f[k]), danmakuSet[f[k]], BoxWidth, cand[a])
    BY <2>1 DEF CoverInv, CandApart
  <2>3. QED
    BY <2>2 DEF Overlap
<1>3. QED
  BY <1>1, <1>2

LEMMA CoverBegin == CoverInv /\ UpdateBegin => PairsApart' /\ CandApart'
<1> SUFFICES ASSUME CoverInv, UpdateBegin PROVE PairsApart' /\ CandApart'
  OBVIOUS
<1> USE DEF CoverInv
<1>1. UNCHANGED <<danmakuSet, speed, pc, cand>> /\ it = 0 /\ it' = 1
  BY DEF UpdateBegin, TypeOK
<1>2. speed \in Nat
  BY DEF TypeOK
<1>3. \A k \in 1 .. Len(danmakuSet) : SettledX(k)' = SettledX(k) - speed
  BY <1>1, <1>2, SettledType DEF SettledX
<1>4. PairsApart'
  <2> SUFFICES ASSUME NEW i \in 1 .. Len(danmakuSet), NEW j \in 1 .. Len(danmakuSet),
                      i < j, Fits(danmakuSet[j]),
                      Visible(danmakuSet[i]), Visible(danmakuSet[j])
               PROVE  ~Overlap(SettledX(i)', danmakuSet[i], SettledX(j)', danmakuSet[j])
    BY <1>1 DEF PairsApart
  <2>1. ~Overlap(SettledX(i), danmakuSet[i], SettledX(j), danmakuSet[j])
    BY DEF PairsApart
  <2>2. /\ SettledX(i) \in Int /\ SettledX(j) \in Int /\ speed \in Int
        /\ danmakuSet[i].w \in Int /\ danmakuSet[j].w \in Int
    BY <1>2, SettledType
  <2>3. ~Overlap(SettledX(i) - speed, danmakuSet[i], SettledX(j) - speed, danmakuSet[j])
    BY <2>1, <2>2, OverlapShift
  <2>4. QED
    BY <1>3, <2>3
<1>5. CandApart'
  <2> SUFFICES ASSUME NEW a \in Adders, pc[a] = "push", Fits(cand[a]), Visible(cand[a]),
                      NEW k \in 1 .. Len(danmakuSet), Visible(danmakuSet[k])
               PROVE  ~Overlap(SettledX(k)', danmakuSet[k], BoxWidth, cand[a])
    BY <1>1 DEF CandApart
  <2>1. ~Overlap(SettledX(k), danmakuSet[k], BoxWidth, cand[a])
    BY DEF CandApart
  <2>2. SettledX(k) <= BoxWidth
    BY <1>1, SettledType DEF SettledX, EdgesInv
  <2>3. cand[a].w \in Nat /\ cand[a].w > 0
    BY DEF TypeOK, Danmakus, Visible
  <2>4. ~Overlap(SettledX(k) - speed, danmakuSet[k], BoxWidth, cand[a])
    BY <1>2, <2>1, <2>2, <2>3, SettledType, OverlapLeft
  <2>5. QED
    BY <1>3, <2>4
<1>6. QED
  BY <1>4, <1>5

\* The danmaku at the iterator moves to where it settles.
LEMMA CoverMove == CoverInv /\ UpdateMove => PairsApart' /\ CandApart'
<1> SUFFICES ASSUME CoverInv, UpdateMove PROVE PairsApart' /\ CandApart'
  OBVIOUS
<1>1. TypeOK
  BY DEF CoverInv
<1>2. UNCHANGED <<pc, cand, speed>>
  BY DEF UpdateMove
<1> DEFINE f == [k \in 1 .. Len(danmakuSet) |-> k]
<1>3. Len(danmakuSet') = Len(danmakuSet) /\ Len(danmakuSet) \in Nat
  BY <1>1, MoveFacts DEF TypeOK
<1>4. speed \in Int
  BY <1>1 DEF TypeOK
<1>5. \A k \in 1 .. Len(danmakuSet) : SettledX(k)' = SettledX(k)
  <2> SUFFICES ASSUME NEW k \in 1 .. Len(danmakuSet) PROVE SettledX(k)' = SettledX(k)
    OBVIOUS
  <2>1. /\ it \in 1 .. Len(danmakuSet) /\ it' = it + 1
        /\ danmakuSet'[k].x = danmakuSet[k].x - (IF k = it THEN speed ELSE 0)
        /\ danmakuSet[k].x \in Int
    BY <1>1, MoveFacts, SettledType
  <2>2. QED
    BY <1>2, <1>4, <2>1 DEF SettledX
<1>6. \A k \in 1 .. Len(danmakuSet) : /\ danmakuSet'[k].y = danmakuSet[k].y
                                      /\ danmakuSet'[k].w = danmakuSet[k].w
                                      /\ danmakuSet'[k].h = danmakuSet[k].h
  BY <1>1, MoveFacts
<1>7. \A k \in 1 .. Len(danmakuSet) : f[k] = k
  OBVIOUS
<1> HIDE DEF f
<1>8. \A k \in 1 .. Len(danmakuSet') :
         /\ f[k] \in 1 .. Len(danmakuSet)
         /\ SettledX(k)' = SettledX(f[k])
         /\ danmakuSet'[k].y = danmakuSet[f[k]].y
         /\ danmakuSet'[k].w = danmakuSet[f[k]].w
         /\ danmakuSet'[k].h = danmakuSet[f[k]].h
  BY <1>3, <1>5, <1>6, <1>7
<1>9. \A i, j \in 1 .. Len(danmakuSet') : i < j => f[i] < f[j]
  BY <1>3, <1>7
<1>10. Len(danmakuSet') \in Nat
  BY <1>3
<1>11. QED
  BY <1>2, <1>8, <1>9, <1>10, ApartKept

\* The danmaku behind the erased one close up.
LEMMA CoverErase == CoverInv /\ UpdateErase => PairsApart' /\ CandApart'
<1> SUFFICES ASSUME CoverInv, UpdateErase PROVE PairsApart' /\ CandApart'
  OBVIOUS
<1>1. TypeOK
  BY DEF CoverInv
<1>2. UNCHANGED <<pc, cand, speed>>
  BY DEF UpdateErase
<1> DEFINE n == Len(danmakuSet) - 1
           f == [k \in 1 .. n |-> IF k < it THEN k ELSE k + 1]
<1>3. /\ it \in 1 .. Len(danmakuSet) /\ it' = it
      /\ Len(danmakuSet) \in Nat /\ n \in Nat /\ Len(danmakuSet') = n
  BY <1>1, EraseFacts DEF TypeOK
<1>4. \A k \in 1 .. n : f[k] = IF k < it THEN k ELSE k + 1
  OBVIOUS
<1>5. \A k \in 1 .. n : danmakuSet'[k] = danmakuSet[f[k]]
  BY <1>1, <1>4, EraseFacts
<1> HIDE DEF f
<1>6. \A k \in 1 .. n : f[k] \in 1 .. Len(danmakuSet)
  BY <1>3, <1>4
<1>7. \A i, j \in 1 .. n : i < j => f[i] < f[j]
  BY <1>3, <1>4
<1>8. \A k \in 1 .. n : SettledX(k)' = SettledX(f[k])
  <2> SUFFICES ASSUME NEW k \in 1 .. n PROVE SettledX(k)' = SettledX(f[k])
    OBVIOUS
  <2>1. k >= it <=> f[k] >= it
    BY <1>3, <1>4
  <2>2. danmakuSet'[k].x = danmakuSet[f[k]].x
    BY <1>5
  <2>3. QED
    BY <1>2, <1>3, <2>1, <2>2 DEF SettledX
<1> HIDE DEF n
<1>9. QED
  BY <1>2, <1>3, <1>5, <1>6, <1>7, <1>8, ApartKept

\* Steps that leave the set alone and every danmaku settled where it is: the
\* end of a pass, drawing, and the slider between two passes.
LEMMA CoverStill ==
    ASSUME CoverInv, UNCHANGED <<danmakuSet, pc, cand>>,
           \A k \in 1 .. Len(danmakuSet) : SettledX(k)' = SettledX(k)
    PROVE  PairsApart' /\ CandApart'
<1> DEFINE f == [k \in 1 .. Len(danmakuSet) |-> k]
<1>1. \A k \in 1 .. Len(danmakuSet) : f[k] = k
  OBVIOUS
<1>2. Len(danmakuSet) \in Nat
  BY DEF CoverInv, TypeOK
<1> HIDE DEF f
<1>3. QED
  BY <1>1, <1>2, ApartKept

\* The only adding thread pushes its candidate: the set has not grown since
\* the scan that found it clear.
LEMMA CoverPush ==
    ASSUME \A a, b \in Adders : a = b, CoverInv, NEW a \in Adders, Push(a)
    PROVE  PairsApart' /\ CandApart'
<1> USE DEF CoverInv
<1> DEFINE n == Len(danmakuSet)
<1>1. /\ n \in Nat /\ Len(danmakuSet') = n + 1 /\ it = 0 /\ it' = 0
      /\ \A k \in 1 .. n : danmakuSet'[k] = danmakuSet[k]
      /\ danmakuSet'[n + 1] = cand[a]
  BY PushFacts DEF TypeOK
<1>2. \A k \in 1 .. n : SettledX(k)' = SettledX(k)
  BY <1>1 DEF SettledX
<1>3. pc[a] = "push" /\ cand[a].x = BoxWidth
  BY DEF Push, CandAtEdge
<1>4. ASSUME NEW m \in Nat, m = n + 1 PROVE SettledX(m)' = BoxWidth
  <2>1. SettledX(m)' = danmakuSet'[m].x - 0
    BY <1>1 DEF SettledX
  <2>2. QED
    BY <2>1, <1>1, <1>3, <1>4, BoxAssumption
<1> HIDE DEF n
<1>5. PairsApart'
  <2> SUFFICES ASSUME NEW i \in 1 .. n + 1, NEW j \in 1 .. n + 1, i < j,
                      Fits(danmakuSet'[j]),
                      Visible(danmakuSet'[i]), Visible(danmakuSet'[j])
               PROVE  ~Overlap(SettledX(i)', danmakuSet'[i], SettledX(j)', danmakuSet'[j])
    BY <1>1 DEF PairsApart
  <2>1. i \in 1 .. n
    BY <1>1
  <2>2. CASE j = n + 1
    <3>1. danmakuSet'[i] = danmakuSet[i] /\ danmakuSet'[j] = cand[a]
      BY <1>1, <2>1, <2>2
    <3>2. Fits(cand[a]) /\ Visible(cand[a]) /\ Visible(danmakuSet[i])
      BY <3>1
    <3>3. ~Overlap(SettledX(i), danmakuSet[i], BoxWidth, cand[a])
      BY <1>3, <2>1, <3>2 DEF CandApart, n
    <3>4. SettledX(i)' = SettledX(i) /\ SettledX(j)' = BoxWidth
      BY <1>1, <1>2, <1>4, <2>1, <2>2
    <3>5. QED
      BY <3>1, <3>3, <3>4
  <2>3. CASE j # n + 1
    <3>1. j \in 1 .. n
      BY <1>1, <2>3
    <3>2. QED
      BY <1>1, <1>2, <2>1, <3>1 DEF PairsApart, n
  <2>4. QED
    BY <2>2, <2>3
<1>6. CandApart'
  BY DEF CandApart, Push, TypeOK
<1>7. QED
  BY <1>5, <1>6

\* A scan that finds nothing in the way establishes CandApart.
LEMMA CoverScan ==
    ASSUME CoverInv, NEW a \in Adders, StartAdd(a) \/ ScanClear(a) \/ ScanBlocked(a)
    PROVE  PairsApart' /\ CandApart'
<1> USE DEF CoverInv
<1>1. UNCHANGED <<danmakuSet, it, speed>>
  BY DEF StartAdd, ScanClear, ScanBlocked
<1>2. PairsApart'
  BY <1>1 DEF PairsApart, SettledX
<1>3. CandApart'
  <2> SUFFICES ASSUME NEW b \in Adders, pc'[b] = "push", Fits(cand'[b]), Visible(cand'[b]),
                      NEW k \in 1 .. Len(danmakuSet), Visible(danmakuSet[k])
               PROVE  ~Overlap(SettledX(k), danmakuSet[k], BoxWidth, cand'[b])
    BY <1>1 DEF CandApart, SettledX
  <2>1. CASE b # a
    <3>1. pc'[b] = pc[b] /\ cand'[b] = cand[b]
      BY <2>1 DEF StartAdd, ScanClear, ScanBlocked, TypeOK
    <3>2. QED
      BY <3>1 DEF CandApart
  <2>2. CASE b = a /\ ScanClear(a)
    <3>1. cand' = cand /\ it = 0 /\ ~Collide(danmakuSet[k], cand[a])
      BY <2>2 DEF ScanClear, TypeOK
    <3>2. cand[a].x = BoxWidth /\ SettledX(k) = danmakuSet[k].x
      BY <2>2, <3>1, SettledType DEF ScanClear, CandAtEdge, SettledX
    <3>3. QED
      BY <2>2, <3>1, <3>2 DEF Overlap, Collide
  <2>3. CASE b = a /\ StartAdd(a)
    BY <2>3 DEF StartAdd, TypeOK
  <2>4. CASE b = a /\ ScanBlocked(a)
    BY <2>4 DEF ScanBlocked, TypeOK
  <2>5. QED
    BY <2>1, <2>2, <2>3, <2>4
<1>4. QED
  BY <1>2, <1>3

LEMMA CoverStep ==
    ASSUME \A a, b \in Adders : a = b
    PROVE  CoverInv /\ [SteadyNext]_vars => CoverInv'
<1> SUFFICES ASSUME CoverInv, [SteadyNext]_vars PROVE CoverInv'
  OBVIOUS
<1>1. TypeOK' /\ CandAtEdge' /\ EdgesInv'
  BY TypeStep, CandAtEdgeStep, EdgesStep DEF CoverInv, SteadyNext
<1>2. ASSUME NEW a \in Adders, Add(a) PROVE PairsApart' /\ CandApart'
  BY <1>2, CoverPush, CoverScan DEF Add
<1>3. CASE UpdateBegin \/ UpdateMove \/ UpdateErase
  BY <1>1, <1>3, CoverBegin, CoverMove, CoverErase DEF CoverInv
<1>4. CASE UpdateEnd
  <2>1. UNCHANGED <<danmakuSet, pc, cand>>
    BY <1>4 DEF UpdateEnd
  <2>2. ASSUME NEW k \in 1 .. Len(danmakuSet) PROVE SettledX(k)' = SettledX(k)
    <3>1. it = Len(danmakuSet) + 1 /\ it' = 0 /\ Len(danmakuSet) \in Nat
      BY <1>4 DEF UpdateEnd, CoverInv, TypeOK
    <3>2. ~(k >= it)
      BY <3>1
    <3>3. QED
      BY <2>1, <3>1, <3>2 DEF SettledX
  <2>3. QED
    BY <1>1, <2>1, <2>2, CoverStill DEF CoverInv
<1>5. CASE ((Render \/ SetSpeed) /\ SteadyNext) \/ UNCHANGED vars
  <2>1. UNCHANGED <<danmakuSet, pc, cand, it>> /\ (it # 0 => UNCHANGED speed)
    BY <1>5 DEF Render, RenderBegin, RenderStep, RenderEnd, SetSpeed, SteadyNext, vars
  <2>2. \A k \in 1 .. Len(danmakuSet) : SettledX(k)' = SettledX(k)
    BY <2>1 DEF SettledX
  <2>3. QED
    BY <1>1, <2>1, <2>2, CoverStill DEF CoverInv
<1>6. QED
  BY <1>1, <1>2, <1>3, <1>4, <1>5 DEF CoverInv, SteadyNext, Next, Update

\* With one adding thread and a slider at rest during passes, no danmaku that
\* found room covers an older one, whatever their sizes and however many.
THEOREM NoCoverCorrect ==
    ASSUME \A a, b \in Adders : a = b
    PROVE  SteadySpec => []NoCover
<1>1. Init => CoverInv
  BY TypeInit DEF Init, CoverInv, CandAtEdge, EdgesInv, PairsApart, CandApart
<1>2. CoverInv => NoCover
  <2> SUFFICES ASSUME CoverInv, it = 0,
                      NEW j \in 1 .. Len(danmakuSet), NEW i \in 1 .. Len(danmakuSet), i < j,
                      Fits(danmakuSet[j]), Visible(danmakuSet[i]), Visible(danmakuSet[j])
               PROVE  ~Collide(danmakuSet[i], danmakuSet[j])
    <3>1. DOMAIN danmakuSet = 1 .. Len(danmakuSet)
      BY DEF CoverInv, TypeOK
    <3>2. QED
      BY <3>1 DEF NoCover
  <2>1. SettledX(i) = danmakuSet[i].x /\ SettledX(j) = danmakuSet[j].x
    BY SettledType DEF SettledX, CoverInv
  <2>2. ~Overlap(SettledX(i), danmakuSet[i], SettledX(j), danmakuSet[j])
    BY DEF CoverInv, PairsApart
  <2>3. QED
    BY <2>1, <2>2 DEF Overlap, Collide
<1>3. QED
  BY <1>1, <1>2, CoverStep, PTL DEF SteadySpec
=============================================================================
