-------------------------- MODULE SyncRequestProofs --------------------------
(***************************************************************************)
(* Proofs about SyncRequest for any finite set of threads, any number of   *)
(* calls and any number of exceptions.  The counter equals the threads     *)
(* between its increment and its decrement and one for each exception,     *)
(* which skips the decrement (Counted); so it is 0 only if nobody is       *)
(* inside of run(), and only then is the io_service reset.                 *)
(***************************************************************************)
EXTENDS SyncRequest, FiniteSetTheorems, TLAPS

\* The threads that have been counted in and not yet out.
Inside == {t \in Threads : pc[t] \in {"run", "running", "ran"}}

Counted == concurrent = Cardinality(Inside) + Cardinality(thrown)

\* A thread that waits for its request has posted it, and nothing is known of
\* requests that are still to be made.
Posted ==
    /\ \A t \in Threads :
          pc[t] \in {"posted", "run", "running"} => <<t, calls[t]>> \in work \cup answered \cup thrown
    /\ \A t \in Threads, n \in 1 .. MaxCalls :
          <<t, n>> \in work \cup answered \cup thrown => n <= calls[t]

IInv ==
    /\ TypeOK
    /\ Counted
    /\ Posted
    /\ RunGivesAnswer

\* The threads inside can be counted.
LEMMA InsideFinite ==
    /\ IsFiniteSet(Inside)
    /\ Cardinality(Inside) \in Nat
    /\ Cardinality(Inside) <= Cardinality(Threads)
    /\ Cardinality(Threads) \in Nat
  BY ThreadsAssumption, FS_Subset, FS_CardinalityType DEF Inside

\* So can the requests whose handler has thrown.
LEMMA ThrownFinite == TypeOK => IsFiniteSet(thrown) /\ Cardinality(thrown) \in Nat
<1>1. IsFiniteSet(1 .. MaxCalls)
  BY CallsAssumption, FS_Interval
<1>2. IsFiniteSet(Requests)
  BY <1>1, ThreadsAssumption, FS_Product DEF Requests
<1>3. QED
  BY <1>2, FS_Subset, FS_CardinalityType DEF TypeOK

\* A thread that is counted in makes one more.
LEMMA InsideGain ==
    ASSUME NEW t \in Threads, TypeOK, t \notin Inside, pc' = [pc EXCEPT ![t] = "run"]
    PROVE  Cardinality(Inside') = Cardinality(Inside) + 1
<1>1. Inside' = Inside \cup {t}
  BY DEF TypeOK, Inside
<1>2. QED
  BY <1>1, InsideFinite, FS_AddElement

\* A thread that is counted out makes one less.
LEMMA InsideLose ==
    ASSUME NEW t \in Threads, NEW v \in {"idle", "checked"}, TypeOK, t \in Inside,
           pc' = [pc EXCEPT ![t] = v]
    PROVE  Cardinality(Inside') = Cardinality(Inside) - 1
<1>1. Inside' = Inside \ {t}
  BY DEF TypeOK, Inside
<1>2. QED
  BY <1>1, InsideFinite, FS_RemoveElement

\* A thread that moves among the stages of run() changes nothing.
LEMMA InsideSame ==
    ASSUME NEW t \in Threads, NEW v, TypeOK, pc' = [pc EXCEPT ![t] = v],
           pc[t] \in {"run", "running", "ran"} <=> v \in {"run", "running", "ran"}
    PROVE  Inside' = Inside
  BY DEF TypeOK, Inside

\* The strengthening holds before any request.
LEMMA IInvInit == Init => IInv
<1> SUFFICES ASSUME Init PROVE IInv
  OBVIOUS
<1>1. Inside = {}
  BY DEF Init, Inside
<1>2. Counted
  BY <1>1, FS_EmptySet DEF Init, Counted
<1>3. TypeOK
  <2>1. Cardinality(thrown) = 0
    BY FS_EmptySet DEF Init
  <2>2. concurrent \in 0 .. (Cardinality(Threads) + Cardinality(thrown))
    BY <2>1, InsideFinite DEF Init
  <2>3. calls \in [Threads -> 0 .. MaxCalls]
    BY CallsAssumption DEF Init
  <2>4. work \cap answered = {} /\ thrown \cap (work \cup answered) = {}
    BY DEF Init
  <2>5. QED
    BY <2>2, <2>3, <2>4 DEF Init, TypeOK
<1>4. QED
  BY <1>2, <1>3 DEF Init, IInv, Posted, RunGivesAnswer

-----------------------------------------------------------------------------

\* What was posted stays posted, and who is in run() when the io_service stops
\* finds that nothing is left to do, its own request included.
LEMMA PostedStep ==
    TypeOK /\ Posted /\ RunGivesAnswer /\ [Next]_vars => Posted' /\ RunGivesAnswer'
<1> SUFFICES ASSUME TypeOK, Posted, RunGivesAnswer, [Next]_vars
             PROVE  Posted' /\ RunGivesAnswer'
  OBVIOUS
<1> USE CallsAssumption DEF TypeOK, Requests, Posted, RunGivesAnswer
<1>1. ASSUME NEW t \in Threads, Post(t) PROVE Posted' /\ RunGivesAnswer'
  BY <1>1 DEF Post
<1>2. ASSUME NEW t \in Threads, Register(t) PROVE Posted' /\ RunGivesAnswer'
  BY <1>2 DEF Register
<1>3. ASSUME NEW t \in Threads, Run(t) PROVE Posted' /\ RunGivesAnswer'
  BY <1>3 DEF Run
<1>4. ASSUME NEW t \in Threads, RunRefused(t) PROVE Posted' /\ RunGivesAnswer'
  BY <1>4 DEF RunRefused
<1>5. ASSUME NEW t \in Threads, Complete(t) PROVE Posted' /\ RunGivesAnswer'
  BY <1>5 DEF Complete
<1>6. ASSUME NEW t \in Threads, Throws(t) PROVE Posted' /\ RunGivesAnswer'
  BY <1>6 DEF Throws
<1>7. ASSUME NEW t \in Threads, RunReturns(t) PROVE Posted' /\ RunGivesAnswer'
  BY <1>7 DEF RunReturns
<1>8. ASSUME NEW t \in Threads, Unregister(t) PROVE Posted' /\ RunGivesAnswer'
  BY <1>8 DEF Unregister
<1>9. ASSUME NEW t \in Threads, Return(t) PROVE Posted' /\ RunGivesAnswer'
  BY <1>9 DEF Return
<1>10. CASE UNCHANGED vars
  BY <1>10 DEF vars
<1>11. QED
  BY <1>1, <1>2, <1>3, <1>4, <1>5, <1>6, <1>7, <1>8, <1>9, <1>10 DEF Next

\* The counter counts.
LEMMA CountedStep == TypeOK /\ Counted /\ [Next]_vars => Counted'
<1> SUFFICES ASSUME TypeOK, Counted, [Next]_vars PROVE Counted'
  OBVIOUS
<1> USE InsideFinite, ThrownFinite DEF Counted
<1>1. ASSUME NEW t \in Threads, Register(t) PROVE Counted'
  <2>1. t \notin Inside
    BY <1>1 DEF Register, Inside
  <2>2. Cardinality(Inside') = Cardinality(Inside) + 1
    BY <1>1, <2>1, InsideGain DEF Register
  <2>3. QED
    BY <1>1, <2>2 DEF Register
<1>2. ASSUME NEW t \in Threads, Unregister(t) PROVE Counted'
  <2>1. t \in Inside
    BY <1>2 DEF Unregister, Inside
  <2>2. Cardinality(Inside') = Cardinality(Inside) - 1
    BY <1>2, <2>1, InsideLose DEF Unregister
  <2>3. QED
    BY <1>2, <2>2 DEF Unregister
<1>3. ASSUME NEW t \in Threads, Throws(t) PROVE Counted'
  <2>1. t \in Inside
    BY <1>3 DEF Throws, Inside
  <2>2. Cardinality(Inside') = Cardinality(Inside) - 1
    BY <1>3, <2>1, InsideLose DEF Throws
  <2>3. PICK r \in work : thrown' = thrown \cup {r}
    BY <1>3 DEF Throws
  <2>4. r \notin thrown
    BY <2>3 DEF TypeOK
  <2>5. Cardinality(thrown') = Cardinality(thrown) + 1
    BY <2>3, <2>4, FS_AddElement
  <2>6. QED
    BY <1>3, <2>2, <2>5 DEF Throws
<1>4. ASSUME NEW t \in Threads, Post(t) \/ Run(t) \/ RunRefused(t) \/ RunReturns(t) \/ Return(t)
      PROVE  Counted'
  <2>1. Inside' = Inside
    BY <1>4, InsideSame DEF Post, Run, RunRefused, RunReturns, Return
  <2>2. QED
    BY <1>4, <2>1 DEF Post, Run, RunRefused, RunReturns, Return
<1>5. ASSUME NEW t \in Threads, Complete(t) PROVE Counted'
  BY <1>5 DEF Complete, Inside
<1>6. CASE UNCHANGED vars
  BY <1>6 DEF vars, Inside
<1>7. QED
  BY <1>1, <1>2, <1>3, <1>4, <1>5, <1>6 DEF Next

\* The types of all but the counter.
TypeButCounter ==
    /\ pc \in [Threads -> {"idle", "posted", "run", "running", "ran", "checked"}]
    /\ calls \in [Threads -> 0 .. MaxCalls]
    /\ work \subseteq Requests
    /\ answered \subseteq Requests
    /\ thrown \subseteq Requests
    /\ work \cap answered = {} /\ thrown \cap (work \cup answered) = {}
    /\ stopped \in BOOLEAN

\* A request is not posted twice because the calls of a thread are numbered, and
\* a request that is there leaves by its callback or by an exception.
LEMMA RequestsMove == IInv /\ [Next]_vars => TypeButCounter'
<1> SUFFICES ASSUME IInv, [Next]_vars PROVE TypeButCounter'
  OBVIOUS
<1> USE CallsAssumption DEF IInv, TypeOK, Requests, Posted, TypeButCounter
<1>1. ASSUME NEW t \in Threads, NEW v \in {"idle", "run", "running", "ran", "checked"},
             pc' = [pc EXCEPT ![t] = v], stopped' \in BOOLEAN,
             UNCHANGED <<calls, work, answered, thrown>>
      PROVE  TypeButCounter'
  BY <1>1
<1>2. CASE \E t \in Threads : Register(t) \/ Run(t) \/ RunRefused(t)
  BY <1>1, <1>2 DEF Register, Run, RunRefused
<1>3. CASE \E t \in Threads : RunReturns(t) \/ Unregister(t) \/ Return(t)
  BY <1>1, <1>3 DEF RunReturns, Unregister, Return
<1>4. ASSUME NEW t \in Threads, Post(t) PROVE TypeButCounter'
  BY <1>4 DEF Post
<1>5. ASSUME NEW t \in Threads, Complete(t) PROVE TypeButCounter'
  BY <1>5 DEF Complete
<1>6. ASSUME NEW t \in Threads, Throws(t) PROVE TypeButCounter'
  BY <1>6 DEF Throws
<1>7. CASE UNCHANGED vars
  BY <1>7 DEF vars
<1>8. QED
  BY <1>2, <1>3, <1>4, <1>5, <1>6, <1>7 DEF Next

\* The counter's bounds follow from what it counts.
LEMMA TypeStep == IInv /\ Counted' /\ [Next]_vars => TypeOK'
<1> SUFFICES ASSUME IInv, Counted', [Next]_vars PROVE TypeOK'
  OBVIOUS
<1>1. TypeButCounter'
  BY RequestsMove
<1>2. IsFiniteSet(Requests)
  <2>1. IsFiniteSet(1 .. MaxCalls)
    BY CallsAssumption, FS_Interval
  <2>2. QED
    BY <2>1, ThreadsAssumption, FS_Product DEF Requests
<1>3. Cardinality(thrown') \in Nat
  BY <1>1, <1>2, FS_Subset, FS_CardinalityType DEF TypeButCounter
<1>4. Cardinality(Inside') \in Nat /\ Cardinality(Inside') <= Cardinality(Threads)
  BY ThreadsAssumption, FS_Subset, FS_CardinalityType DEF Inside
<1>5. concurrent' \in 0 .. (Cardinality(Threads) + Cardinality(thrown'))
  BY <1>3, <1>4, InsideFinite DEF Counted
<1>6. QED
  BY <1>1, <1>5 DEF TypeOK, TypeButCounter

\* Every step keeps the strengthening.
LEMMA IInvStep == IInv /\ [Next]_vars => IInv'
  BY PostedStep, CountedStep, TypeStep DEF IInv

\* The strengthening is an invariant of the synchronous requests.
THEOREM Invariance == Spec => []IInv
  BY IInvInit, IInvStep, PTL DEF Spec

-----------------------------------------------------------------------------

\* The variables of SyncRequest keep their types; the counter stays within the
\* number of threads and of exceptions.
THEOREM TypeCorrect == Spec => []TypeOK
<1>1. IInv => TypeOK
  BY DEF IInv
<1>2. QED
  BY <1>1, Invariance, PTL

\* For any number of threads, calls and exceptions: whoever got into run() leaves
\* it with its answer, unless a handler of its own request has thrown.
THEOREM AnswerCorrect == Spec => []RunGivesAnswer
<1>1. IInv => RunGivesAnswer
  BY DEF IInv
<1>2. QED
  BY <1>1, Invariance, PTL

\* The io_service is reset only by the last thread out: a counter of 0 means
\* that nobody is inside.
THEOREM ResetCorrect == Spec => ResetAlone
<1>1. ASSUME IInv, [Next]_vars, stopped, ~stopped'
      PROVE  \A t \in Threads : pc[t] # "running"
  <2>1. PICK t \in Threads : Unregister(t)
    BY <1>1 DEF Next, vars, Post, Register, Run, RunRefused, Complete, Throws, RunReturns, Return
  <2>2. concurrent = 1 /\ t \in Inside
    <3>1. concurrent \in Nat
      BY <1>1, InsideFinite, ThrownFinite DEF IInv, Counted
    <3>2. concurrent' = concurrent - 1 /\ concurrent' = 0
      BY <1>1, <2>1 DEF Unregister
    <3>3. QED
      BY <2>1, <3>1, <3>2 DEF Unregister, Inside
  <2>3. Cardinality(Inside) <= 1
    BY <1>1, <2>2, InsideFinite, ThrownFinite DEF IInv, Counted
  <2>4. Cardinality(Inside \ {t}) = Cardinality(Inside) - 1 /\ IsFiniteSet(Inside \ {t})
    BY <2>2, InsideFinite, FS_RemoveElement
  <2>5. Cardinality(Inside \ {t}) = 0
    BY <2>3, <2>4, InsideFinite, FS_CardinalityType
  <2>6. Inside \ {t} = {}
    BY <2>4, <2>5, FS_EmptySet
  <2>7. pc[t] = "ran"
    BY <2>1 DEF Unregister
  <2>8. QED
    BY <2>6, <2>7 DEF Inside
<1>2. IInv /\ [Next]_vars =>
        [stopped /\ ~stopped' => \A t \in Threads : pc[t] # "running"]_vars
  BY <1>1
<1>3. QED
  BY <1>2, Invariance, PTL DEF Spec, ResetAlone
=============================================================================
