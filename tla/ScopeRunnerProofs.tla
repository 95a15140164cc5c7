-------------------------- MODULE ScopeRunnerProofs --------------------------
(***************************************************************************)
(* Proofs about ScopeRunner, for any finite set of handlers and any set of *)
(* stop() calls.  The inductive invariant is IInv: the counter equals the  *)
(* number of locks out as long as it is not negative, and a stop() call    *)
(* that has returned has left it at -1.                                    *)
(***************************************************************************)
EXTENDS ScopeRunner, FiniteSetTheorems, TLAPS

\* count = -1 is all that a returned stop() leaves behind; with CountMatches
\* it gives StopExcludes.
StoppedCloses == \A d \in Stoppers : pc[d] = "stopped" => count = -1

IInv ==
    /\ TypeOK
    /\ CountMatches
    /\ StoppedCloses

\* Holders is finite whenever the scopes are, so that counting it makes sense.
LEMMA HoldersFinite == IsFiniteSet(Holders)
  BY ScopesAssumption, FS_Subset DEF Holders

\* A scope that enters is counted: one element more in Holders.
LEMMA HoldersGain ==
    ASSUME NEW s \in Scopes, TypeOK, pc[s] # "inside",
           pc' = [pc EXCEPT ![s] = "inside"]
    PROVE  /\ Holders' = Holders \cup {s}
           /\ Cardinality(Holders') = Cardinality(Holders) + 1
<1>1. Holders' = Holders \cup {s} /\ s \notin Holders
  BY ScopesAssumption DEF TypeOK, Holders
<1>2. QED
  BY <1>1, HoldersFinite, FS_AddElement

\* A scope that leaves is uncounted: one element less in Holders.
LEMMA HoldersLose ==
    ASSUME NEW s \in Scopes, TypeOK, pc[s] = "inside",
           pc' = [pc EXCEPT ![s] = "outside"]
    PROVE  /\ Holders' = Holders \ {s}
           /\ Cardinality(Holders') = Cardinality(Holders) - 1
<1>1. Holders' = Holders \ {s} /\ s \in Holders
  BY ScopesAssumption DEF TypeOK, Holders
<1>2. QED
  BY <1>1, HoldersFinite, FS_RemoveElement

\* Any other change of a program counter leaves the set of holders alone.
LEMMA HoldersSame ==
    ASSUME NEW p \in Scopes \cup Stoppers, NEW v, TypeOK,
           pc[p] # "inside", v # "inside", pc' = [pc EXCEPT ![p] = v]
    PROVE  Holders' = Holders
  BY DEF TypeOK, Holders

-----------------------------------------------------------------------------

\* The initial state satisfies the inductive invariant.
LEMMA IInvInit == Init => IInv
<1> SUFFICES ASSUME Init PROVE IInv
  OBVIOUS
<1>1. Holders = {}
  BY ScopesAssumption DEF Init, Holders
<1>2. TypeOK
  BY ScopesAssumption DEF Init, TypeOK
<1>3. CountMatches
  BY <1>1, FS_EmptySet DEF Init, CountMatches
<1>4. QED
  BY <1>2, <1>3 DEF Init, IInv, StoppedCloses

\* Every step keeps the types.  That Release cannot bring the counter below -1
\* needs CountMatches: the scope that leaves was counted.
LEMMA TypeStep == TypeOK /\ CountMatches /\ [Next]_vars => TypeOK'
<1> SUFFICES ASSUME TypeOK, CountMatches, [Next]_vars PROVE TypeOK'
  OBVIOUS
<1> USE ScopesAssumption DEF TypeOK
<1>1. ASSUME NEW s \in Scopes, Load(s) PROVE TypeOK'
  BY <1>1 DEF Load
<1>2. ASSUME NEW s \in Scopes, Acquire(s) PROVE TypeOK'
  BY <1>2 DEF Acquire
<1>3. ASSUME NEW s \in Scopes, RetryAcquire(s) PROVE TypeOK'
  BY <1>3 DEF RetryAcquire
<1>4. ASSUME NEW s \in Scopes, Refuse(s) PROVE TypeOK'
  BY <1>4 DEF Refuse
<1>5. ASSUME NEW s \in Scopes, Release(s) PROVE TypeOK'
  <2>1. s \in Holders /\ count >= 0
    BY <1>5 DEF Release, Holders, CountMatches
  <2>2. count - 1 \in Nat \cup {-1}
    BY <2>1
  <2>3. QED
    BY <1>5, <2>2 DEF Release
<1>6. ASSUME NEW d \in Stoppers, CallStop(d) PROVE TypeOK'
  BY <1>6 DEF CallStop
<1>7. ASSUME NEW d \in Stoppers, StopSucceeds(d) PROVE TypeOK'
  BY <1>7 DEF StopSucceeds
<1>8. ASSUME NEW d \in Stoppers, StopFindsStopped(d) PROVE TypeOK'
  BY <1>8 DEF StopFindsStopped
<1>9. CASE UNCHANGED vars
  BY <1>9 DEF vars
<1>10. QED
  BY <1>1, <1>2, <1>3, <1>4, <1>5, <1>6, <1>7, <1>8, <1>9 DEF Next

\* Every step keeps the counter equal to the number of locks out.
LEMMA CountStep == TypeOK /\ CountMatches /\ [Next]_vars => CountMatches'
<1> SUFFICES ASSUME TypeOK, CountMatches, [Next]_vars PROVE CountMatches'
  OBVIOUS
<1>1. ASSUME NEW s \in Scopes, Load(s) PROVE CountMatches'
  <2>1. Holders' = Holders
    BY <1>1, HoldersSame DEF Load
  <2>2. QED
    BY <1>1, <2>1 DEF Load, CountMatches
<1>2. ASSUME NEW s \in Scopes, Acquire(s) PROVE CountMatches'
  <2>1. count \in Nat /\ count' = count + 1
    BY <1>2 DEF Acquire, TypeOK
  <2>2. Cardinality(Holders') = Cardinality(Holders) + 1
    BY <1>2, HoldersGain DEF Acquire
  <2>3. QED
    BY <2>1, <2>2 DEF CountMatches
<1>3. ASSUME NEW s \in Scopes, RetryAcquire(s) PROVE CountMatches'
  BY <1>3 DEF RetryAcquire, CountMatches, Holders
<1>4. ASSUME NEW s \in Scopes, Refuse(s) PROVE CountMatches'
  <2>1. Holders' = Holders
    BY <1>4, HoldersSame DEF Refuse
  <2>2. QED
    BY <1>4, <2>1 DEF Refuse, CountMatches
<1>5. ASSUME NEW s \in Scopes, Release(s) PROVE CountMatches'
  <2>1. s \in Holders /\ count = Cardinality(Holders)
    BY <1>5 DEF Release, Holders, CountMatches
  <2>2. Cardinality(Holders') = Cardinality(Holders) - 1
    BY <1>5, HoldersLose DEF Release
  <2>3. Cardinality(Holders') \in Nat
    <3>1. IsFiniteSet(Holders')
      BY ScopesAssumption, FS_Subset DEF Holders
    <3>2. QED
      BY <3>1, FS_CardinalityType
  <2>4. Cardinality(Holders) \in Nat
    BY HoldersFinite, FS_CardinalityType
  <2>5. QED
    BY <1>5, <2>1, <2>2, <2>3, <2>4 DEF Release, CountMatches
<1>6. ASSUME NEW d \in Stoppers, CallStop(d) PROVE CountMatches'
  <2>1. Holders' = Holders
    BY <1>6, HoldersSame DEF CallStop
  <2>2. QED
    BY <1>6, <2>1 DEF CallStop, CountMatches
<1>7. ASSUME NEW d \in Stoppers, StopSucceeds(d) PROVE CountMatches'
  <2>1. Holders' = Holders
    BY <1>7, HoldersSame DEF StopSucceeds
  <2>2. Holders = {}
    BY <1>7, HoldersFinite, FS_EmptySet DEF StopSucceeds, CountMatches
  <2>3. QED
    BY <1>7, <2>1, <2>2 DEF StopSucceeds, CountMatches
<1>8. ASSUME NEW d \in Stoppers, StopFindsStopped(d) PROVE CountMatches'
  <2>1. Holders' = Holders
    BY <1>8, HoldersSame DEF StopFindsStopped
  <2>2. QED
    BY <1>8, <2>1 DEF StopFindsStopped, CountMatches
<1>9. CASE UNCHANGED vars
  BY <1>9 DEF vars, CountMatches, Holders
<1>10. QED
  BY <1>1, <1>2, <1>3, <1>4, <1>5, <1>6, <1>7, <1>8, <1>9 DEF Next

\* A counter that is -1 stays -1: nobody is inside who could release, and
\* nobody gets in.
LEMMA ClosedStep == TypeOK /\ CountMatches /\ [Next]_vars /\ count = -1 => count' = -1
<1> SUFFICES ASSUME TypeOK, CountMatches, [Next]_vars, count = -1 PROVE count' = -1
  OBVIOUS
<1>1. ASSUME NEW s \in Scopes PROVE ~Release(s) /\ ~Acquire(s)
  BY DEF Release, Acquire, CountMatches, Holders
<1>2. QED
  BY <1>1 DEF Next, vars, Load, RetryAcquire, Refuse, CallStop, StopSucceeds, StopFindsStopped

\* A stop() call that has returned has left the counter at -1.
LEMMA StoppedStep == IInv /\ [Next]_vars => StoppedCloses'
<1> SUFFICES ASSUME IInv, [Next]_vars, NEW d \in Stoppers, pc'[d] = "stopped"
             PROVE  count' = -1
  BY DEF StoppedCloses
<1> USE DEF IInv
<1>1. CASE pc[d] = "stopped"
  BY <1>1, ClosedStep DEF StoppedCloses
<1>2. CASE pc[d] # "stopped"
  <2>1. StopSucceeds(d) \/ StopFindsStopped(d)
    BY <1>2, ScopesAssumption DEF Next, vars, TypeOK, Load, Acquire, RetryAcquire, Refuse,
       Release, CallStop, StopSucceeds, StopFindsStopped
  <2>2. QED
    BY <2>1 DEF StopSucceeds, StopFindsStopped, TypeOK
<1>3. QED
  BY <1>1, <1>2

LEMMA IInvHolds == Spec => []IInv
<1>1. IInv /\ [Next]_vars => IInv'
  BY TypeStep, CountStep, StoppedStep DEF IInv
<1>2. QED
  BY IInvInit, <1>1, PTL DEF Spec

-----------------------------------------------------------------------------
(* The theorems                                                            *)

\* Every variable keeps its type: the counter never falls below -1, only scopes
\* are ever inside and only stop() calls are ever stopped.
THEOREM TypeCorrect == Spec => []TypeOK
<1>1. IInv => TypeOK
  BY DEF IInv
<1>2. QED
  BY IInvHolds, <1>1, PTL

\* No race in continue_lock() loses or invents a lock.
THEOREM CountCorrect == Spec => []CountMatches
<1>1. IInv => CountMatches
  BY DEF IInv
<1>2. QED
  BY IInvHolds, <1>1, PTL

\* Once stop() has returned no handler is inside, and the counter says so.
THEOREM StopCorrect == Spec => []StopExcludes
<1>1. IInv => StopExcludes
  BY DEF IInv, CountMatches, StoppedCloses, StopExcludes
<1>2. QED
  BY IInvHolds, <1>1, PTL

\* The counter implements the gate.
THEOREM GateImplemented == Spec => ImplementsGate
<1>1. Init => Gate!GateInit
  BY ScopesAssumption DEF Init, Gate!GateInit, Holders
<1>2. IInv /\ [Next]_vars => [Gate!GateNext]_(Gate!gateVars)
  <2> SUFFICES ASSUME IInv, [Next]_vars PROVE [Gate!GateNext]_(Gate!gateVars)
    OBVIOUS
  <2> USE DEF IInv, Gate!gateVars
  <2>1. ASSUME NEW s \in Scopes, Acquire(s) PROVE Gate!Enter(s)
    <3>1. Holders' = Holders \cup {s}
      BY <2>1, HoldersGain DEF Acquire
    <3>2. count # -1 /\ count' # -1
      BY <2>1 DEF Acquire, TypeOK
    <3>3. s \notin Holders
      BY <2>1 DEF Acquire, Holders
    <3>4. QED
      BY <3>1, <3>2, <3>3 DEF Gate!Enter
  <2>2. ASSUME NEW s \in Scopes, Release(s) PROVE Gate!Leave(s)
    <3>1. s \in Holders /\ Holders' = Holders \ {s}
      BY <2>2, HoldersLose DEF Release, Holders
    <3>2. count # -1
      BY <3>1 DEF CountMatches
    <3>3. count' # -1
      <4>1. count = Cardinality(Holders) /\ count >= 0
        BY <3>1 DEF CountMatches
      <4>2. count # 0
        BY <4>1, <3>1, HoldersFinite, FS_EmptySet
      <4>3. QED
        BY <4>1, <4>2, <2>2 DEF Release, TypeOK
    <3>4. QED
      BY <3>1, <3>2, <3>3 DEF Gate!Leave
  <2>3. ASSUME NEW d \in Stoppers, StopSucceeds(d) PROVE Gate!Close
    <3>1. Holders' = Holders
      BY <2>3, HoldersSame DEF StopSucceeds
    <3>2. Holders = {}
      BY <2>3, HoldersFinite, FS_EmptySet DEF StopSucceeds, CountMatches
    <3>3. QED
      BY <2>3, <3>1, <3>2 DEF StopSucceeds, Gate!Close
  <2>4. ASSUME NEW s \in Scopes, Load(s) \/ RetryAcquire(s) \/ Refuse(s)
        PROVE  UNCHANGED Gate!gateVars
    <3>1. count' = count
      BY <2>4 DEF Load, RetryAcquire, Refuse
    <3>2. Holders' = Holders
      BY <2>4, HoldersSame DEF Load, RetryAcquire, Refuse, Holders
    <3>3. QED
      BY <3>1, <3>2
  <2>5. ASSUME NEW d \in Stoppers, CallStop(d) \/ StopFindsStopped(d)
        PROVE  UNCHANGED Gate!gateVars
    <3>1. count' = count
      BY <2>5 DEF CallStop, StopFindsStopped
    <3>2. Holders' = Holders
      BY <2>5, HoldersSame DEF CallStop, StopFindsStopped
    <3>3. QED
      BY <3>1, <3>2
  <2>6. CASE UNCHANGED vars
    BY <2>6 DEF vars, Holders
  <2>7. QED
    BY <2>1, <2>2, <2>3, <2>4, <2>5, <2>6 DEF Next, Gate!GateNext
<1>3. QED
  BY <1>1, <1>2, IInvHolds, PTL DEF Spec, ImplementsGate, Gate!GateSpec
=============================================================================
