----------------------------- MODULE ScopeRunner -----------------------------
(***************************************************************************)
(* SimpleWeb::ScopeRunner (utility.hpp): the atomic counter that lets the  *)
(* completion handlers of a Server or a Client run only while the object   *)
(* they belong to exists.  A handler calls continue_lock() and returns at  *)
(* once when it gets no lock; the destructor calls stop(), which waits for *)
(* the locks that are out and then turns every later handler away.         *)
(*                                                                         *)
(* One step is one atomic operation on count: a load, a compare-exchange   *)
(* or a fetch_sub.  compare_exchange_weak may fail although the values     *)
(* agree.                                                                  *)
(***************************************************************************)
EXTENDS Integers, FiniteSets

CONSTANTS
    Scopes,          \* handler invocations; each holds at most one SharedLock
    Stoppers         \* calls of stop(), by threads that hold no lock

ASSUME ScopesAssumption ==
    /\ IsFiniteSet(Scopes)
    /\ Scopes \cap Stoppers = {}

VARIABLES
    count,           \* number of locks out, -1 once scopes are cancelled
    expected,        \* continue_lock()'s local copy of count, per scope
    pc               \* where each scope and each stop() call is

vars == <<count, expected, pc>>

Holders == {s \in Scopes : pc[s] = "inside"}

TypeOK ==
    /\ count \in Nat \cup {-1}
    /\ expected \in [Scopes -> Nat \cup {-1}]
    /\ pc \in [Scopes \cup Stoppers -> {"outside", "loop", "inside", "stopped"}]
    /\ \A s \in Scopes : pc[s] # "stopped"
    /\ \A d \in Stoppers : pc[d] # "inside"

Init ==
    /\ count = 0
    /\ expected = [s \in Scopes |-> 0]
    /\ pc = [p \in Scopes \cup Stoppers |-> "outside"]

-----------------------------------------------------------------------------
(* continue_lock() and ~SharedLock()                                       *)

\* long expected = count;
Load(s) ==
    /\ pc[s] = "outside"
    /\ pc' = [pc EXCEPT ![s] = "loop"]
    /\ expected' = [expected EXCEPT ![s] = count]
    /\ UNCHANGED count

\* Mutant of Acquire: the comparison is dropped, so that the store may
\* overwrite the increment of another scope or the -1 of stop().
AcquireBlindly(s) ==
    /\ pc[s] = "loop"
    /\ expected[s] >= 0
    /\ count' = expected[s] + 1
    /\ pc' = [pc EXCEPT ![s] = "inside"]
    /\ UNCHANGED expected

\* The compare-exchange succeeds: the handler owns a lock.
Acquire(s) ==
    /\ pc[s] = "loop"
    /\ expected[s] >= 0
    /\ count = expected[s]
    /\ count' = expected[s] + 1
    /\ pc' = [pc EXCEPT ![s] = "inside"]
    /\ UNCHANGED expected

\* Mutant of RetryAcquire: a failed comparison leaves expected alone.
RetryWithoutReload(s) ==
    /\ pc[s] = "loop"
    /\ expected[s] >= 0
    /\ UNCHANGED vars

\* The compare-exchange fails, spuriously or not, and reloads expected.
RetryAcquire(s) ==
    /\ pc[s] = "loop"
    /\ expected[s] >= 0
    /\ expected' = [expected EXCEPT ![s] = count]
    /\ UNCHANGED <<count, pc>>

\* A negative count: continue_lock() returns nullptr, the handler returns.
Refuse(s) ==
    /\ pc[s] = "loop"
    /\ expected[s] < 0
    /\ pc' = [pc EXCEPT ![s] = "outside"]
    /\ UNCHANGED <<count, expected>>

\* count.fetch_sub(1)
Release(s) ==
    /\ pc[s] = "inside"
    /\ count' = count - 1
    /\ pc' = [pc EXCEPT ![s] = "outside"]
    /\ UNCHANGED expected

-----------------------------------------------------------------------------
(* stop().  A failed compare-exchange that finds count >= 0 resets         *)
(* expected to 0 and spins, which changes nothing here.                    *)

CallStop(d) ==
    /\ pc[d] = "outside"
    /\ pc' = [pc EXCEPT ![d] = "loop"]
    /\ UNCHANGED <<count, expected>>

\* Mutant of StopSucceeds: -1 is stored whatever the number of locks out.
StopInstantly(d) ==
    /\ pc[d] = "loop"
    /\ count >= 0
    /\ count' = -1
    /\ pc' = [pc EXCEPT ![d] = "stopped"]
    /\ UNCHANGED expected

\* The compare-exchange of 0 by -1 succeeds.
StopSucceeds(d) ==
    /\ pc[d] = "loop"
    /\ count = 0
    /\ count' = -1
    /\ pc' = [pc EXCEPT ![d] = "stopped"]
    /\ UNCHANGED expected

\* It fails because another stop() came first.
StopFindsStopped(d) ==
    /\ pc[d] = "loop"
    /\ count < 0
    /\ pc' = [pc EXCEPT ![d] = "stopped"]
    /\ UNCHANGED <<count, expected>>

Next ==
    \/ \E s \in Scopes :
          \/ Load(s)
          \/ Acquire(s)
          \/ RetryAcquire(s)
          \/ Refuse(s)
          \/ Release(s)
    \/ \E d \in Stoppers :
          \/ CallStop(d)
          \/ StopSucceeds(d)
          \/ StopFindsStopped(d)

\* A running thread goes on, a handler ends, and a compare-exchange whose
\* values agree does not fail for ever.  Nobody has to call anything.
Fairness ==
    /\ \A s \in Scopes :
          /\ WF_vars(Acquire(s))
          /\ WF_vars(expected[s] # count /\ RetryAcquire(s))
          /\ WF_vars(Refuse(s))
          /\ WF_vars(Release(s))
    /\ \A d \in Stoppers : WF_vars(StopSucceeds(d)) /\ WF_vars(StopFindsStopped(d))

Spec == Init /\ [][Next]_vars

FairSpec == Spec /\ Fairness

-----------------------------------------------------------------------------
(* Properties                                                              *)

\* The counter never drifts from the locks that are out: no increment is lost
\* when handlers race in continue_lock(), and none is out once it is -1.
CountMatches ==
    \/ count >= 0 /\ count = Cardinality(Holders)
    \/ count = -1 /\ Holders = {}

\* Once any stop() has returned no handler is inside its scope, and none can
\* enter it again: what makes it safe to destroy the Server or the Client.
StopExcludes ==
    (\E d \in Stoppers : pc[d] = "stopped") => count = -1 /\ Holders = {}

Gate == INSTANCE ScopeGate WITH holders <- Holders, closed <- count = -1

\* The counter implements the gate: whoever gets a lock got it while the gate
\* was open, and stop() closes it once, for good, while nobody is inside.
ImplementsGate == Gate!GateSpec

\* Nobody is left spinning.  A handler caught in the retry loop of
\* continue_lock() when the scopes are cancelled is turned away, whatever stale
\* count it holds; and stop() returns provided that new handlers stop arriving
\* (while they keep arriving it may spin for ever: it reserves nothing).
NobodySpins ==
    /\ \A s \in Scopes : count = -1 /\ pc[s] = "loop" ~> pc[s] = "outside"
    /\ (<>[][\A s \in Scopes : ~Load(s)]_vars)
          => \A d \in Stoppers : pc[d] = "loop" ~> pc[d] = "stopped"
=============================================================================
