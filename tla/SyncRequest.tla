----------------------------- MODULE SyncRequest -----------------------------
(***************************************************************************)
(* The synchronous Client::request() (client_http.hpp): threads that share *)
(* a Client post their requests to its io_service, run it until it has no  *)
(* work left, and the last one to come back resets it for the next time.   *)
(*                                                                         *)
(* The io_service is external: run() returns at once when it is stopped,   *)
(* executes handlers otherwise, and stops the io_service for every thread  *)
(* when no work is left.  A handler that throws ends the run() it is in.   *)
(***************************************************************************)
EXTENDS Integers, FiniteSets

CONSTANTS
    Threads,         \* threads that use the same Client
    MaxCalls,        \* bound: calls of request() per thread
    MaxThrown        \* bound: handlers that throw

ASSUME CallsAssumption == MaxCalls \in Nat /\ MaxThrown \in Nat
ASSUME ThreadsAssumption == IsFiniteSet(Threads)

VARIABLES
    pc,              \* where each thread is in request()
    calls,           \* calls of request() each thread has begun
    work,            \* requests posted and not completed: <<thread, call>>
    answered,        \* requests whose callback has run
    thrown,          \* requests one of whose handlers has thrown
    stopped,         \* io_service.stopped()
    concurrent       \* concurrent_synchronous_requests

vars == <<pc, calls, work, answered, thrown, stopped, concurrent>>

Requests == Threads \X (1 .. MaxCalls)

TypeOK ==
    /\ pc \in [Threads -> {"idle", "posted", "run", "running", "ran", "checked"}]
    /\ calls \in [Threads -> 0 .. MaxCalls]
    /\ work \subseteq Requests
    /\ answered \subseteq Requests
    /\ thrown \subseteq Requests
    /\ work \cap answered = {} /\ thrown \cap (work \cup answered) = {}
    /\ stopped \in BOOLEAN
    /\ concurrent \in 0 .. (Cardinality(Threads) + Cardinality(thrown))

Init ==
    /\ pc = [t \in Threads |-> "idle"]
    /\ calls = [t \in Threads |-> 0]
    /\ work = {}
    /\ answered = {}
    /\ thrown = {}
    /\ stopped = FALSE
    /\ concurrent = 0

\* The asynchronous request() with a callback into this call's frame.
Post(t) ==
    /\ pc[t] = "idle"
    /\ calls[t] < MaxCalls
    /\ calls' = [calls EXCEPT ![t] = @ + 1]
    /\ work' = work \cup {<<t, calls'[t]>>}
    /\ pc' = [pc EXCEPT ![t] = "posted"]
    /\ UNCHANGED <<answered, thrown, stopped, concurrent>>

\* ++concurrent_synchronous_requests
Register(t) ==
    /\ pc[t] = "posted"
    /\ concurrent' = concurrent + 1
    /\ pc' = [pc EXCEPT ![t] = "run"]
    /\ UNCHANGED <<calls, work, answered, thrown, stopped>>

\* io_service->run() is entered; without any work it stops the io_service.
Run(t) ==
    /\ pc[t] = "run"
    /\ ~stopped
    /\ pc' = [pc EXCEPT ![t] = "running"]
    /\ stopped' = (work = {})
    /\ UNCHANGED <<calls, work, answered, thrown, concurrent>>

\* run() of a stopped io_service returns without doing anything.
RunRefused(t) ==
    /\ pc[t] = "run"
    /\ stopped
    /\ pc' = [pc EXCEPT ![t] = "ran"]
    /\ UNCHANGED <<calls, work, answered, thrown, stopped, concurrent>>

\* Mutant of Complete: one handler is enough to stop the io_service.
CompleteOne(t) ==
    /\ pc[t] = "running"
    /\ ~stopped
    /\ \E r \in work :
          /\ work' = work \ {r}
          /\ answered' = answered \cup {r}
    /\ stopped' = TRUE
    /\ UNCHANGED <<pc, calls, thrown, concurrent>>

\* Mutant of Complete: the io_service is kept going without work.
CompleteForever(t) ==
    /\ pc[t] = "running"
    /\ ~stopped
    /\ \E r \in work :
          /\ work' = work \ {r}
          /\ answered' = answered \cup {r}
    /\ UNCHANGED <<pc, calls, thrown, stopped, concurrent>>

\* A thread inside run() executes the last handler of some thread's request,
\* which calls its callback.  Without work left the io_service stops.
Complete(t) ==
    /\ pc[t] = "running"
    /\ ~stopped
    /\ \E r \in work :
          /\ work' = work \ {r}
          /\ answered' = answered \cup {r}
    /\ stopped' = (work' = {})
    /\ UNCHANGED <<pc, calls, thrown, concurrent>>

\* A handler throws, of whichever thread's request (LengthThrows of HttpClient):
\* that request has no callback, and the exception leaves run() and request() of
\* the thread that executes it, which is not counted out.
Throws(t) ==
    /\ pc[t] = "running"
    /\ ~stopped
    /\ Cardinality(thrown) < MaxThrown
    /\ \E r \in work :
          /\ work' = work \ {r}
          /\ thrown' = thrown \cup {r}
    /\ stopped' = (work' = {})
    /\ pc' = [pc EXCEPT ![t] = "idle"]
    /\ UNCHANGED <<calls, answered, concurrent>>

RunReturns(t) ==
    /\ pc[t] = "running"
    /\ stopped
    /\ pc' = [pc EXCEPT ![t] = "ran"]
    /\ UNCHANGED <<calls, work, answered, thrown, stopped, concurrent>>

\* Mutant of Unregister: every thread that comes back resets the io_service.
UnregisterAlwaysResets(t) ==
    /\ pc[t] = "ran"
    /\ concurrent' = concurrent - 1
    /\ stopped' = FALSE
    /\ pc' = [pc EXCEPT ![t] = "checked"]
    /\ UNCHANGED <<calls, work, answered, thrown>>

\* Mutant of Unregister: the io_service is reset but nobody is counted out.
UnregisterKeepsCount(t) ==
    /\ pc[t] = "ran"
    /\ pc' = [pc EXCEPT ![t] = "checked"]
    /\ UNCHANGED <<calls, work, answered, thrown, stopped, concurrent>>

\* The last thread out resets the io_service, under the mutex of the counter.
Unregister(t) ==
    /\ pc[t] = "ran"
    /\ concurrent' = concurrent - 1
    /\ stopped' = (stopped /\ concurrent' # 0)
    /\ pc' = [pc EXCEPT ![t] = "checked"]
    /\ UNCHANGED <<calls, work, answered, thrown>>

\* request() returns: the frame its callback refers to is gone.
Return(t) ==
    /\ pc[t] = "checked"
    /\ pc' = [pc EXCEPT ![t] = "idle"]
    /\ UNCHANGED <<calls, work, answered, thrown, stopped, concurrent>>

Next == \E t \in Threads :
    \/ Post(t)
    \/ Register(t)
    \/ Run(t)
    \/ RunRefused(t)
    \/ Complete(t)
    \/ Throws(t)
    \/ RunReturns(t)
    \/ Unregister(t)
    \/ Return(t)

Spec == Init /\ [][Next]_vars

\* A thread inside request() goes on, and the server of a request answers or
\* its connection fails.  Nobody has to call request().
FairSpec ==
    /\ Spec
    /\ \A t \in Threads :
          /\ WF_vars(Register(t) \/ Run(t) \/ RunRefused(t))
          /\ WF_vars(Complete(t) \/ RunReturns(t))
          /\ WF_vars(Unregister(t) \/ Return(t))

-----------------------------------------------------------------------------
(* Properties                                                              *)

\* The io_service is reset only while no thread is inside run(): reset()
\* under a running run() is undefined.
ResetAlone ==
    [][stopped /\ ~stopped' => \A t \in Threads : pc[t] # "running"]_vars

\* Whoever got into run() leaves it with its answer, unless a handler of its own
\* request has thrown: the io_service stops only when the last request is done,
\* whichever thread's it is.
RunGivesAnswer ==
    \A t \in Threads :
        pc[t] = "running" /\ stopped => <<t, calls[t]>> \in answered \cup thrown

\* request() returns.
RequestReturns == \A t \in Threads : pc[t] = "posted" ~> pc[t] = "idle"
=============================================================================
