------------------------------ MODULE ScopeGate ------------------------------
(***************************************************************************)
(* What SimpleWeb::ScopeRunner promises the handlers of a server or a      *)
(* client, with the atomic counter left out: a gate that any number of     *)
(* scopes may be inside of, and that is closed once, for good, at a moment *)
(* when nobody is inside.                                                  *)
(***************************************************************************)
CONSTANT Scopes      \* the handler invocations that may ask for a lock

VARIABLES
    holders,         \* the scopes that own a SharedLock
    closed           \* stop() has taken effect

gateVars == <<holders, closed>>

GateInit ==
    /\ holders = {}
    /\ closed = FALSE

\* continue_lock() returns a lock.
Enter(s) ==
    /\ ~closed
    /\ s \notin holders
    /\ holders' = holders \cup {s}
    /\ UNCHANGED closed

\* The SharedLock is destroyed.
Leave(s) ==
    /\ s \in holders
    /\ holders' = holders \ {s}
    /\ UNCHANGED closed

\* stop() gets its way: never while a scope is inside.
Close ==
    /\ ~closed
    /\ holders = {}
    /\ closed' = TRUE
    /\ UNCHANGED holders

GateNext ==
    \/ \E s \in Scopes : Enter(s) \/ Leave(s)
    \/ Close

GateSpec == GateInit /\ [][GateNext]_gateVars
=============================================================================
