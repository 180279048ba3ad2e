----------------------------- MODULE MCServing ------------------------------
(***************************************************************************)
(* What serves a request: the spine's coroutines, the manager that hands   *)
(* them their routes, word by word, and the circuit breaker.  The three    *)
(* share no state, so a behaviour is one of a single part, while the other *)
(* parts stay as they began.                                               *)
(***************************************************************************)
EXTENDS MCSpine, ConfigSnapshot, CircuitBreaker

VARIABLE part       \* "spine", "manager" or "breaker"

servingVars == <<part, vars, snapshotVars, circuitVars>>

ServingInit ==
    /\ part \in {"spine", "manager", "breaker"}
    /\ Init /\ SnapshotInit /\ BreakerInit

\* A spine comes to an end with the last of its connections.
ServingNext ==
    \/ /\ part = "spine" /\ (Next \/ UNCHANGED vars)
       /\ UNCHANGED <<part, snapshotVars, circuitVars>>
    \/ part = "manager" /\ SnapshotNext /\ UNCHANGED <<part, vars, circuitVars>>
    \/ part = "breaker" /\ BreakerNext /\ UNCHANGED <<part, vars, snapshotVars>>

ServingFairness ==
    \/ part = "spine" /\ Fairness
    \/ part = "manager" /\ SnapshotFairness
    \/ part = "breaker" /\ BreakerFairness

ServingSpec == ServingInit /\ [][ServingNext]_servingVars /\ ServingFairness
=============================================================================
