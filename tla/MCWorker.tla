------------------------------ MODULE MCWorker ------------------------------
(***************************************************************************)
(* What a worker keeps beside its connections: the bucket of its rate      *)
(* limiter, the pool of its upstream connections, and its shard of the     *)
(* metrics registry.  The three share no state, so a behaviour is one of a *)
(* single part, while the other parts stay as they began.                  *)
(***************************************************************************)
EXTENDS RateLimiter, MCConnectionPool, Metrics

VARIABLE part       \* "limiter", "pool" or "registry"

workerVars == <<part, limiterVars, poolVars, registryVars>>

WorkerInit ==
    /\ part \in {"limiter", "pool", "registry"}
    /\ BucketInit /\ PoolInit /\ RegistryInit

WorkerNext ==
    \/ /\ part = "limiter" /\ BucketNext
       /\ UNCHANGED <<part, poolVars, registryVars>>
    \/ /\ part = "pool" /\ PoolNext
       /\ UNCHANGED <<part, limiterVars, registryVars>>
    \/ /\ part = "registry" /\ RegistryNext
       /\ UNCHANGED <<part, limiterVars, poolVars>>

WorkerSpec == WorkerInit /\ [][WorkerNext]_workerVars

\* Tasks and connections are interchangeable, and the run checks safety only.
WorkerSymmetry == Permutations(Tasks) \cup Permutations(Connections)
=============================================================================
