--------------------------- MODULE CircuitBreaker ---------------------------
(***************************************************************************)
(* The three-state circuit breaker of src/resilience/circuit_breaker.cpp,  *)
(* driven by concurrent requests: a request asks allow_request(), stays in *)
(* flight while its coroutine is suspended, and later reports              *)
(* record_success() or record_failure().  Several requests are in flight   *)
(* at once, so a report may reach the breaker in another state than the    *)
(* one that admitted the request.                                          *)
(*                                                                         *)
(* Time is kept relative to open_start_time_, in ticks, and saturates at   *)
(* the open timeout: beyond it allow_request() cannot tell two times apart.*)
(***************************************************************************)
EXTENDS Integers

CONSTANTS
    Callers,           \* requests that may be in flight at the same time
    FailureThreshold,   \* config_.failure_threshold
    SuccessThreshold,   \* config_.success_threshold
    OpenTimeout,        \* config_.open_timeout, in whole seconds
    TicksPerSecond      \* resolution of steady_clock

ASSUME ThresholdAssumption ==
    FailureThreshold \in Nat /\ SuccessThreshold \in Nat
ASSUME ClockAssumption ==
    OpenTimeout \in Nat /\ TicksPerSecond \in Nat \ {0}

VARIABLES
    state,                  \* state_
    consecutive_failures,   \* consecutive_failures_
    consecutive_successes,  \* consecutive_successes_
    sinceOpen,              \* now - open_start_time_, saturated
    inflight,               \* per request: idle, or the kind of its admission
    upstreamUp,             \* whether the upstream answers at present
    failStreak,             \* ghost: failures reported since the last success
    okStreak,               \* ghost: successes reported since the last failure
    sinceTrip               \* ghost: ticks since the breaker last became Open

breakerVars == <<state, consecutive_failures, consecutive_successes, sinceOpen>>
streakVars  == <<failStreak, okStreak>>
circuitVars == <<breakerVars, inflight, upstreamUp, streakVars, sinceTrip>>

States     == {"Closed", "Open", "HalfOpen"}
Admissions == {"idle", "normal", "probe"}

OpenTicks == OpenTimeout * TicksPerSecond

AtLeastOne(n) == IF n = 0 THEN 1 ELSE n
Capped(n, bound) == IF n > bound THEN bound ELSE n

BreakerInit ==
    /\ state = "Closed"
    /\ consecutive_failures = 0
    /\ consecutive_successes = 0
    /\ sinceOpen = 0
    /\ inflight = [r \in Callers |-> "idle"]
    /\ upstreamUp = TRUE
    /\ failStreak = 0
    /\ okStreak = 0
    /\ sinceTrip = 0

-----------------------------------------------------------------------------
(* The private transitions.                                                *)

TransitionToOpen_KeepsCounters ==
    /\ state' = "Open"
    /\ sinceOpen' = 0
    /\ UNCHANGED <<consecutive_failures, consecutive_successes>>

TransitionToOpen_KeepsOldStart ==
    /\ state' = "Open"
    /\ consecutive_failures' = 0
    /\ consecutive_successes' = 0
    /\ UNCHANGED sinceOpen

TransitionToOpen ==
    /\ state' = "Open"
    /\ sinceOpen' = 0
    /\ consecutive_failures' = 0
    /\ consecutive_successes' = 0

TransitionToHalfOpen ==
    /\ state' = "HalfOpen"
    /\ consecutive_failures' = 0
    /\ consecutive_successes' = 0
    /\ UNCHANGED sinceOpen

TransitionToClosed ==
    /\ state' = "Closed"
    /\ consecutive_failures' = 0
    /\ consecutive_successes' = 0
    /\ UNCHANGED sinceOpen

-----------------------------------------------------------------------------
(* The reports of a finished request.                                      *)

RecordSuccess_KeepsFailures ==
    \/ state \in {"Closed", "Open"} /\ UNCHANGED breakerVars
    \/ /\ state = "HalfOpen"
       /\ IF consecutive_successes + 1 >= SuccessThreshold
          THEN TransitionToClosed
          ELSE /\ consecutive_successes' = consecutive_successes + 1
               /\ UNCHANGED <<state, consecutive_failures, sinceOpen>>

RecordSuccess_OffByOne ==
    \/ /\ state = "Closed"
       /\ consecutive_failures' = 0
       /\ UNCHANGED <<state, consecutive_successes, sinceOpen>>
    \/ state = "Open" /\ UNCHANGED breakerVars
    \/ /\ state = "HalfOpen"
       /\ IF consecutive_successes + 2 >= SuccessThreshold
          THEN TransitionToClosed
          ELSE /\ consecutive_successes' = consecutive_successes + 1
               /\ UNCHANGED <<state, consecutive_failures, sinceOpen>>

RecordSuccess ==
    \/ /\ state = "Closed"
       /\ consecutive_failures' = 0
       /\ UNCHANGED <<state, consecutive_successes, sinceOpen>>
    \/ /\ state = "Open"
       /\ UNCHANGED breakerVars
    \/ /\ state = "HalfOpen"
       /\ IF consecutive_successes + 1 >= SuccessThreshold
          THEN TransitionToClosed
          ELSE /\ consecutive_successes' = consecutive_successes + 1
               /\ UNCHANGED <<state, consecutive_failures, sinceOpen>>

RecordFailure_WrongCounter ==
    \/ /\ state = "Open"
       /\ UNCHANGED breakerVars
    \/ /\ state = "Closed"
       /\ IF consecutive_successes + 1 >= FailureThreshold
          THEN TransitionToOpen
          ELSE /\ consecutive_failures' = consecutive_failures + 1
               /\ UNCHANGED <<state, consecutive_successes, sinceOpen>>
    \/ /\ state = "HalfOpen"
       /\ TransitionToOpen

RecordFailure ==
    \/ /\ state = "Open"
       /\ UNCHANGED breakerVars
    \/ /\ state = "Closed"
       /\ IF consecutive_failures + 1 >= FailureThreshold
          THEN TransitionToOpen
          ELSE /\ consecutive_failures' = consecutive_failures + 1
               /\ UNCHANGED <<state, consecutive_successes, sinceOpen>>
    \/ /\ state = "HalfOpen"
       /\ TransitionToOpen

-----------------------------------------------------------------------------
(* Actions.                                                                *)

\* duration_cast<seconds> drops the fraction of a second.
TimeoutElapsed == sinceOpen \div TicksPerSecond >= OpenTimeout

Admit(r, kind) == inflight' = [inflight EXCEPT ![r] = kind]

AllowRequest_NeverProbes(r) ==
    /\ inflight[r] = "idle"
    /\ state # "Open"
    /\ Admit(r, IF state = "Closed" THEN "normal" ELSE "probe")
    /\ UNCHANGED <<breakerVars, upstreamUp, streakVars, sinceTrip>>

\* allow_request() returned true; a rejected request changes nothing.
AllowRequest(r) ==
    /\ inflight[r] = "idle"
    /\ \/ /\ state = "Closed"
          /\ Admit(r, "normal")
          /\ UNCHANGED breakerVars
       \/ /\ state = "Open"
          /\ TimeoutElapsed
          /\ TransitionToHalfOpen
          /\ Admit(r, "probe")
       \/ /\ state = "HalfOpen"
          /\ Admit(r, "probe")
          /\ UNCHANGED breakerVars
    /\ UNCHANGED <<upstreamUp, streakVars, sinceTrip>>

NoteTrip ==
    sinceTrip' = IF state # "Open" /\ state' = "Open" THEN 0 ELSE sinceTrip

Succeed(r) ==
    /\ inflight[r] # "idle"
    /\ upstreamUp
    /\ RecordSuccess
    /\ Admit(r, "idle")
    /\ failStreak' = 0
    /\ okStreak' = Capped(okStreak + 1, SuccessThreshold)
    /\ NoteTrip
    /\ UNCHANGED upstreamUp

Fail(r) ==
    /\ inflight[r] # "idle"
    /\ ~upstreamUp
    /\ RecordFailure
    /\ Admit(r, "idle")
    /\ failStreak' = Capped(failStreak + 1, FailureThreshold)
    /\ okStreak' = 0
    /\ NoteTrip
    /\ UNCHANGED upstreamUp

Reset ==
    /\ state' = "Closed"
    /\ consecutive_failures' = 0
    /\ consecutive_successes' = 0
    /\ UNCHANGED <<sinceOpen, inflight, upstreamUp, streakVars, sinceTrip>>

Tick ==
    /\ sinceOpen < OpenTicks \/ sinceTrip < OpenTicks
    /\ sinceOpen' = Capped(sinceOpen + 1, OpenTicks)
    /\ sinceTrip' = Capped(sinceTrip + 1, OpenTicks)
    /\ UNCHANGED <<state, consecutive_failures, consecutive_successes,
                   inflight, upstreamUp, streakVars>>

UpstreamChange ==
    /\ upstreamUp' = ~upstreamUp
    /\ UNCHANGED <<breakerVars, inflight, streakVars, sinceTrip>>

BreakerNext ==
    \/ \E r \in Callers : AllowRequest(r) \/ Succeed(r) \/ Fail(r)
    \/ Reset
    \/ Tick
    \/ UpstreamChange

BreakerSpec == BreakerInit /\ [][BreakerNext]_circuitVars

\* Every request that was admitted reports in the end, traffic keeps coming
\* and time passes.  Nothing makes the upstream recover.
BreakerFairness ==
    /\ \A r \in Callers :
          /\ WF_circuitVars(AllowRequest(r))
          /\ WF_circuitVars(Succeed(r) \/ Fail(r))
    /\ WF_circuitVars(Tick)

BreakerFairSpec == BreakerSpec /\ BreakerFairness

-----------------------------------------------------------------------------
(* Properties.                                                             *)

\* Every variable has its type.
BreakerTypeOK ==
    /\ state \in States
    /\ consecutive_failures \in 0..FailureThreshold
    /\ consecutive_successes \in 0..SuccessThreshold
    /\ sinceOpen \in 0..OpenTicks
    /\ inflight \in [Callers -> Admissions]
    /\ upstreamUp \in BOOLEAN
    /\ failStreak \in 0..FailureThreshold
    /\ okStreak \in 0..SuccessThreshold
    /\ sinceTrip \in 0..OpenTicks

\* record_failure() and record_success() count only in the state that owns
\* the counter, and every transition clears both: a counter left over from an
\* earlier state never counts towards a later decision, and neither counter
\* can reach its threshold (so a 32-bit counter cannot wrap).
CountersBelongToState ==
    /\ state # "Closed" => consecutive_failures = 0
    /\ state # "HalfOpen" => consecutive_successes = 0
    /\ consecutive_failures < AtLeastOne(FailureThreshold)
    /\ consecutive_successes < AtLeastOne(SuccessThreshold)

\* record_failure() opens a closed breaker only when the last
\* failure_threshold reports, over all requests in flight, were failures.
OpensOnlyAfterStreak ==
    [][state = "Closed" /\ state' = "Open" => failStreak' = FailureThreshold]_circuitVars

\* Unless reset() was called, the breaker closes only when the last
\* success_threshold reports were successes.
ClosesOnlyAfterSuccesses ==
    [][state # "Closed" /\ state' = "Closed" /\ inflight' # inflight
         => okStreak' = SuccessThreshold]_circuitVars

\* allow_request() admits nothing through an open breaker until open_timeout
\* has passed since it last opened, however often it opened before.
CoolDownRespected ==
    [][state = "Open" /\ state' = "HalfOpen" => sinceTrip >= OpenTicks]_circuitVars

\* Once the upstream stays up, the breaker ends up closed for good: no
\* interleaving of late reports, probes and timeouts leaves it stuck.
Recovers == <>[]upstreamUp => <>[](state = "Closed")

\* The state diagram of the architecture document: the breaker leaves
\* HalfOpen because of what its probes reported.
HalfOpenLeavesByProbes ==
    [][\A r \in Callers :
         /\ state = "HalfOpen" /\ state' # "HalfOpen"
         /\ inflight[r] # "idle" /\ inflight'[r] = "idle"
         => inflight[r] = "probe"]_circuitVars
=============================================================================
