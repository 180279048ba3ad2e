------------------------ MODULE CircuitBreakerProofs ------------------------
(***************************************************************************)
(* Proofs about CircuitBreaker, for every set of requests and all values   *)
(* of the thresholds, the open timeout and the clock resolution.           *)
(***************************************************************************)
EXTENDS CircuitBreaker, TLAPS

\* What the ghosts have to do with the code's own variables: a counter never
\* exceeds the streak of reports it is meant to count, and the code's clock
\* agrees with the time since the breaker really opened.
GhostsAgree ==
    /\ state = "Closed" => consecutive_failures <= failStreak
    /\ state = "HalfOpen" => consecutive_successes <= okStreak
    /\ sinceOpen = sinceTrip

\* The inductive invariant.
IInv == BreakerTypeOK /\ CountersBelongToState /\ GhostsAgree

\* The number of ticks in OpenTimeout seconds is a natural number.
LEMMA OpenTicksNat == OpenTicks \in Nat
BY ClockAssumption DEF OpenTicks

\* duration_cast<seconds> truncates, so a truncated time that reaches a whole
\* number of seconds is at least that long.
LEMMA TruncatedElapsed ==
    ASSUME NEW t \in Nat, NEW u \in Nat \ {0}, NEW s \in Nat, t \div u >= s
    PROVE  t >= s * u
<1> DEFINE q == t \div u
<1>1. q \in Nat
  OBVIOUS
<1>2. t >= q * u
  OBVIOUS
<1>3. q * u >= s * u
  <2> HIDE DEF q
  <2>1. PICK d \in Nat : q = s + d
    BY <1>1 DEF q
  <2>2. q * u = s * u + d * u /\ d * u \in Nat /\ s * u \in Nat
    BY <2>1
  <2> QED BY <2>2
<1>4. s * u \in Nat /\ q * u \in Nat
  BY <1>1
<1> QED BY <1>2, <1>3, <1>4

\* The initial state of the constructor satisfies the inductive invariant.
LEMMA InitIInv == BreakerInit => IInv
BY OpenTicksNat, ThresholdAssumption
   DEF BreakerInit, IInv, BreakerTypeOK, CountersBelongToState, GhostsAgree, States,
       Admissions, AtLeastOne

\* Every action preserves the inductive invariant.
LEMMA NextIInv == IInv /\ [BreakerNext]_circuitVars => IInv'
<1> SUFFICES ASSUME IInv, [BreakerNext]_circuitVars PROVE IInv'
  OBVIOUS
<1> USE OpenTicksNat, ThresholdAssumption
    DEF IInv, BreakerTypeOK, CountersBelongToState, GhostsAgree, States, Admissions,
        AtLeastOne
<1>1. ASSUME NEW r \in Callers, AllowRequest(r) PROVE IInv'
  BY <1>1 DEF AllowRequest, Admit, TransitionToHalfOpen, breakerVars, streakVars
<1>2. ASSUME NEW r \in Callers, Succeed(r) PROVE IInv'
  BY <1>2 DEF Succeed, RecordSuccess, Admit, NoteTrip, Capped,
              TransitionToClosed, breakerVars
<1>3. ASSUME NEW r \in Callers, Fail(r) PROVE IInv'
  BY <1>3 DEF Fail, RecordFailure, Admit, NoteTrip, Capped,
              TransitionToOpen, breakerVars
<1>4. CASE Reset
  BY <1>4 DEF Reset, streakVars
<1>5. CASE Tick
  BY <1>5 DEF Tick, Capped, streakVars
<1>6. CASE UpstreamChange
  BY <1>6 DEF UpstreamChange, breakerVars, streakVars
<1>7. CASE UNCHANGED circuitVars
  BY <1>7 DEF circuitVars, breakerVars, streakVars
<1> QED BY <1>1, <1>2, <1>3, <1>4, <1>5, <1>6, <1>7 DEF BreakerNext

\* The inductive invariant holds in every reachable state.
THEOREM Inductive == BreakerSpec => []IInv
BY InitIInv, NextIInv, PTL DEF BreakerSpec

\* Type correctness of the breaker.
THEOREM TypeCorrect == BreakerSpec => []BreakerTypeOK
<1>1. IInv => BreakerTypeOK
  BY DEF IInv
<1> QED BY <1>1, Inductive, PTL

\* record_failure() and record_success() never let a counter survive the
\* state that owns it, nor reach its threshold.
THEOREM CountersCorrect == BreakerSpec => []CountersBelongToState
<1>1. IInv => CountersBelongToState
  BY DEF IInv
<1> QED BY <1>1, Inductive, PTL

\* record_failure() opens a closed breaker only after failure_threshold
\* failures in a row.
THEOREM OpensCorrect == BreakerSpec => OpensOnlyAfterStreak
<1>1. IInv /\ [BreakerNext]_circuitVars =>
        [state = "Closed" /\ state' = "Open" => failStreak' = FailureThreshold]_circuitVars
  <2> SUFFICES ASSUME IInv, BreakerNext, state = "Closed", state' = "Open"
               PROVE  failStreak' = FailureThreshold
    BY DEF circuitVars, breakerVars
  <2>1. PICK r \in Callers : Fail(r)
    BY DEF BreakerNext, AllowRequest, Succeed, RecordSuccess, TransitionToHalfOpen,
           TransitionToClosed, Reset, Tick, UpstreamChange, breakerVars
  <2>2. consecutive_failures + 1 >= FailureThreshold
    BY <2>1 DEF Fail, RecordFailure
  <2> QED BY <2>1, <2>2, ThresholdAssumption
          DEF Fail, Capped, IInv, GhostsAgree, BreakerTypeOK
<1> QED BY <1>1, Inductive, PTL DEF BreakerSpec, OpensOnlyAfterStreak

\* record_success() closes the breaker only after success_threshold successes
\* in a row.
THEOREM ClosesCorrect == BreakerSpec => ClosesOnlyAfterSuccesses
<1>1. IInv /\ [BreakerNext]_circuitVars =>
        [state # "Closed" /\ state' = "Closed" /\ inflight' # inflight
           => okStreak' = SuccessThreshold]_circuitVars
  <2> SUFFICES ASSUME IInv, BreakerNext, state # "Closed", state' = "Closed",
                      inflight' # inflight
               PROVE  okStreak' = SuccessThreshold
    BY DEF circuitVars, breakerVars
  <2>1. PICK r \in Callers : Succeed(r)
    BY DEF BreakerNext, AllowRequest, Fail, RecordFailure, TransitionToHalfOpen,
           TransitionToOpen, Reset, Tick, UpstreamChange, breakerVars
  <2>2. state = "HalfOpen" /\ consecutive_successes + 1 >= SuccessThreshold
    BY <2>1 DEF Succeed, RecordSuccess, breakerVars
  <2> QED BY <2>1, <2>2, ThresholdAssumption
          DEF Succeed, Capped, IInv, GhostsAgree, BreakerTypeOK
<1> QED BY <1>1, Inductive, PTL DEF BreakerSpec, ClosesOnlyAfterSuccesses

\* allow_request() lets nothing through an open breaker before open_timeout
\* has passed since it opened.
THEOREM CoolDownCorrect == BreakerSpec => CoolDownRespected
<1>1. IInv /\ [BreakerNext]_circuitVars =>
        [state = "Open" /\ state' = "HalfOpen" => sinceTrip >= OpenTicks]_circuitVars
  <2> SUFFICES ASSUME IInv, BreakerNext, state = "Open", state' = "HalfOpen"
               PROVE  sinceTrip >= OpenTicks
    BY DEF circuitVars, breakerVars
  <2>1. sinceOpen \div TicksPerSecond >= OpenTimeout
    BY DEF BreakerNext, AllowRequest, Succeed, RecordSuccess, Fail, RecordFailure,
           Reset, Tick, UpstreamChange, TimeoutElapsed, breakerVars
  <2>2. sinceOpen = sinceTrip /\ sinceOpen \in Nat
    BY OpenTicksNat DEF IInv, GhostsAgree, BreakerTypeOK
  <2> QED BY <2>1, <2>2, TruncatedElapsed, ClockAssumption DEF OpenTicks
<1> QED BY <1>1, Inductive, PTL DEF BreakerSpec, CoolDownRespected
=============================================================================
