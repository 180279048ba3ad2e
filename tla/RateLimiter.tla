---------------------------- MODULE RateLimiter -----------------------------
(***************************************************************************)
(* The token bucket of src/resilience/rate_limiter.cpp.                    *)
(*                                                                         *)
(* Time is counted in ticks.  tokens_ is a double: here it is counted in   *)
(* units, Grain to a tick at rate 1, and a refill that adds something may  *)
(* be off by up to Rounding units either way, since the interval, its      *)
(* product with the rate and the sum are all rounded.  Rounding to nearest *)
(* is monotone, so a refill never takes tokens away; adding 0.0 and        *)
(* subtracting 1.0 from at least 1.0 are exact.                            *)
(*                                                                         *)
(* An observer opens a window at any time and counts what is granted from  *)
(* then on: what holds of its window holds of every window.                *)
(***************************************************************************)
EXTENDS Integers

CONSTANTS
    Rate,               \* config_.requests_per_second
    Burst,              \* config_.burst_size
    TicksPerSecond,     \* resolution of steady_clock
    Grain,              \* units that one tick yields at rate 1
    Rounding,           \* bound on the error of one refill, in units
    MaxTime             \* bound on the clock

ASSUME ConfigAssumption == Rate \in Nat /\ Burst \in Nat
ASSUME ClockAssumption  == TicksPerSecond \in Nat \ {0} /\ MaxTime \in Nat
ASSUME DoubleAssumption == Grain \in Nat \ {0} /\ Rounding \in Nat

VARIABLES
    now,            \* steady_clock::now()
    tokens,         \* tokens_, in units
    last_refill,    \* last_refill_time_
    windowStart,    \* ghost: when the observer opened its window
    granted,        \* ghost: requests granted in the window
    refills,        \* ghost: rounded refills in the window
    lastGrant,      \* ghost: time of the last grant
    polls           \* ghost: rounded refills since the last grant

bucketVars  == <<tokens, last_refill>>
windowVars  == <<windowStart, granted, refills>>
grantVars   == <<lastGrant, polls>>
limiterVars == <<now, bucketVars, windowVars, grantVars>>

Token    == TicksPerSecond * Grain
Capacity == Burst * Token
Yield(ticks) == Rate * Grain * ticks

BucketInit ==
    /\ now = 0
    /\ tokens = Capacity
    /\ last_refill = 0
    /\ windowStart = 0
    /\ granted = 0
    /\ refills = 0
    /\ lastGrant = 0
    /\ polls = 0

-----------------------------------------------------------------------------
Elapsed == now - last_refill

\* Adding 0.0 is exact.
Slack == IF Elapsed = 0 THEN 0 ELSE Rounding

\* What tokens_ + tokens_to_add may be.
Sums ==
    {total \in tokens + Yield(Elapsed) - Slack .. tokens + Yield(Elapsed) + Slack :
        total >= tokens}

Refills_Uncapped == Sums

\* std::min(tokens_ + tokens_to_add, burst_size)
Refills == {IF total <= Capacity THEN total ELSE Capacity : total \in Sums}

\* One more refill that had something to add.
Counted(n) == IF Elapsed = 0 THEN n ELSE n + 1

Grant_FreeOfCharge(filled) ==
    /\ filled >= Token
    /\ tokens' = filled
    /\ granted' = granted + 1
    /\ lastGrant' = now
    /\ polls' = 0

Grant(filled) ==
    /\ filled >= Token
    /\ tokens' = filled - Token
    /\ granted' = granted + 1
    /\ lastGrant' = now
    /\ polls' = 0

Reject_LosesRefill(filled) ==
    /\ ~(filled >= Token)
    /\ polls' = Counted(polls)
    /\ UNCHANGED <<tokens, granted, lastGrant>>

Reject(filled) ==
    /\ ~(filled >= Token)
    /\ tokens' = filled
    /\ polls' = Counted(polls)
    /\ UNCHANGED <<granted, lastGrant>>

CheckAllow ==
    /\ \E filled \in Refills : Grant(filled) \/ Reject(filled)
    /\ last_refill' = now
    /\ refills' = Counted(refills)
    /\ UNCHANGED <<now, windowStart>>

\* reset() fills the bucket: the observer has to start again.
BucketReset ==
    /\ tokens' = Capacity
    /\ last_refill' = now
    /\ windowStart' = now
    /\ granted' = 0
    /\ refills' = 0
    /\ lastGrant' = now
    /\ polls' = 0
    /\ UNCHANGED now

OpenWindow ==
    /\ windowStart' = now
    /\ granted' = 0
    /\ refills' = 0
    /\ UNCHANGED <<now, bucketVars, grantVars>>

BucketTick ==
    /\ now < MaxTime
    /\ now' = now + 1
    /\ UNCHANGED <<bucketVars, windowVars, grantVars>>

BucketNext == CheckAllow \/ BucketReset \/ OpenWindow \/ BucketTick

BucketSpec == BucketInit /\ [][BucketNext]_limiterVars

-----------------------------------------------------------------------------
(* Properties.                                                             *)

\* Every variable has its type; the bucket never holds more than the burst
\* and never goes into debt.
BucketTypeOK ==
    /\ now \in 0..MaxTime
    /\ tokens \in 0..Capacity
    /\ last_refill \in 0..now
    /\ windowStart \in 0..now
    /\ granted \in Nat
    /\ refills \in Nat
    /\ lastGrant \in 0..now
    /\ polls \in Nat

\* What check_allow() promises: in any interval it grants at most a burst
\* plus what the rate yields in that interval, however the calls are spaced,
\* up to the rounding errors of the refills in the interval.
WindowConformance ==
    granted * Token <= Capacity + Yield(now - windowStart) + Rounding * refills

\* A caller is never starved by rejected calls: check_allow() grants again
\* once the rate has yielded a token since the last grant and, beyond it, the
\* rounding error of each refill that the rejected calls and this one make.
\* Without that margin it may reject: ten refills by a hundredth of a second
\* at rate 10 add up to less than 1.0.
ReadyAfterRefill ==
    /\ Burst > 0
    /\ Yield(now - lastGrant) >= Token + Rounding * Counted(polls)
    => \A filled \in Refills : filled >= Token
=============================================================================
