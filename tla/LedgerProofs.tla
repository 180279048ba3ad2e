----------------------------- MODULE LedgerProofs ----------------------------
(***************************************************************************)
(* Proofs about the two components that keep an account: RateLimiter, which *)
(* may grant no more than was earned, for every rate, burst and clock      *)
(* resolution, and Metrics, which may print no more than was recorded and  *)
(* lose nothing that was, for any number of workers, observers and records. *)
(* They share no state; the arithmetic of sums in between is Metrics' own. *)
(***************************************************************************)
EXTENDS RateLimiter, Metrics, SequenceTheorems, WellFoundedInduction, TLAPS

-----------------------------------------------------------------------------
(* The limiter: nothing is granted that the bucket did not earn, but for   *)
(* the rounding errors of its refills, which are counted on both sides.    *)

\* What was granted in the window plus what is still in the bucket never
\* exceeds a burst plus what the rate yielded up to the last refill, and the
\* rounding errors.  Before the first call in the window nothing is granted.
Ledger ==
    /\ last_refill < windowStart => granted = 0
    /\ last_refill >= windowStart =>
         granted * Token + tokens
            <= Capacity + Yield(last_refill - windowStart) + Rounding * refills

\* The bucket holds all that the rate yielded since the last grant, but for
\* the rounding errors.
Saved ==
    \/ tokens = Capacity
    \/ tokens + Rounding * polls >= Yield(last_refill - lastGrant)

\* The last grant was charged to the bucket, so it is not after the refill.
GrantBeforeRefill == lastGrant <= last_refill

\* The inductive invariant.
BucketIInv == BucketTypeOK /\ Ledger /\ Saved /\ GrantBeforeRefill

\* What the bucket can hold, and a token of it.
LEMMA CapacityNat == Capacity \in Nat /\ Token \in Nat \ {0}
<1>1. TicksPerSecond * Grain \in Nat \ {0}
  BY ClockAssumption, DoubleAssumption
<1> QED BY <1>1, ConfigAssumption DEF Capacity, Token

\* Yield is additive and monotone: what the rate yields over two adjoining
\* intervals is what it yields over both together.
LEMMA YieldAdds ==
    ASSUME NEW a \in Nat, NEW b \in Nat, NEW c \in Nat, a <= b, b <= c
    PROVE  /\ Yield(c - a) = Yield(c - b) + Yield(b - a)
           /\ Yield(c - b) \in Nat
           /\ Yield(b - a) \in Nat
<1>1. PICK m \in Nat : m = Rate * Grain
  BY ConfigAssumption, DoubleAssumption
<1>2. \A d : Yield(d) = m * d
  BY <1>1 DEF Yield
<1>3. PICK x \in Nat : x = c - b
  OBVIOUS
<1>4. PICK y \in Nat : y = b - a
  OBVIOUS
<1>5. c - a = x + y
  BY <1>3, <1>4
<1>6. m * (x + y) = m * x + m * y /\ m * x \in Nat /\ m * y \in Nat
  OBVIOUS
<1> QED BY <1>2, <1>3, <1>4, <1>5, <1>6

\* No interval, no yield.
LEMMA NoYield == Yield(0) = 0
BY ConfigAssumption, DoubleAssumption DEF Yield

\* The rounding errors of one refill more.
LEMMA CountedAdds ==
    ASSUME NEW n \in Nat
    PROVE  /\ Counted(n) \in Nat
           /\ Rounding * n \in Nat
           /\ Rounding * Counted(n) = Rounding * n + Slack
<1>1. Rounding * (n + 1) = Rounding * n + Rounding /\ Rounding * n \in Nat
  BY DoubleAssumption
<1> QED BY <1>1, DoubleAssumption DEF Counted, Slack

\* A refill stays within the bucket, takes nothing from it, and adds what the
\* rate yields, but for one rounding error.
LEMMA RefillBounds ==
    ASSUME BucketIInv, NEW filled \in Refills
    PROVE  /\ filled \in Nat /\ filled <= Capacity
           /\ filled <= tokens + Yield(Elapsed) + Slack
           /\ \/ filled = Capacity
              \/ filled + Slack >= tokens + Yield(Elapsed)
<1>1. /\ tokens \in Nat /\ tokens <= Capacity /\ Capacity \in Nat
      /\ Slack \in Nat
  BY CapacityNat, ClockAssumption, DoubleAssumption DEF BucketIInv, BucketTypeOK, Slack
<1>2. Yield(Elapsed) \in Nat
  <2>1. last_refill \in Nat /\ now \in Nat /\ last_refill <= now
    BY ClockAssumption DEF BucketIInv, BucketTypeOK
  <2> QED BY <2>1, YieldAdds DEF Elapsed
<1>3. PICK y \in Nat : y = Yield(Elapsed)
  BY <1>2
<1>4. PICK e \in Nat : e = Slack
  BY <1>1
<1>5. PICK total \in Sums : filled = IF total <= Capacity THEN total ELSE Capacity
  BY DEF Refills
<1>6. total \in tokens + y - e .. tokens + y + e /\ total >= tokens
  BY <1>3, <1>4, <1>5 DEF Sums
<1>7. total \in Int /\ total <= tokens + y + e /\ total + e >= tokens + y
  BY <1>1, <1>6
<1> QED BY <1>1, <1>3, <1>4, <1>5, <1>6, <1>7

\* The constructor's full bucket satisfies the inductive invariant.
LEMMA BucketInitIInv == BucketInit => BucketIInv
<1> SUFFICES ASSUME BucketInit PROVE BucketIInv
  OBVIOUS
<1>1. Capacity \in Nat /\ Token \in Nat /\ MaxTime \in Nat /\ Rounding \in Nat
      /\ Rounding * 0 = 0 /\ 0 * Token = 0
  BY CapacityNat, ClockAssumption, DoubleAssumption
<1>2. BucketTypeOK /\ Saved /\ GrantBeforeRefill
  BY <1>1 DEF BucketInit, BucketTypeOK, Saved, GrantBeforeRefill
<1>3. Ledger
  BY <1>1, NoYield DEF BucketInit, Ledger
<1> QED BY <1>2, <1>3 DEF BucketIInv

\* The types of the variables and constants, in one place.
LEMMA BucketNumbers ==
    ASSUME BucketIInv
    PROVE  /\ Capacity \in Nat
           /\ Token \in Nat \ {0}
           /\ Rounding \in Nat
           /\ now \in Nat /\ now <= MaxTime /\ MaxTime \in Nat
           /\ tokens \in Nat /\ tokens <= Capacity
           /\ last_refill \in Nat /\ last_refill <= now
           /\ windowStart \in Nat /\ windowStart <= now
           /\ lastGrant \in Nat /\ lastGrant <= last_refill
           /\ granted \in Nat /\ refills \in Nat /\ polls \in Nat
           /\ granted * Token \in Nat
           /\ Rounding * refills \in Nat /\ Rounding * polls \in Nat
<1>1. /\ Capacity \in Nat
      /\ Token \in Nat \ {0}
      /\ Rounding \in Nat
      /\ now \in Nat /\ now <= MaxTime /\ MaxTime \in Nat
      /\ tokens \in Nat /\ tokens <= Capacity
      /\ last_refill \in Nat /\ last_refill <= now
      /\ windowStart \in Nat /\ windowStart <= now
      /\ lastGrant \in Nat /\ lastGrant <= last_refill
      /\ granted \in Nat /\ refills \in Nat /\ polls \in Nat
  BY CapacityNat, ClockAssumption, DoubleAssumption
     DEF BucketIInv, BucketTypeOK, GrantBeforeRefill
<1>2. \A m, n \in Nat : m * n \in Nat
  OBVIOUS
<1> QED BY <1>1, <1>2

\* After the refill of a call the account still balances.
LEMMA LedgerAfterRefill ==
    ASSUME BucketIInv, NEW filled \in Refills
    PROVE  granted * Token + filled
              <= Capacity + Yield(now - windowStart) + Rounding * Counted(refills)
<1>0. /\ Slack \in Nat /\ Rounding * Counted(refills) = Rounding * refills + Slack
  BY BucketNumbers, CountedAdds DEF Slack
<1>1. filled \in Nat /\ filled <= Capacity /\ filled <= tokens + Yield(Elapsed) + Slack
  BY RefillBounds
<1>2. CASE last_refill < windowStart
  <2>1. granted * Token = 0
    BY <1>2, BucketNumbers DEF BucketIInv, Ledger
  <2>2. Yield(now - windowStart) \in Nat
    BY BucketNumbers, YieldAdds
  <2> QED BY <1>0, <1>1, <2>1, <2>2, BucketNumbers
<1>3. CASE last_refill >= windowStart
  <2>1. granted * Token + tokens
           <= Capacity + Yield(last_refill - windowStart) + Rounding * refills
    BY <1>3 DEF BucketIInv, Ledger
  <2>2. /\ Yield(now - windowStart) = Yield(Elapsed) + Yield(last_refill - windowStart)
        /\ Yield(Elapsed) \in Nat /\ Yield(last_refill - windowStart) \in Nat
    BY <1>3, BucketNumbers, YieldAdds DEF Elapsed
  <2> QED BY <1>0, <1>1, <2>1, <2>2, BucketNumbers
<1> QED BY <1>2, <1>3, BucketNumbers

\* After the refill of a call the bucket still has what was earned.
LEMMA SavedAfterRefill ==
    ASSUME BucketIInv, NEW filled \in Refills
    PROVE  \/ filled = Capacity
           \/ filled + Rounding * Counted(polls) >= Yield(now - lastGrant)
<1>0. /\ Slack \in Nat /\ Rounding * Counted(polls) = Rounding * polls + Slack
  BY BucketNumbers, CountedAdds DEF Slack
<1>1. /\ filled \in Nat /\ filled <= Capacity
      /\ filled = Capacity \/ filled + Slack >= tokens + Yield(Elapsed)
  BY RefillBounds
<1>2. /\ Yield(now - lastGrant) = Yield(Elapsed) + Yield(last_refill - lastGrant)
      /\ Yield(Elapsed) \in Nat /\ Yield(last_refill - lastGrant) \in Nat
  BY BucketNumbers, YieldAdds DEF Elapsed
<1>3. CASE tokens = Capacity
  <2>1. \A total \in Sums : total >= Capacity /\ total \in Int
    BY <1>0, <1>2, <1>3, BucketNumbers DEF Sums
  <2> QED BY <2>1, BucketNumbers DEF Refills
<1>4. CASE tokens + Rounding * polls >= Yield(last_refill - lastGrant)
  BY <1>0, <1>1, <1>2, <1>4, BucketNumbers
<1> QED BY <1>3, <1>4 DEF BucketIInv, Saved

\* check_allow(), granting or rejecting, preserves the inductive invariant.
LEMMA BucketCheckIInv == BucketIInv /\ CheckAllow => BucketIInv'
<1> SUFFICES ASSUME BucketIInv, CheckAllow PROVE BucketIInv'
  OBVIOUS
<1>1. /\ now' = now /\ windowStart' = windowStart /\ last_refill' = now
      /\ refills' = Counted(refills)
  BY DEF CheckAllow
<1>2. PICK filled \in Refills : Grant(filled) \/ Reject(filled)
  BY DEF CheckAllow
<1>3. /\ filled \in Nat /\ filled <= Capacity
      /\ Counted(refills) \in Nat /\ Counted(polls) \in Nat
  BY RefillBounds, BucketNumbers, CountedAdds
<1>4. granted * Token + filled
         <= Capacity + Yield(now - windowStart) + Rounding * Counted(refills)
  BY LedgerAfterRefill
<1>5. CASE Grant(filled)
  <2>1. /\ tokens' = filled - Token /\ granted' = granted + 1
        /\ lastGrant' = now /\ polls' = 0 /\ filled >= Token
    BY <1>5 DEF Grant
  <2>2. tokens' \in 0..Capacity
    BY <1>3, <2>1, BucketNumbers
  <2>3. BucketTypeOK'
    BY <1>1, <1>3, <2>1, <2>2, BucketNumbers DEF BucketTypeOK, Capacity, Token
  <2>4. granted' * Token + tokens' = granted * Token + filled
    <3>1. (granted + 1) * Token = granted * Token + Token
      BY BucketNumbers
    <3> QED BY <1>3, <2>1, <3>1, BucketNumbers
  <2>5. Ledger'
    BY <1>1, <1>4, <2>4, BucketNumbers DEF Ledger, Capacity, Token, Yield
  <2>6. Saved'
    <3>1. Yield(now - now) = 0 /\ Rounding * 0 = 0
      BY NoYield, BucketNumbers
    <3>2. tokens' + Rounding * polls' >= Yield(last_refill' - lastGrant')
      BY <1>1, <2>1, <2>2, <3>1, BucketNumbers
    <3> QED BY <3>2 DEF Saved, Capacity, Token, Yield
  <2>7. GrantBeforeRefill'
    BY <1>1, <2>1, BucketNumbers DEF GrantBeforeRefill
  <2> QED BY <2>3, <2>5, <2>6, <2>7 DEF BucketIInv
<1>6. CASE Reject(filled)
  <2>1. /\ tokens' = filled /\ granted' = granted /\ lastGrant' = lastGrant
        /\ polls' = Counted(polls)
    BY <1>6 DEF Reject
  <2>2. tokens' \in 0..Capacity
    BY <1>3, <2>1, BucketNumbers
  <2>3. BucketTypeOK'
    BY <1>1, <1>3, <2>1, <2>2, BucketNumbers DEF BucketTypeOK, Capacity, Token
  <2>4. Ledger'
    BY <1>1, <1>4, <2>1, BucketNumbers DEF Ledger, Capacity, Token, Yield
  <2>5. Saved'
    BY <1>1, <2>1, SavedAfterRefill DEF Saved, Capacity, Token, Yield
  <2>6. GrantBeforeRefill'
    BY <1>1, <2>1, BucketNumbers DEF GrantBeforeRefill
  <2> QED BY <2>3, <2>4, <2>5, <2>6 DEF BucketIInv
<1> QED BY <1>2, <1>5, <1>6

\* reset() fills the bucket and starts the account anew.
LEMMA BucketResetIInv == BucketIInv /\ BucketReset => BucketIInv'
<1> SUFFICES ASSUME BucketIInv, BucketReset PROVE BucketIInv'
  OBVIOUS
<1>1. /\ tokens' = Capacity /\ last_refill' = now /\ windowStart' = now /\ now' = now
      /\ granted' = 0 /\ refills' = 0 /\ lastGrant' = now /\ polls' = 0
  BY DEF BucketReset
<1>2. Yield(now - now) = 0 /\ Rounding * 0 = 0 /\ 0 * Token = 0
  BY NoYield, BucketNumbers
<1>3. BucketTypeOK' /\ GrantBeforeRefill'
  BY <1>1, BucketNumbers DEF BucketTypeOK, GrantBeforeRefill, Capacity, Token
<1>4. granted' * Token + tokens'
         <= Capacity + Yield(last_refill' - windowStart') + Rounding * refills'
  BY <1>1, <1>2, BucketNumbers
<1>5. Ledger'
  BY <1>1, <1>4, BucketNumbers DEF Ledger, Capacity, Token, Yield
<1>6. Saved'
  BY <1>1 DEF Saved, Capacity, Token
<1> QED BY <1>3, <1>5, <1>6 DEF BucketIInv

\* A new window starts with a bucket that holds at most a burst.
LEMMA OpenWindowIInv == BucketIInv /\ OpenWindow => BucketIInv'
<1> SUFFICES ASSUME BucketIInv, OpenWindow PROVE BucketIInv'
  OBVIOUS
<1>1. /\ UNCHANGED <<now, tokens, last_refill, lastGrant, polls>>
      /\ windowStart' = now /\ granted' = 0 /\ refills' = 0
  BY DEF OpenWindow, bucketVars, grantVars
<1>2. BucketTypeOK' /\ GrantBeforeRefill' /\ Saved'
  BY <1>1, BucketNumbers
     DEF BucketIInv, BucketTypeOK, GrantBeforeRefill, Saved, Capacity, Token, Yield
<1>3. Ledger'
  <2>1. last_refill' < windowStart' \/ last_refill' = windowStart'
    BY <1>1, BucketNumbers
  <2>2. Yield(last_refill' - windowStart') = 0 \/ last_refill' < windowStart'
    <3>1. CASE last_refill' = windowStart'
      <4>1. last_refill' - windowStart' = 0
        BY <1>1, <3>1, BucketNumbers
      <4> QED BY <4>1, NoYield
    <3> QED BY <2>1, <3>1
  <2>3. Rounding * 0 = 0 /\ 0 * Token = 0
    BY BucketNumbers
  <2>4. \/ last_refill' < windowStart'
        \/ granted' * Token + tokens'
              <= Capacity + Yield(last_refill' - windowStart') + Rounding * refills'
    BY <1>1, <2>2, <2>3, BucketNumbers
  <2> QED BY <1>1, <2>1, <2>4, BucketNumbers DEF Ledger, Capacity, Token, Yield
<1> QED BY <1>2, <1>3 DEF BucketIInv

\* Every action preserves the inductive invariant.
LEMMA BucketNextIInv == BucketIInv /\ [BucketNext]_limiterVars => BucketIInv'
<1> SUFFICES ASSUME BucketIInv, [BucketNext]_limiterVars PROVE BucketIInv'
  OBVIOUS
<1>1. CASE BucketTick
  <2>1. /\ now' = now + 1 /\ now < MaxTime
        /\ UNCHANGED <<tokens, last_refill, windowStart, granted, refills, lastGrant, polls>>
    BY <1>1 DEF BucketTick, bucketVars, windowVars, grantVars
  <2>2. BucketTypeOK'
    BY <2>1, BucketNumbers DEF BucketTypeOK, Capacity, Token
  <2>3. Ledger' /\ Saved' /\ GrantBeforeRefill'
    BY <2>1 DEF BucketIInv, Ledger, Saved, GrantBeforeRefill, Capacity, Token, Yield
  <2> QED BY <2>2, <2>3 DEF BucketIInv
<1>2. CASE UNCHANGED limiterVars
  BY <1>2 DEF limiterVars, bucketVars, windowVars, grantVars, BucketIInv, BucketTypeOK,
              Ledger, Saved, GrantBeforeRefill, Capacity, Token, Yield
<1> QED BY <1>1, <1>2, BucketCheckIInv, BucketResetIInv, OpenWindowIInv DEF BucketNext

\* The inductive invariant holds in every reachable state.
THEOREM BucketInductive == BucketSpec => []BucketIInv
BY BucketInitIInv, BucketNextIInv, PTL DEF BucketSpec

\* Type correctness: the bucket stays between empty and the burst.
THEOREM BucketTypeCorrect == BucketSpec => []BucketTypeOK
<1>1. BucketIInv => BucketTypeOK
  BY DEF BucketIInv
<1> QED BY <1>1, BucketInductive, PTL

\* check_allow() grants at most a burst plus the rate's yield in any window,
\* up to the rounding errors of the window's refills, for every bound on them.
THEOREM WindowConformanceCorrect == BucketSpec => []WindowConformance
<1>1. BucketIInv => WindowConformance
  <2> SUFFICES ASSUME BucketIInv PROVE WindowConformance
    OBVIOUS
  <2>1. CASE last_refill < windowStart
    <3>1. granted * Token = 0
      BY <2>1, BucketNumbers DEF BucketIInv, Ledger
    <3>2. Yield(now - windowStart) \in Nat
      BY BucketNumbers, YieldAdds
    <3> QED BY <3>1, <3>2, BucketNumbers DEF WindowConformance
  <2>2. CASE last_refill >= windowStart
    <3>1. granted * Token + tokens
             <= Capacity + Yield(last_refill - windowStart) + Rounding * refills
      BY <2>2 DEF BucketIInv, Ledger
    <3>2. /\ Yield(now - windowStart)
               = Yield(now - last_refill) + Yield(last_refill - windowStart)
          /\ Yield(now - last_refill) \in Nat
          /\ Yield(last_refill - windowStart) \in Nat
      BY <2>2, BucketNumbers, YieldAdds
    <3> QED BY <3>1, <3>2, BucketNumbers DEF WindowConformance
  <2> QED BY <2>1, <2>2, BucketNumbers
<1> QED BY <1>1, BucketInductive, PTL

\* Rejected calls do not starve the caller: once the rate has yielded a token
\* and the rounding errors of the refills since the last grant, every outcome
\* of the next refill is enough for a grant.
THEOREM ReadyAfterRefillCorrect == BucketSpec => []ReadyAfterRefill
<1>1. BucketIInv => ReadyAfterRefill
  <2> SUFFICES ASSUME BucketIInv, Burst > 0, NEW filled \in Refills,
                      Yield(now - lastGrant) >= Token + Rounding * Counted(polls)
               PROVE  filled >= Token
    BY DEF ReadyAfterRefill
  <2>1. Capacity >= Token
    <3>1. PICK b \in Nat : Burst = b + 1
      BY ConfigAssumption
    <3>2. (b + 1) * Token = b * Token + Token /\ b * Token \in Nat
      BY BucketNumbers
    <3> QED BY <3>1, <3>2, BucketNumbers DEF Capacity
  <2>2. /\ filled \in Nat /\ Yield(now - lastGrant) \in Nat
        /\ Rounding * Counted(polls) \in Nat
    <3>1. Yield(now - lastGrant) \in Nat
      <4>1. lastGrant \in Nat /\ now \in Nat /\ lastGrant <= now
        BY BucketNumbers
      <4> QED BY <4>1, YieldAdds
    <3>2. Rounding * Counted(polls) \in Nat
      <4>1. Counted(polls) \in Nat
        BY BucketNumbers, CountedAdds
      <4> QED BY <4>1, CountedAdds
    <3> QED BY <3>1, <3>2, RefillBounds
  <2> QED BY <2>1, <2>2, SavedAfterRefill, BucketNumbers
<1> QED BY <1>1, BucketInductive, PTL

-----------------------------------------------------------------------------
(* Sums of the first values of a function.                                 *)

\* Induction over the natural numbers, for a set in place of a predicate.
LEMMA NatSetInduction ==
    ASSUME NEW S \in SUBSET Nat, 0 \in S, \A n \in S : n + 1 \in S
    PROVE  S = Nat
<1> SUFFICES ASSUME Nat \ S # {} PROVE FALSE
  OBVIOUS
<1>1. PICK least \in Nat \ S :
        \A m \in Nat \ S : ~(<<m, least>> \in OpToRel(<, Nat))
  BY NatLessThanWellFounded, WFMin, Nat \ S \subseteq Nat, Zenon
<1>2. \A m \in Nat \ S : ~(m < least)
  BY <1>1 DEF OpToRel
<1>3. least - 1 \in Nat /\ least - 1 < least
  OBVIOUS
<1>4. least - 1 \in S
  BY <1>2, <1>3
<1>5. (least - 1) + 1 \in S
  BY <1>4
<1> QED BY <1>5

\* f adds up the first n values.
AddsUp(f, values, n) ==
    f = [m \in 0..n |-> IF m = 0 THEN 0 ELSE f[m - 1] + values[m]]

LEMMA AddsUpMeaning ==
    ASSUME NEW values, NEW n \in Nat, NEW f, AddsUp(f, values, n)
    PROVE  /\ f[0] = 0
           /\ \A m \in 0..n : m + 1 <= n => f[m + 1] = f[m] + values[m + 1]
BY DEF AddsUp

\* Such a function exists for every n.
LEMMA AddsUpExists ==
    ASSUME NEW values, NEW n \in Nat
    PROVE  \E f : AddsUp(f, values, n)
<1> DEFINE S == {m \in Nat : \E f : AddsUp(f, values, m)}
<1>1. 0 \in S
  <2> DEFINE f == [m \in 0..0 |-> 0]
  <2>1. AddsUp(f, values, 0)
    BY DEF AddsUp
  <2> QED BY <2>1
<1>2. ASSUME NEW m \in S PROVE m + 1 \in S
  <2>1. PICK f : AddsUp(f, values, m)
    OBVIOUS
  <2>2. m \in Nat
    OBVIOUS
  <2> DEFINE g == [k \in 0..(m + 1) |->
                     IF k = m + 1 THEN f[m] + values[m + 1] ELSE f[k]]
  <2>3. \A k \in 0..m : g[k] = f[k]
    BY <2>2
  <2>4. ASSUME NEW k \in 0..(m + 1)
        PROVE  g[k] = IF k = 0 THEN 0 ELSE g[k - 1] + values[k]
    <3>1. CASE k = m + 1
      <4>1. g[k - 1] = f[m]
        BY <2>2, <2>3, <3>1
      <4> QED BY <2>2, <3>1, <4>1
    <3>2. CASE k = 0
      <4>1. f[0] = 0
        BY <2>1, <2>2, AddsUpMeaning
      <4>2. g[0] = f[0]
        BY <2>2, <2>3
      <4> HIDE DEF g
      <4> QED BY <3>2, <4>1, <4>2
    <3>3. CASE k \in 1..m
      <4>1. k - 1 \in 0..m /\ (k - 1) + 1 = k /\ k \in 0..m
        BY <2>2, <3>3
      <4>2. f[k] = f[k - 1] + values[k]
        BY <2>1, <2>2, <3>3, <4>1, AddsUpMeaning
      <4>3. g[k] = f[k] /\ g[k - 1] = f[k - 1]
        BY <2>3, <4>1
      <4> QED BY <3>3, <4>2, <4>3
    <3> QED BY <2>2, <3>1, <3>2, <3>3
  <2>5. AddsUp(g, values, m + 1)
    <3>1. g = [k \in 0..(m + 1) |-> g[k]]
      OBVIOUS
    <3> HIDE DEF g
    <3> QED BY <2>4, <3>1 DEF AddsUp
  <2> QED BY <2>2, <2>5
<1>3. S = Nat
  <2>1. S \in SUBSET Nat
    OBVIOUS
  <2> HIDE DEF S
  <2> QED BY <1>1, <1>2, <2>1, NatSetInduction
<1> QED BY <1>3

\* Two such functions agree as far as both go.
LEMMA AddsUpAgree ==
    ASSUME NEW values, NEW n \in Nat, NEW k \in Nat, NEW f, NEW g, n <= k,
           AddsUp(f, values, n), AddsUp(g, values, k)
    PROVE  f[n] = g[n]
<1> DEFINE S == {m \in Nat : m <= n => f[m] = g[m]}
<1>1. 0 \in S
  BY AddsUpMeaning
<1>2. ASSUME NEW m \in S PROVE m + 1 \in S
  <2>1. m \in Nat
    OBVIOUS
  <2>2. ASSUME m + 1 <= n PROVE f[m + 1] = g[m + 1]
    <3>1. m \in 0..n /\ m \in 0..k /\ m <= n /\ m + 1 <= k
      BY <2>1, <2>2
    <3>2. f[m + 1] = f[m] + values[m + 1]
      BY <2>2, <3>1, AddsUpMeaning
    <3>3. g[m + 1] = g[m] + values[m + 1]
      BY <3>1, AddsUpMeaning
    <3> QED BY <3>1, <3>2, <3>3
  <2> QED BY <2>1, <2>2
<1>3. S = Nat
  <2>1. S \in SUBSET Nat
    OBVIOUS
  <2> HIDE DEF S
  <2> QED BY <1>1, <1>2, <2>1, NatSetInduction
<1> QED BY <1>3

\* What SumTo computes, value by value.
LEMMA SumToSteps ==
    ASSUME NEW values
    PROVE  /\ SumTo(values, 0) = 0
           /\ \A n \in Nat : SumTo(values, n + 1) = SumTo(values, n) + values[n + 1]
<1>1. ASSUME NEW n \in Nat
      PROVE  \E f : AddsUp(f, values, n) /\ SumTo(values, n) = f[n]
  <2> DEFINE upTo == CHOOSE f : AddsUp(f, values, n)
  <2>1. SumTo(values, n) = upTo[n]
    BY DEF SumTo, AddsUp
  <2>2. AddsUp(upTo, values, n)
    BY AddsUpExists
  <2> QED BY <2>1, <2>2
<1>2. SumTo(values, 0) = 0
  BY <1>1, AddsUpMeaning
<1>3. ASSUME NEW n \in Nat
      PROVE  SumTo(values, n + 1) = SumTo(values, n) + values[n + 1]
  <2>1. PICK f : AddsUp(f, values, n) /\ SumTo(values, n) = f[n]
    BY <1>1
  <2>2. PICK g : AddsUp(g, values, n + 1) /\ SumTo(values, n + 1) = g[n + 1]
    BY <1>1
  <2>3. f[n] = g[n]
    BY <2>1, <2>2, AddsUpAgree
  <2>4. g[n + 1] = g[n] + values[n + 1]
    BY <2>2, AddsUpMeaning
  <2> QED BY <2>1, <2>2, <2>3, <2>4
<1> QED BY <1>2, <1>3

Naturals(values, n) == \A m \in 1..n : values[m] \in Nat

\* A sum of natural numbers is one.
LEMMA SumToNat ==
    ASSUME NEW n \in Nat, NEW values, Naturals(values, n), NEW k \in 0..n
    PROVE  SumTo(values, k) \in Nat
<1> DEFINE S == {m \in Nat : m <= n => SumTo(values, m) \in Nat}
<1>1. 0 \in S
  BY SumToSteps
<1>2. ASSUME NEW m \in S PROVE m + 1 \in S
  BY SumToSteps DEF Naturals
<1>3. S = Nat
  <2>1. S \in SUBSET Nat
    OBVIOUS
  <2> HIDE DEF S
  <2> QED BY <1>1, <1>2, <2>1, NatSetInduction
<1> QED BY <1>3

\* It grows with the number of values.
LEMMA SumToGrows ==
    ASSUME NEW n \in Nat, NEW values, Naturals(values, n), NEW k \in 0..n
    PROVE  SumTo(values, k) <= SumTo(values, n)
<1> DEFINE S == {m \in Nat : k <= m /\ m <= n => SumTo(values, k) <= SumTo(values, m)}
<1>1. 0 \in S
  BY SumToNat
<1>2. ASSUME NEW m \in S PROVE m + 1 \in S
  <2> SUFFICES ASSUME k <= m + 1, m + 1 <= n
               PROVE  SumTo(values, k) <= SumTo(values, m + 1)
    OBVIOUS
  <2>1. /\ m \in Nat /\ values[m + 1] \in Nat
        /\ SumTo(values, m + 1) = SumTo(values, m) + values[m + 1]
    BY SumToSteps DEF Naturals
  <2>2. SumTo(values, k) \in Nat /\ SumTo(values, m) \in Nat /\ SumTo(values, m + 1) \in Nat
    BY <2>1, SumToNat
  <2>3. CASE k = m + 1
    BY <2>2, <2>3
  <2>4. CASE k <= m
    BY <2>1, <2>2, <2>4
  <2> QED BY <2>1, <2>3, <2>4
<1>3. S = Nat
  <2>1. S \in SUBSET Nat
    OBVIOUS
  <2> HIDE DEF S
  <2> QED BY <1>1, <1>2, <2>1, NatSetInduction
<1> QED BY <1>3

\* Sums of values that are at most as large, but for one value at j, which may be
\* larger by one.
LEMMA SumToAlmost ==
    ASSUME NEW n \in Nat, NEW v, NEW w, Naturals(v, n), Naturals(w, n), NEW j \in Nat,
           \A m \in 1..n : w[m] <= v[m] \/ (m = j /\ w[m] <= v[m] + 1)
    PROVE  SumTo(w, n) <= IF j \in 1..n THEN SumTo(v, n) + 1 ELSE SumTo(v, n)
<1> DEFINE S == {m \in Nat : m <= n =>
                    SumTo(w, m) <= IF j \in 1..m THEN SumTo(v, m) + 1 ELSE SumTo(v, m)}
<1>1. 0 \in S
  BY SumToSteps
<1>2. ASSUME NEW m \in S PROVE m + 1 \in S
  <2> SUFFICES ASSUME m + 1 <= n
               PROVE  SumTo(w, m + 1) <= IF j \in 1..(m + 1) THEN SumTo(v, m + 1) + 1
                                                             ELSE SumTo(v, m + 1)
    OBVIOUS
  <2>1. /\ m \in Nat /\ m \in 0..n /\ v[m + 1] \in Nat /\ w[m + 1] \in Nat
        /\ w[m + 1] <= v[m + 1] \/ (m + 1 = j /\ w[m + 1] <= v[m + 1] + 1)
    BY DEF Naturals
  <2>2. SumTo(w, m + 1) = SumTo(w, m) + w[m + 1] /\ SumTo(v, m + 1) = SumTo(v, m) + v[m + 1]
    BY <2>1, SumToSteps
  <2>3. SumTo(w, m) \in Nat /\ SumTo(v, m) \in Nat
    BY <2>1, SumToNat
  <2>4. SumTo(w, m) <= IF j \in 1..m THEN SumTo(v, m) + 1 ELSE SumTo(v, m)
    BY <2>1
  <2> QED BY <2>1, <2>2, <2>3, <2>4
<1>3. S = Nat
  <2>1. S \in SUBSET Nat
    OBVIOUS
  <2> HIDE DEF S
  <2> QED BY <1>1, <1>2, <2>1, NatSetInduction
<1> QED BY <1>3

\* Sums are monotone in their values, and no value exceeds the sum.
LEMMA SumToMonotone ==
    ASSUME NEW n \in Nat, NEW v, NEW w, Naturals(v, n), Naturals(w, n),
           \A m \in 1..n : w[m] <= v[m]
    PROVE  SumTo(w, n) <= SumTo(v, n)
BY SumToAlmost

LEMMA ValueWithinSum ==
    ASSUME NEW n \in Nat, NEW values, Naturals(values, n), NEW k \in 1..n
    PROVE  values[k] <= SumTo(values, n)
<1>1. k - 1 \in 0..n /\ k \in 0..n /\ k - 1 \in Nat /\ (k - 1) + 1 = k
  OBVIOUS
<1>2. SumTo(values, k) = SumTo(values, k - 1) + values[k]
  BY <1>1, SumToSteps
<1>3. SumTo(values, k - 1) \in Nat /\ SumTo(values, k) <= SumTo(values, n)
      /\ SumTo(values, k) \in Nat /\ SumTo(values, n) \in Nat /\ values[k] \in Nat
  BY <1>1, SumToNat, SumToGrows DEF Naturals
<1> QED BY <1>2, <1>3

-----------------------------------------------------------------------------
(* The registry: what is printed was counted, and what was counted was     *)
(* recorded.                                                               *)

\* The addition of k that w's current record_ call still owes.
Pending(w, k) == IF \E n \in 1..Len(todo[w]) : todo[w][n] = k THEN 1 ELSE 0

\* Each worker has one shard.  Only a worker that has one is owned, runs handlers
\* and has counted anything, and only a bound thread is in a record_ call.
ShardsApart ==
    /\ \A i, j \in 1..Len(shards) : shards[i] = shards[j] => i = j
    /\ \A w \in owned : \E n \in 1..Len(shards) : shards[n] = w
    /\ \A t \in Threads : todo[t] # << >> => t \in bound
    /\ \A w \in Recorders :
          (\A n \in 1..Len(shards) : shards[n] # w) => count[w] = Zero

\* Every addition made or owed belongs to a record_ call of its own.
Recorded(k) ==
    [n \in 1..Len(shards) |-> count[shards[n]][k] + Pending(shards[n], k)]

RecordsCounted == \A k \in Counters : SumTo(Recorded(k), Len(shards)) <= records

\* A rendering starts with nothing, and loads only from shards that exist.
Rendering ==
    /\ holder = NoThread => place = 1 /\ field = 0 /\ sum = Zero
    /\ field > 0 => place <= Len(shards)
    /\ \A w \in Recorders, k \in Counters : low[w][k] <= count[w][k]

\* The shards from which the rendering has loaded the counter k, or passed over.
Passed(k) == IF \E n \in 1..field - 1 : Fields[n] = k THEN place ELSE place - 1

\* RenderedTotalsAreBounded for the shards passed so far.
SumBounded ==
    \A k \in Counters :
        /\ SumTo(Column(low, k, owned), Passed(k)) <= sum[k]
        /\ sum[k] <= SumTo(Column(count, k, Recorders), Passed(k))

\* The inductive invariant of the registry.
RegistryIInv ==
    RegistryTypeOK /\ ShardsApart /\ RecordsCounted /\ Rendering /\ SumBounded

\* render_prometheus loads every counter of a shard once.
LEMMA FieldsFacts ==
    /\ Len(Fields) = 7
    /\ \A i \in 1..7 : Fields[i] \in Counters
    /\ \A i, j \in 1..7 : Fields[i] = Fields[j] => i = j
    /\ \A k \in Counters : \E i \in 1..7 : Fields[i] = k
<1>1. Len(Fields) = 7
  BY DEF Fields
<1>2. \A i, j \in 1..7 : Fields[i] = Fields[j] => i = j
  BY DEF Fields
<1> QED BY <1>1, <1>2 DEF Counters

\* What a thread may have left of a record_ call.
Lists == Records \cup {Tail(r) : r \in Records}

\* No record_ call adds to a counter twice.
LEMMA ListsFacts ==
    /\ << >> \in Lists
    /\ Records \subseteq Lists
    /\ \A l \in Lists :
          \/ l = << >>
          \/ \E a \in Counters : l = <<a>>
          \/ \E a, b \in Counters : a # b /\ l = <<a, b>> /\ <<b>> \in Lists
<1>1. \A k \in {"accepts", "requests", "r2xx", "r4xx", "r5xx", "bytesIn", "bytesOut"} :
         k \in Counters
  <2>1. /\ Fields[1] = "accepts" /\ Fields[2] = "requests" /\ Fields[3] = "r2xx"
        /\ Fields[4] = "r4xx" /\ Fields[5] = "r5xx" /\ Fields[6] = "bytesIn"
        /\ Fields[7] = "bytesOut"
    BY DEF Fields
  <2>2. /\ Fields[1] \in Counters /\ Fields[2] \in Counters /\ Fields[3] \in Counters
        /\ Fields[4] \in Counters /\ Fields[5] \in Counters /\ Fields[6] \in Counters
        /\ Fields[7] \in Counters
    BY FieldsFacts
  <2> QED BY <2>1, <2>2
<1>2. \A r \in Records :
         \/ r = <<"accepts">>
         \/ r = <<"requests", "bytesIn">>
         \/ \E c \in Classes : r = <<c, "bytesOut">>
  BY DEF Records
<1>3. \A a, b : Tail(<<a>>) = << >> /\ Tail(<<a, b>>) = <<b>>
  OBVIOUS
<1>4. \A c \in Classes : c \in Counters /\ c # "bytesOut"
  BY <1>1, MetricsAssumption
<1>5. << >> \in Lists
  <2>1. <<"accepts">> \in Records
    BY DEF Records
  <2> QED BY <1>3, <2>1 DEF Lists
<1>6. \A r \in Records : Tail(r) \in Lists /\ r \in Lists
  BY DEF Lists
<1>7. ASSUME NEW r \in Records
      PROVE  \/ \E a \in Counters : r = <<a>> /\ Tail(r) = << >>
             \/ \E a, b \in Counters : a # b /\ r = <<a, b>> /\ Tail(r) = <<b>>
  <2>1. CASE r = <<"accepts">>
    BY <1>1, <1>3, <2>1
  <2>2. CASE r = <<"requests", "bytesIn">>
    BY <1>1, <1>3, <2>2
  <2>3. CASE \E c \in Classes : r = <<c, "bytesOut">>
    BY <1>1, <1>3, <1>4, <2>3
  <2> QED BY <1>2, <2>1, <2>2, <2>3
<1>8. ASSUME NEW l \in Lists
      PROVE  \/ l = << >>
             \/ \E a \in Counters : l = <<a>>
             \/ \E a, b \in Counters : a # b /\ l = <<a, b>> /\ <<b>> \in Lists
  <2>1. CASE l \in Records
    BY <1>6, <1>7, <2>1
  <2>2. CASE \E r \in Records : l = Tail(r)
    BY <1>7, <2>2
  <2> QED BY <2>1, <2>2 DEF Lists
<1> QED BY <1>5, <1>6, <1>8

\* An addition leaves the thread with the rest of its call, and owing everything
\* that it owed but that addition.
LEMMA OneAddition ==
    ASSUME NEW l \in Lists, l # << >>
    PROVE  /\ Head(l) \in Counters
           /\ Tail(l) \in Lists
           /\ Head(l) = l[1] /\ Len(l) >= 1
           /\ \A n \in 1..Len(Tail(l)) : Tail(l)[n] # Head(l)
           /\ \A k : k # Head(l) =>
                 ((\E n \in 1..Len(Tail(l)) : Tail(l)[n] = k)
                    <=> (\E n \in 1..Len(l) : l[n] = k))
<1>1. CASE \E a \in Counters : l = <<a>>
  <2>1. PICK a \in Counters : l = <<a>>
    BY <1>1
  <2>2. Head(l) = a /\ Tail(l) = << >> /\ Len(l) = 1 /\ l[1] = a /\ Len(Tail(l)) = 0
    BY <2>1
  <2>3. \A n \in 1..Len(Tail(l)) : FALSE
    BY <2>2
  <2>4. (\A n \in 1..Len(l) : l[n] = a) /\ Tail(l) \in Lists
    BY <2>1, <2>2, ListsFacts
  <2> QED BY <2>2, <2>3, <2>4
<1>2. CASE \E a, b \in Counters : a # b /\ l = <<a, b>> /\ <<b>> \in Lists
  <2>1. PICK a \in Counters, b \in Counters : a # b /\ l = <<a, b>> /\ <<b>> \in Lists
    BY <1>2
  <2>2. Head(l) = a /\ Tail(l) = <<b>> /\ Len(l) = 2 /\ l[1] = a /\ l[2] = b
    BY <2>1
  <2>3. Len(Tail(l)) = 1 /\ Tail(l)[1] = b
    BY <2>2
  <2>4. 1..1 = {1} /\ 1..2 = {1, 2}
    OBVIOUS
  <2> QED BY <2>1, <2>2, <2>3, <2>4
<1> QED BY <1>1, <1>2, ListsFacts

\* The columns of a table of natural numbers hold natural numbers.
LEMMA ColumnNaturals ==
    ASSUME shards \in Seq(Recorders), NEW counts \in [Recorders -> [Counters -> Nat]],
           NEW k \in Counters, NEW S
    PROVE  /\ Naturals(Column(counts, k, S), Len(shards))
           /\ Len(shards) \in Nat
           /\ \A n \in 1..Len(shards) :
                 /\ shards[n] \in Recorders
                 /\ Column(counts, k, S)[n]
                      = IF shards[n] \in S THEN counts[shards[n]][k] ELSE 0
<1>1. Len(shards) \in Nat /\ \A n \in 1..Len(shards) : shards[n] \in Recorders
  OBVIOUS
<1> QED BY <1>1 DEF Column, Naturals

\* The type invariant in the form that the proofs use.
LEMMA RegistryTypes ==
    ASSUME RegistryTypeOK
    PROVE  /\ Len(shards) \in Nat
           /\ \A n \in 1..Len(shards) : shards[n] \in Recorders
           /\ count \in [Recorders -> [Counters -> Nat]]
           /\ low \in [Recorders -> [Counters -> Nat]]
           /\ \A k \in Counters : sum[k] \in Nat
           /\ records \in Nat /\ place \in Nat /\ field \in 0..7 /\ MaxRecords \in Nat
           /\ Recorders \subseteq Threads
<1>1. count \in [Recorders -> [Counters -> Nat]] /\ low \in [Recorders -> [Counters -> Nat]]
  <2>1. \A x \in 0..MaxRecords : x \in Nat
    BY MetricsAssumption
  <2> QED BY <2>1 DEF RegistryTypeOK
<1>2. field \in 0..7
  BY FieldsFacts DEF RegistryTypeOK
<1>3. records \in Nat /\ place \in Nat /\ MaxRecords \in Nat /\ \A k \in Counters : sum[k] \in Nat
  BY MetricsAssumption DEF RegistryTypeOK
<1>4. Len(shards) \in Nat /\ \A n \in 1..Len(shards) : shards[n] \in Recorders
  BY DEF RegistryTypeOK
<1> QED BY <1>1, <1>2, <1>3, <1>4 DEF Threads

\* The values that RecordsCounted adds up.
LEMMA RecordedNaturals ==
    ASSUME RegistryTypeOK, NEW k \in Counters
    PROVE  /\ Naturals(Recorded(k), Len(shards))
           /\ \A n \in 1..Len(shards) :
                 /\ Recorded(k)[n] = count[shards[n]][k] + Pending(shards[n], k)
                 /\ count[shards[n]][k] <= Recorded(k)[n]
<1>1. \A n \in 1..Len(shards) :
         count[shards[n]][k] \in Nat /\ Pending(shards[n], k) \in {0, 1}
  BY RegistryTypes DEF Pending
<1> QED BY <1>1 DEF Recorded, Naturals

\* What has been passed is a part of the registered shards.
LEMMA PassedRange ==
    ASSUME RegistryTypeOK, Rendering, NEW k
    PROVE  Passed(k) \in 0..Len(shards)
<1>1. place \in 1..(Len(shards) + 1) /\ field \in 0..7 /\ Len(shards) \in Nat
  BY RegistryTypes DEF RegistryTypeOK
<1>2. CASE field > 0
  BY <1>1, <1>2 DEF Passed, Rendering
<1>3. CASE ~(field > 0)
  BY <1>1, <1>3 DEF Passed
<1> QED BY <1>2, <1>3

\* SumTo looks only at the first n values.
LEMMA SumToPrefix ==
    ASSUME NEW n \in Nat, NEW m \in 0..n, NEW v, NEW w, Naturals(v, n), Naturals(w, n),
           \A i \in 1..n : v[i] <= w[i]
    PROVE  SumTo(v, m) <= SumTo(w, m) /\ SumTo(v, m) \in Nat /\ SumTo(w, m) \in Nat
<1>1. m \in Nat /\ Naturals(v, m) /\ Naturals(w, m) /\ \A i \in 1..m : v[i] <= w[i]
  BY DEF Naturals
<1>2. SumTo(v, m) \in Nat /\ SumTo(w, m) \in Nat
  BY SumToNat
<1> QED BY <1>1, <1>2, SumToMonotone

\* The shards counted so far have counted no more than MaxRecords of a counter.
LEMMA CountsBounded ==
    ASSUME RegistryTypeOK, RecordsCounted, NEW k \in Counters, NEW m \in 0..Len(shards)
    PROVE  /\ SumTo(Column(count, k, Recorders), m) <= records
           /\ SumTo(Column(count, k, Recorders), m) \in Nat
           /\ \A n \in 1..Len(shards) : count[shards[n]][k] + Pending(shards[n], k) <= records
<1>1. /\ Naturals(Column(count, k, Recorders), Len(shards)) /\ Len(shards) \in Nat
      /\ \A n \in 1..Len(shards) :
            /\ shards[n] \in Recorders
            /\ Column(count, k, Recorders)[n] = count[shards[n]][k]
  <2>1. /\ Len(shards) \in Nat /\ shards \in Seq(Recorders)
        /\ count \in [Recorders -> [Counters -> Nat]]
    BY RegistryTypes DEF RegistryTypeOK
  <2>2. \A n \in 1..Len(shards) : shards[n] \in Recorders
    BY <2>1
  <2>3. Naturals(Column(count, k, Recorders), Len(shards))
    BY <2>1, ColumnNaturals
  <2>4. \A n \in 1..Len(shards) : Column(count, k, Recorders)[n] = count[shards[n]][k]
    BY <2>2 DEF Column
  <2> QED BY <2>1, <2>2, <2>3, <2>4
<1>2. \A n \in 1..Len(shards) : Column(count, k, Recorders)[n] <= Recorded(k)[n]
  BY <1>1, RecordedNaturals
<1>3. /\ SumTo(Column(count, k, Recorders), m) <= SumTo(Column(count, k, Recorders), Len(shards))
      /\ SumTo(Column(count, k, Recorders), m) \in Nat
      /\ SumTo(Column(count, k, Recorders), Len(shards)) \in Nat
  <2>1. Len(shards) \in 0..Len(shards)
    BY <1>1
  <2> QED BY <1>1, <2>1, SumToGrows, SumToNat
<1>4. /\ SumTo(Column(count, k, Recorders), Len(shards)) <= SumTo(Recorded(k), Len(shards))
      /\ SumTo(Recorded(k), Len(shards)) \in Nat
  <2>1. Len(shards) \in 0..Len(shards)
    BY <1>1
  <2> QED BY <1>1, <1>2, <2>1, RecordedNaturals, SumToPrefix
<1>5. SumTo(Recorded(k), Len(shards)) <= records /\ records \in Nat
  BY RegistryTypes DEF RecordsCounted
<1>6. ASSUME NEW n \in 1..Len(shards)
      PROVE  count[shards[n]][k] + Pending(shards[n], k) <= records
  <2>1. Recorded(k)[n] <= SumTo(Recorded(k), Len(shards))
    BY <1>1, RecordedNaturals, ValueWithinSum
  <2>2. Recorded(k)[n] \in Nat /\ Recorded(k)[n] = count[shards[n]][k] + Pending(shards[n], k)
    BY RecordedNaturals DEF Naturals
  <2> QED BY <1>4, <1>5, <2>1, <2>2
<1> QED BY <1>3, <1>4, <1>5, <1>6

\* While the rendering stands still, counting and dying shards do not break its bounds.
LEMMA SumsPersist ==
    ASSUME RegistryIInv, RegistryTypeOK', shards' = shards, owned' \subseteq owned,
           UNCHANGED <<place, field, sum, low>>,
           \A w \in Recorders, k \in Counters : count[w][k] <= count'[w][k]
    PROVE  SumBounded'
<1> SUFFICES ASSUME NEW k \in Counters
             PROVE  /\ SumTo(Column(low, k, owned'), Passed(k)) <= sum[k]
                    /\ sum[k] <= SumTo(Column(count', k, Recorders), Passed(k))
  <2>1. \A k : Passed(k)' = Passed(k)
    BY DEF Passed
  <2>2. \A k : /\ Column(low, k, owned)' = Column(low, k, owned')
               /\ Column(count, k, Recorders)' = Column(count', k, Recorders)
    BY DEF Column
  <2> QED BY <2>1, <2>2 DEF SumBounded
<1>1. shards \in Seq(Recorders) /\ count' \in [Recorders -> [Counters -> Nat]] 
  <2>1. \A x \in 0..MaxRecords : x \in Nat
    BY MetricsAssumption
  <2> QED BY <2>1 DEF RegistryTypeOK, RegistryIInv
<1>2. count \in [Recorders -> [Counters -> Nat]] /\ low \in [Recorders -> [Counters -> Nat]]
      /\ Len(shards) \in Nat
  BY RegistryTypes DEF RegistryIInv
<1>3. Passed(k) \in 0..Len(shards)
  BY PassedRange DEF RegistryIInv
<1>4. SumTo(Column(low, k, owned'), Passed(k)) <= SumTo(Column(low, k, owned), Passed(k))
      /\ SumTo(Column(low, k, owned), Passed(k)) \in Nat
      /\ SumTo(Column(low, k, owned'), Passed(k)) \in Nat
  <2>1. Naturals(Column(low, k, owned'), Len(shards)) /\ Naturals(Column(low, k, owned), Len(shards))
    BY <1>1, <1>2, ColumnNaturals
  <2>2. ASSUME NEW n \in 1..Len(shards)
        PROVE  Column(low, k, owned')[n] <= Column(low, k, owned)[n]
    <3>1. shards[n] \in Recorders /\ low[shards[n]][k] \in Nat
      BY <1>1, <1>2
    <3>2. /\ Column(low, k, owned)[n] = IF shards[n] \in owned THEN low[shards[n]][k] ELSE 0
          /\ Column(low, k, owned')[n] = IF shards[n] \in owned' THEN low[shards[n]][k] ELSE 0
      BY DEF Column
    <3> QED BY <3>1, <3>2
  <2> QED BY <1>2, <1>3, <2>1, <2>2, SumToPrefix
<1>5. SumTo(Column(count, k, Recorders), Passed(k)) <= SumTo(Column(count', k, Recorders), Passed(k))
      /\ SumTo(Column(count, k, Recorders), Passed(k)) \in Nat
      /\ SumTo(Column(count', k, Recorders), Passed(k)) \in Nat
  <2>1. Naturals(Column(count, k, Recorders), Len(shards)) /\ Naturals(Column(count', k, Recorders), Len(shards))
    BY <1>1, <1>2, ColumnNaturals
  <2>2. ASSUME NEW n \in 1..Len(shards)
        PROVE  Column(count, k, Recorders)[n] <= Column(count', k, Recorders)[n]
    <3>1. shards[n] \in Recorders
      BY <1>1
    <3>2. /\ Column(count, k, Recorders)[n] = count[shards[n]][k]
          /\ Column(count', k, Recorders)[n] = count'[shards[n]][k]
      BY <3>1 DEF Column
    <3> QED BY <3>1, <3>2
  <2> QED BY <1>2, <1>3, <2>1, <2>2, SumToPrefix
<1>6. /\ SumTo(Column(low, k, owned), Passed(k)) <= sum[k]
      /\ sum[k] <= SumTo(Column(count, k, Recorders), Passed(k))
      /\ sum[k] \in Nat
  BY RegistryTypes DEF RegistryIInv, SumBounded
<1> QED BY <1>4, <1>5, <1>6

\* A rendering that has not begun has passed nothing.
LEMMA NothingPassed ==
    ASSUME place' = 1, field' = 0, sum' = Zero
    PROVE  SumBounded'
<1>1. \A k : Passed(k)' = 0
  BY DEF Passed
<1>2. \A k \in Counters : Zero[k] = 0
  BY DEF Zero
<1>3. \A v : SumTo(v, 0) = 0
  BY SumToSteps
<1> QED BY <1>1, <1>2, <1>3 DEF SumBounded

\* The empty registry satisfies the inductive invariant.
LEMMA RegistryInitIInv == RegistryInit => RegistryIInv
<1> SUFFICES ASSUME RegistryInit PROVE RegistryIInv
  OBVIOUS
<1>1. /\ shards = << >> /\ Len(shards) = 0 /\ owned = {} /\ bound = {} /\ records = 0
      /\ place = 1 /\ field = 0 /\ sum = Zero /\ holder = NoThread
      /\ todo = [t \in Threads |-> << >>]
      /\ count = [w \in Recorders |-> Zero] /\ low = [w \in Recorders |-> Zero]
  BY DEF RegistryInit
<1>2. Zero \in [Counters -> 0..MaxRecords]
  <2>1. 0 \in 0..MaxRecords
    BY MetricsAssumption
  <2> QED BY <2>1 DEF Zero
<1>3. RegistryTypeOK
  <2>1. todo \in [Threads -> Lists]
    BY <1>1, ListsFacts
  <2> QED BY <1>1, <1>2, <2>1, MetricsAssumption, FieldsFacts DEF RegistryTypeOK, Lists
<1>4. ShardsApart
  BY <1>1 DEF ShardsApart
<1>5. RecordsCounted
  <2>1. \A v : SumTo(v, Len(shards)) = 0
    BY <1>1, SumToSteps
  <2> QED BY <1>1, <2>1 DEF RecordsCounted
<1>6. Rendering
  <2>1. \A w \in Recorders : low[w] = Zero /\ count[w] = Zero
    BY <1>1
  <2>2. \A k \in Counters : Zero[k] = 0
    BY DEF Zero
  <2> QED BY <1>1, <2>1, <2>2 DEF Rendering
<1>7. SumBounded
  <2>1. \A k : Passed(k) = 0
    BY <1>1 DEF Passed
  <2>2. \A k \in Counters : sum[k] = 0
    BY <1>1 DEF Zero
  <2>3. \A v : SumTo(v, 0) = 0
    BY SumToSteps
  <2> QED BY <2>1, <2>2, <2>3 DEF SumBounded
<1> QED BY <1>3, <1>4, <1>5, <1>6, <1>7 DEF RegistryIInv

\* create_worker_shard appends a shard that nobody has counted in.
LEMMA CreateIInv ==
    ASSUME RegistryIInv, NEW w \in Recorders, CreateWorkerShard(w) PROVE RegistryIInv'
<1>1. /\ \A n \in 1..Len(shards) : shards[n] # w
      /\ holder = NoThread /\ place = 1 /\ field = 0 /\ sum = Zero
      /\ shards' = Append(shards, w) /\ owned' = owned \cup {w}
      /\ UNCHANGED <<bound, todo, count, records, holder, place, field, sum, low>>
      /\ w \notin owned /\ w \notin bound
  <2>1. \A n \in 1..Len(shards) : shards[n] # w
    BY DEF CreateWorkerShard, RegistryIInv, RegistryTypeOK
  <2>2. w \notin owned /\ w \notin bound
    BY <2>1 DEF RegistryIInv, ShardsApart, RegistryTypeOK
  <2> QED BY <2>1, <2>2 DEF CreateWorkerShard, RegistryIInv, Rendering, recordVars, renderVars
<1>2. /\ Len(shards) \in Nat /\ shards \in Seq(Recorders)
      /\ Len(shards') = Len(shards) + 1 /\ shards'[Len(shards) + 1] = w
      /\ \A n \in 1..Len(shards) : shards'[n] = shards[n]
  BY <1>1 DEF RegistryIInv, RegistryTypeOK
<1>3. RegistryTypeOK'
  <2>1. shards' \in Seq(Recorders) /\ place' \in 1..Len(shards') + 1
    BY <1>1, <1>2
  <2> QED BY <1>1, <2>1 DEF RegistryIInv, RegistryTypeOK
<1>4. ShardsApart'
  <2>1. \A i, j \in 1..Len(shards') : shards'[i] = shards'[j] => i = j
    BY <1>1, <1>2 DEF RegistryIInv, ShardsApart
  <2>2. \A v \in owned' : \E n \in 1..Len(shards') : shards'[n] = v
    <3>1. ASSUME NEW v \in owned PROVE \E n \in 1..Len(shards') : shards'[n] = v
      <4>1. PICK n \in 1..Len(shards) : shards[n] = v
        BY DEF RegistryIInv, ShardsApart
      <4>2. n \in 1..Len(shards') /\ shards'[n] = v
        BY <1>2, <4>1
      <4> QED BY <4>2
    <3>2. Len(shards) + 1 \in 1..Len(shards') /\ shards'[Len(shards) + 1] = w
      BY <1>2
    <3> QED BY <1>1, <3>1, <3>2
  <2>3. \A t \in Threads : todo'[t] # << >> => t \in bound'
    BY <1>1 DEF RegistryIInv, ShardsApart
  <2>4. ASSUME NEW v \in Recorders, \A n \in 1..Len(shards') : shards'[n] # v
        PROVE  count'[v] = Zero
    <3>1. \A n \in 1..Len(shards) : shards[n] # v
      BY <1>2, <2>4
    <3> QED BY <1>1, <3>1 DEF RegistryIInv, ShardsApart
  <2> QED BY <2>1, <2>2, <2>3, <2>4 DEF ShardsApart
<1>5. RecordsCounted'
  <2> SUFFICES ASSUME NEW k \in Counters
               PROVE  SumTo(Recorded(k)', Len(shards')) <= records'
    BY DEF RecordsCounted
  <2>1. /\ \A n \in 1..Len(shards) : Recorded(k)'[n] = Recorded(k)[n]
        /\ Recorded(k)'[Len(shards) + 1] = count[w][k] + Pending(w, k)
    <3>1. \A v : Pending(v, k)' = Pending(v, k)
      BY <1>1 DEF Pending
    <3>2. \A n \in 1..Len(shards) + 1 :
             Recorded(k)'[n] = count[shards'[n]][k] + Pending(shards'[n], k)
      BY <1>1, <1>2, <3>1 DEF Recorded
    <3>3. \A n \in 1..Len(shards) : n \in 1..Len(shards) + 1
      BY <1>2
    <3> QED BY <1>2, <3>2, <3>3 DEF Recorded
  <2>2. count[w][k] = 0 /\ Pending(w, k) = 0
    <3>1. count[w] = Zero
      BY <1>1 DEF RegistryIInv, ShardsApart
    <3>2. todo[w] = << >>
      BY <1>1, RegistryTypes DEF RegistryIInv, ShardsApart
    <3> QED BY <3>1, <3>2 DEF Zero, Pending
  <2>3. Naturals(Recorded(k), Len(shards)) /\ Naturals(Recorded(k)', Len(shards))
    BY <2>1, RecordedNaturals DEF RegistryIInv, Naturals
  <2>4. SumTo(Recorded(k)', Len(shards)) <= SumTo(Recorded(k), Len(shards))
        /\ SumTo(Recorded(k)', Len(shards)) \in Nat /\ SumTo(Recorded(k), Len(shards)) \in Nat
    <3>1. Len(shards) \in 0..Len(shards)
      BY <1>2
    <3>2. \A n \in 1..Len(shards) : Recorded(k)'[n] <= Recorded(k)[n]
      BY <2>1, <2>3 DEF Naturals
    <3> QED BY <1>2, <2>3, <3>1, <3>2, SumToPrefix
  <2>5. SumTo(Recorded(k)', Len(shards) + 1) = SumTo(Recorded(k)', Len(shards)) + 0
    BY <1>2, <2>1, <2>2, SumToSteps
  <2> QED BY <1>1, <1>2, <2>4, <2>5, RegistryTypes DEF RegistryIInv, RecordsCounted
<1>6. Rendering'
  BY <1>1 DEF RegistryIInv, Rendering
<1>7. SumBounded'
  BY <1>1, NothingPassed
<1> QED BY <1>3, <1>4, <1>5, <1>6, <1>7 DEF RegistryIInv

\* Binding and unbinding a shard, and destroying a worker, leave every count.
LEMMA LifeIInv ==
    ASSUME RegistryIInv, NEW w \in Recorders,
           BindThreadLocalShard(w) \/ UnbindThreadLocalShard(w) \/ DestroyWorker(w)
    PROVE  RegistryIInv'
<1>1. /\ UNCHANGED <<shards, todo, count, records, holder, place, field, sum, low>>
      /\ owned' \subseteq owned /\ bound' \subseteq owned'
      /\ \A t \in bound : todo[t] # << >> => t \in bound'
  BY DEF RegistryIInv, RegistryTypeOK, recordVars, renderVars,
         BindThreadLocalShard, UnbindThreadLocalShard, DestroyWorker
<1>2. RegistryTypeOK'
  BY <1>1 DEF RegistryIInv, RegistryTypeOK
<1>3. ShardsApart'
  BY <1>1 DEF RegistryIInv, ShardsApart
<1>4. RecordsCounted'
  <2>1. \A k : Recorded(k)' = Recorded(k)
    BY <1>1 DEF Recorded, Pending
  <2> QED BY <1>1, <2>1 DEF RegistryIInv, RecordsCounted
<1>5. Rendering'
  BY <1>1 DEF RegistryIInv, Rendering
<1>6. SumBounded'
  <2>1. \A v \in Recorders, k \in Counters : count[v][k] <= count'[v][k]
    BY <1>1, RegistryTypes DEF RegistryIInv
  <2> QED BY <1>1, <1>2, <2>1, SumsPersist
<1> QED BY <1>2, <1>3, <1>4, <1>5, <1>6 DEF RegistryIInv

\* A record_ call owes each of its additions once.
LEMMA BeginRecordIInv ==
    ASSUME RegistryIInv, NEW w \in Recorders, NEW r \in Records, BeginRecord(w, r)
    PROVE  RegistryIInv'
<1>1. /\ w \in bound /\ todo[w] = << >> /\ records < MaxRecords
      /\ records' = records + 1 /\ todo' = [todo EXCEPT ![w] = r]
      /\ UNCHANGED <<shards, owned, bound, count, holder, place, field, sum, low>>
      /\ r \in Lists /\ w \in Threads
  BY ListsFacts, RegistryTypes DEF BeginRecord, renderVars, RegistryIInv
<1>2. RegistryTypeOK'
  <2>1. todo \in [Threads -> Lists] /\ todo' \in [Threads -> Lists]
    BY <1>1 DEF RegistryIInv, RegistryTypeOK, Lists
  <2>2. records' \in 0..MaxRecords
    BY <1>1, MetricsAssumption DEF RegistryIInv, RegistryTypeOK
  <2> QED BY <1>1, <2>1, <2>2 DEF RegistryIInv, RegistryTypeOK, Lists
<1>3. \A v \in Threads : v # w => todo'[v] = todo[v]
  BY <1>1 DEF RegistryIInv, RegistryTypeOK
<1>4. ShardsApart'
  BY <1>1, <1>3 DEF RegistryIInv, ShardsApart
<1>5. RecordsCounted'
  <2> SUFFICES ASSUME NEW k \in Counters
               PROVE  SumTo(Recorded(k)', Len(shards)) <= records + 1
    BY <1>1 DEF RecordsCounted
  <2>1. PICK j \in 1..Len(shards) : shards[j] = w
    BY <1>1 DEF RegistryIInv, ShardsApart, RegistryTypeOK
  <2>2. Naturals(Recorded(k), Len(shards)) /\ Naturals(Recorded(k)', Len(shards))
    <3>1. \A n \in 1..Len(shards) :
             count[shards[n]][k] \in Nat /\ Pending(shards[n], k)' \in {0, 1}
      BY <1>1, RegistryTypes DEF RegistryIInv, Pending
    <3>2. \A n \in 1..Len(shards) :
             Recorded(k)'[n] = count[shards[n]][k] + Pending(shards[n], k)'
      BY <1>1 DEF Recorded, Pending
    <3>3. \A n \in 1..Len(shards) : Recorded(k)'[n] \in Nat
      BY <3>1, <3>2
    <3>4. Naturals(Recorded(k), Len(shards))
      BY RecordedNaturals DEF RegistryIInv
    <3> QED BY <3>3, <3>4 DEF Naturals
  <2>3. ASSUME NEW n \in 1..Len(shards)
        PROVE  \/ Recorded(k)'[n] <= Recorded(k)[n]
               \/ n = j /\ Recorded(k)'[n] <= Recorded(k)[n] + 1
    <3>1. /\ Recorded(k)[n] = count[shards[n]][k] + Pending(shards[n], k)
          /\ Recorded(k)'[n] = count[shards[n]][k] + Pending(shards[n], k)'
      BY <1>1 DEF Recorded, Pending
    <3>2. /\ count[shards[n]][k] \in Nat /\ Pending(shards[n], k) \in {0, 1}
          /\ Pending(shards[n], k)' \in {0, 1}
      BY RegistryTypes DEF RegistryIInv, Pending
    <3>3. CASE n = j
      BY <3>1, <3>2, <3>3
    <3>4. CASE n # j
      <4>1. shards[n] # w /\ shards[n] \in Threads
        BY <2>1, <3>4, RegistryTypes DEF RegistryIInv, ShardsApart
      <4>2. Pending(shards[n], k)' = Pending(shards[n], k)
        BY <1>1, <1>3, <4>1 DEF Pending
      <4> QED BY <3>1, <3>2, <4>2
    <3> QED BY <3>3, <3>4
  <2>4. SumTo(Recorded(k)', Len(shards)) <= SumTo(Recorded(k), Len(shards)) + 1
    <3>1. Len(shards) \in Nat /\ j \in Nat
      BY RegistryTypes DEF RegistryIInv
    <3> QED BY <2>2, <2>3, <3>1, SumToAlmost
  <2>5. SumTo(Recorded(k), Len(shards)) <= records
    BY DEF RegistryIInv, RecordsCounted
  <2>6. SumTo(Recorded(k), Len(shards)) \in Nat /\ SumTo(Recorded(k)', Len(shards)) \in Nat
        /\ records \in Nat
    <3>1. Len(shards) \in Nat /\ Len(shards) \in 0..Len(shards) /\ records \in Nat
      BY RegistryTypes DEF RegistryIInv
    <3> QED BY <2>2, <3>1, SumToNat
  <2> QED BY <2>4, <2>5, <2>6
<1>6. Rendering'
  BY <1>1 DEF RegistryIInv, Rendering
<1>7. SumBounded'
  <2>1. \A v \in Recorders, k \in Counters : count[v][k] <= count'[v][k]
    BY <1>1, RegistryTypes DEF RegistryIInv
  <2> QED BY <1>1, <1>2, <2>1, SumsPersist
<1> QED BY <1>2, <1>4, <1>5, <1>6, <1>7 DEF RegistryIInv

\* fetch_add moves one addition from what the call owes to what the shard counts.
LEMMA AddIInv ==
    ASSUME RegistryIInv, NEW w \in Recorders, Add(w) PROVE RegistryIInv'
<1> DEFINE h == Head(todo[w])
<1>1. /\ todo[w] # << >> /\ w \in Threads /\ w \in bound /\ w \in owned
      /\ count' = [count EXCEPT ![w][h] = @ + 1]
      /\ todo' = [todo EXCEPT ![w] = Tail(@)]
      /\ UNCHANGED <<shards, owned, bound, records, holder, place, field, sum, low>>
  <2>1. w \in Threads
    BY DEF Threads
  <2> QED BY <2>1 DEF Add, renderVars, RegistryIInv, ShardsApart, RegistryTypeOK
<1>2. /\ todo \in [Threads -> Lists] /\ todo[w] \in Lists
      /\ h \in Counters /\ Tail(todo[w]) \in Lists
      /\ h = todo[w][1] /\ 1 \in 1..Len(todo[w])
      /\ \A n \in 1..Len(Tail(todo[w])) : Tail(todo[w])[n] # h
      /\ \A k : k # h =>
            ((\E n \in 1..Len(Tail(todo[w])) : Tail(todo[w])[n] = k)
                <=> (\E n \in 1..Len(todo[w]) : todo[w][n] = k))
  <2>1. todo \in [Threads -> Lists]
    BY DEF RegistryIInv, RegistryTypeOK, Lists
  <2>2. todo[w] \in Lists
    BY <1>1, <2>1
  <2>3. Len(todo[w]) \in Nat
    BY <2>2, ListsFacts
  <2>4. Len(todo[w]) >= 1
    BY <1>1, <2>2, OneAddition
  <2>5. /\ h \in Counters /\ Tail(todo[w]) \in Lists /\ h = todo[w][1]
        /\ \A n \in 1..Len(Tail(todo[w])) : Tail(todo[w])[n] # h
        /\ \A k : k # h =>
              ((\E n \in 1..Len(Tail(todo[w])) : Tail(todo[w])[n] = k)
                  <=> (\E n \in 1..Len(todo[w]) : todo[w][n] = k))
    BY <1>1, <2>2, OneAddition, Zenon
  <2>6. 1 \in 1..Len(todo[w])
    BY <2>3, <2>4
  <2> QED BY <2>1, <2>2, <2>5, <2>6, Zenon
<1>3. /\ todo'[w] = Tail(todo[w]) /\ todo' \in [Threads -> Lists]
      /\ \A v \in Threads : v # w => todo'[v] = todo[v]
  BY <1>1, <1>2
<1> HIDE DEF h
<1>4. /\ count \in [Recorders -> [Counters -> Nat]] /\ count' \in [Recorders -> [Counters -> Nat]]
      /\ \A v \in Recorders, k \in Counters :
            count'[v][k] = IF v = w /\ k = h THEN count[v][k] + 1 ELSE count[v][k]
  <2>1. count \in [Recorders -> [Counters -> Nat]]
    BY RegistryTypes DEF RegistryIInv
  <2> QED BY <1>1, <1>2, <2>1
<1>5. \A v \in Recorders, k \in Counters :
         count'[v][k] + Pending(v, k)' = count[v][k] + Pending(v, k)
  <2> SUFFICES ASSUME NEW v \in Recorders, NEW k \in Counters
               PROVE  count'[v][k] + Pending(v, k)' = count[v][k] + Pending(v, k)
    OBVIOUS
  <2>1. CASE v = w /\ k = h
    <3>1. Pending(v, k) = 1 /\ Pending(v, k)' = 0
      BY <1>2, <1>3, <2>1 DEF Pending
    <3> QED BY <1>4, <2>1, <3>1
  <2>2. CASE v = w /\ k # h
    <3>1. (\E n \in 1..Len(todo'[w]) : todo'[w][n] = k)
             <=> (\E n \in 1..Len(todo[w]) : todo[w][n] = k)
      BY <1>2, <1>3, <2>2, Zenon
    <3>2. Pending(w, k)' = Pending(w, k)
      BY <3>1, Zenon DEF Pending
    <3> QED BY <1>4, <2>2, <3>2
  <2>3. CASE v # w
    <3>1. Pending(v, k)' = Pending(v, k)
      BY <1>3, <2>3 DEF Pending, Threads
    <3> QED BY <1>4, <2>3, <3>1
  <2> QED BY <2>1, <2>2, <2>3
<1>6. PICK j \in 1..Len(shards) : shards[j] = w
  BY <1>1 DEF RegistryIInv, ShardsApart
<1>7. count'[w][h] \in 0..MaxRecords
  <2>1. count[w][h] + Pending(w, h) <= records
    <3>1. Len(shards) \in 0..Len(shards)
      BY RegistryTypes DEF RegistryIInv
    <3> QED BY <1>2, <1>6, <3>1, CountsBounded DEF RegistryIInv
  <2>2. Pending(w, h) = 1
    BY <1>2 DEF Pending
  <2>3. records \in 0..MaxRecords /\ count[w][h] \in Nat
    BY <1>2, <1>4 DEF RegistryIInv, RegistryTypeOK
  <2> QED BY <1>2, <1>4, <2>1, <2>2, <2>3, MetricsAssumption
<1>8. RegistryTypeOK'
  <2>1. count' \in [Recorders -> [Counters -> 0..MaxRecords]]
    <3>1. \A v \in Recorders, k \in Counters : count[v][k] \in 0..MaxRecords
      BY DEF RegistryIInv, RegistryTypeOK
    <3>2. \A v \in Recorders, k \in Counters : count'[v][k] \in 0..MaxRecords
      BY <1>4, <1>7, <3>1
    <3> QED BY <1>4, <3>2
  <2> QED BY <1>1, <1>3, <2>1 DEF RegistryIInv, RegistryTypeOK, Lists
<1>9. ShardsApart'
  <2>1. \A t \in Threads : todo'[t] # << >> => t \in bound'
    BY <1>1, <1>3 DEF RegistryIInv, ShardsApart
  <2>2. ASSUME NEW v \in Recorders, \A n \in 1..Len(shards) : shards[n] # v
        PROVE  count'[v] = Zero
    <3>1. v # w
      BY <1>6, <2>2
    <3>2. count'[v] = count[v]
      BY <1>1, <1>4, <3>1
    <3> QED BY <2>2, <3>2 DEF RegistryIInv, ShardsApart
  <2> QED BY <1>1, <2>1, <2>2 DEF RegistryIInv, ShardsApart
<1>10. RecordsCounted'
  <2>1. \A k \in Counters : Recorded(k)' = Recorded(k)
    BY <1>1, <1>5, RegistryTypes DEF RegistryIInv, Recorded
  <2> QED BY <1>1, <2>1 DEF RegistryIInv, RecordsCounted
<1>11. \A v \in Recorders, k \in Counters : count[v][k] <= count'[v][k]
  BY <1>4
<1>12. Rendering'
  <2>1. \A v \in Recorders, k \in Counters :
           low[v][k] \in Nat /\ count[v][k] \in Nat /\ count'[v][k] \in Nat
    BY <1>4, RegistryTypes DEF RegistryIInv
  <2>2. \A v \in Recorders, k \in Counters : low[v][k] <= count'[v][k]
    BY <1>11, <2>1 DEF RegistryIInv, Rendering
  <2> QED BY <1>1, <2>2 DEF RegistryIInv, Rendering
<1>13. SumBounded'
  BY <1>1, <1>8, <1>11, SumsPersist
<1> QED BY <1>8, <1>9, <1>10, <1>12, <1>13 DEF RegistryIInv

\* The locked rendering begins with what the shards have counted.
LEMMA BeginRenderIInv ==
    ASSUME RegistryIInv, NEW t \in Threads, BeginRender(t) PROVE RegistryIInv'
<1>1. /\ holder' = t /\ low' = count /\ place = 1 /\ field = 0 /\ sum = Zero
      /\ t # NoThread
      /\ UNCHANGED <<shards, owned, bound, todo, count, records, place, field, sum>>
  BY MetricsAssumption DEF BeginRender, recordVars, RegistryIInv, Rendering, Threads
<1>2. RegistryTypeOK'
  BY <1>1 DEF RegistryIInv, RegistryTypeOK
<1>3. ShardsApart'
  BY <1>1 DEF RegistryIInv, ShardsApart
<1>4. RecordsCounted'
  <2>1. \A k : Recorded(k)' = Recorded(k)
    BY <1>1 DEF Recorded, Pending
  <2> QED BY <1>1, <2>1 DEF RegistryIInv, RecordsCounted
<1>5. Rendering'
  <2>1. \A w \in Recorders, k \in Counters : low'[w][k] <= count'[w][k]
    BY <1>1, RegistryTypes DEF RegistryIInv
  <2> QED BY <1>1, <2>1 DEF Rendering
<1>6. SumBounded'
  BY <1>1, NothingPassed
<1> QED BY <1>2, <1>3, <1>4, <1>5, <1>6 DEF RegistryIInv

\* What LockShard and LoadField leave alone of the invariant.
LEMMA RenderFrame ==
    ASSUME RegistryIInv,
           UNCHANGED <<shards, owned, bound, todo, count, records, low>>
    PROVE  /\ ShardsApart' /\ RecordsCounted'
           /\ \A w \in Recorders, k \in Counters : low'[w][k] <= count'[w][k]
           /\ \A k : /\ Column(low, k, owned)' = Column(low, k, owned)
                     /\ Column(count, k, Recorders)' = Column(count, k, Recorders)
<1>1. ShardsApart'
  BY DEF RegistryIInv, ShardsApart
<1>2. RecordsCounted'
  <2>1. \A k : Recorded(k)' = Recorded(k)
    BY DEF Recorded, Pending
  <2> QED BY <2>1 DEF RegistryIInv, RecordsCounted
<1> QED BY <1>1, <1>2 DEF RegistryIInv, Rendering, Column

\* One more shard, position by position.
LEMMA OneMoreShard ==
    ASSUME RegistryIInv, place <= Len(shards), NEW k \in Counters
    PROVE  /\ SumTo(Column(low, k, owned), place) = SumTo(Column(low, k, owned), place - 1)
                 + (IF shards[place] \in owned THEN low[shards[place]][k] ELSE 0)
           /\ SumTo(Column(count, k, Recorders), place)
                 = SumTo(Column(count, k, Recorders), place - 1) + count[shards[place]][k]
           /\ SumTo(Column(low, k, owned), place - 1) \in Nat
           /\ SumTo(Column(count, k, Recorders), place - 1) \in Nat
           /\ low[shards[place]][k] \in Nat /\ count[shards[place]][k] \in Nat
           /\ low[shards[place]][k] <= count[shards[place]][k]
<1>1. /\ place \in 1..Len(shards) /\ Len(shards) \in Nat /\ place - 1 \in Nat
      /\ place - 1 \in 0..Len(shards) /\ (place - 1) + 1 = place
      /\ shards[place] \in Recorders /\ shards \in Seq(Recorders)
      /\ low \in [Recorders -> [Counters -> Nat]] /\ count \in [Recorders -> [Counters -> Nat]]
  BY RegistryTypes DEF RegistryIInv, RegistryTypeOK
<1>2. /\ Column(low, k, owned)[place] = IF shards[place] \in owned THEN low[shards[place]][k] ELSE 0
      /\ Column(count, k, Recorders)[place] = count[shards[place]][k]
  BY <1>1 DEF Column
<1>3. /\ SumTo(Column(low, k, owned), place)
           = SumTo(Column(low, k, owned), place - 1) + Column(low, k, owned)[place]
      /\ SumTo(Column(count, k, Recorders), place)
           = SumTo(Column(count, k, Recorders), place - 1) + Column(count, k, Recorders)[place]
  BY <1>1, SumToSteps
<1>4. SumTo(Column(low, k, owned), place - 1) \in Nat /\ SumTo(Column(count, k, Recorders), place - 1) \in Nat
  BY <1>1, ColumnNaturals, SumToNat
<1>5. low[shards[place]][k] <= count[shards[place]][k]
  BY <1>1 DEF RegistryIInv, Rendering
<1> QED BY <1>1, <1>2, <1>3, <1>4, <1>5

\* weak.lock() passes an expired shard over: it owes nothing to the lower bound.
LEMMA LockShardIInv ==
    ASSUME RegistryIInv, NEW t \in Threads, LockShard(t) PROVE RegistryIInv'
<1>1. /\ place <= Len(shards) /\ place \in Nat /\ Len(shards) \in Nat /\ place >= 1 /\ field = 0
      /\ holder = t /\ t # NoThread
      /\ UNCHANGED <<shards, owned, bound, todo, count, records, holder, sum, low>>
      /\ \/ shards[place] \in owned /\ field' = 1 /\ place' = place
         \/ shards[place] \notin owned /\ place' = place + 1 /\ field' = 0
  <2>1. Alive(shards[place]) <=> shards[place] \in owned
    BY DEF Alive, RegistryIInv, RegistryTypeOK
  <2> QED BY <2>1, MetricsAssumption, RegistryTypes
          DEF LockShard, recordVars, RegistryIInv, RegistryTypeOK, Threads
<1>2. RegistryTypeOK'
  <2>1. place' \in 1..Len(shards') + 1 /\ field' \in 0..Len(Fields)
    BY <1>1, FieldsFacts
  <2> QED BY <1>1, <2>1 DEF RegistryIInv, RegistryTypeOK
<1>3. /\ ShardsApart' /\ RecordsCounted'
      /\ \A w \in Recorders, k \in Counters : low'[w][k] <= count'[w][k]
      /\ \A k : /\ Column(low, k, owned)' = Column(low, k, owned)
                /\ Column(count, k, Recorders)' = Column(count, k, Recorders)
  BY <1>1, RenderFrame
<1>4. Rendering'
  BY <1>1, <1>3 DEF Rendering
<1>5. ASSUME NEW k \in Counters
      PROVE  /\ SumTo(Column(low, k, owned), Passed(k)') <= sum[k]
             /\ sum[k] <= SumTo(Column(count, k, Recorders), Passed(k)')
  <2>1. /\ SumTo(Column(low, k, owned), place - 1) <= sum[k]
        /\ sum[k] <= SumTo(Column(count, k, Recorders), place - 1)
        /\ sum[k] \in Nat
    <3>1. Passed(k) = place - 1
      BY <1>1 DEF Passed
    <3> QED BY <3>1, RegistryTypes DEF RegistryIInv, SumBounded
  <2>2. CASE shards[place] \in owned
    <3>1. Passed(k)' = place - 1
      BY <1>1, <2>2 DEF Passed
    <3> QED BY <2>1, <3>1
  <2>3. CASE shards[place] \notin owned
    <3>1. Passed(k)' = place
      BY <1>1, <2>3 DEF Passed
    <3>2. SumTo(Column(low, k, owned), place) = SumTo(Column(low, k, owned), place - 1)
      BY <1>1, <2>3, OneMoreShard
    <3>3. SumTo(Column(count, k, Recorders), place - 1) <= SumTo(Column(count, k, Recorders), place)
      BY <1>1, OneMoreShard
    <3>4. SumTo(Column(count, k, Recorders), place - 1) \in Nat /\ SumTo(Column(count, k, Recorders), place) \in Nat
      BY <1>1, OneMoreShard
    <3> QED BY <2>1, <3>1, <3>2, <3>3, <3>4
  <2> QED BY <2>2, <2>3
<1>6. SumBounded'
  <2>1. sum' = sum
    BY <1>1
  <2> QED BY <1>3, <1>5, <2>1 DEF SumBounded
<1> QED BY <1>2, <1>3, <1>4, <1>6 DEF RegistryIInv

\* A relaxed load adds what the shard has counted by now: no less than when the
\* rendering began.
LEMMA LoadFieldIInv ==
    ASSUME RegistryIInv, NEW t \in Threads, LoadField(t) PROVE RegistryIInv'
<1>0. PICK f \in Counters : f = Fields[field]
  <2>1. field \in 1..7
    BY RegistryTypes DEF LoadField, RegistryIInv
  <2> QED BY <2>1, FieldsFacts
<1>1. /\ field \in 1..7 /\ place <= Len(shards) /\ place \in Nat /\ Len(shards) \in Nat /\ place >= 1
      /\ holder = t /\ t # NoThread /\ f \in Counters /\ sum \in [Counters -> Nat]
      /\ UNCHANGED <<shards, owned, bound, todo, count, records, holder, low>>
      /\ sum' = [sum EXCEPT ![f] = @ + count[shards[place]][f]]
      /\ \/ field < 7 /\ field' = field + 1 /\ place' = place
         \/ field = 7 /\ field' = 0 /\ place' = place + 1
  <2>1. field \in 1..7 /\ place <= Len(shards)
    BY RegistryTypes DEF LoadField, RegistryIInv, Rendering
  <2>2. holder = t /\ t # NoThread
    BY MetricsAssumption DEF LoadField, Threads
  <2>3. sum \in [Counters -> Nat]
    BY RegistryTypes DEF RegistryIInv, RegistryTypeOK
  <2>4. place \in Nat /\ place >= 1 /\ Len(shards) \in Nat
    BY RegistryTypes DEF RegistryIInv, RegistryTypeOK
  <2>5. /\ UNCHANGED <<shards, owned, bound, todo, count, records, holder, low>>
        /\ sum' = [sum EXCEPT ![f] = @ + count[shards[place]][f]]
    BY <1>0 DEF LoadField, recordVars
  <2>6. \/ field < 7 /\ field' = field + 1 /\ place' = place
        \/ field = 7 /\ field' = 0 /\ place' = place + 1
    BY <2>1, FieldsFacts DEF LoadField
  <2> QED BY <2>1, <2>2, <2>3, <2>4, <2>5, <2>6
<1>2. /\ ShardsApart' /\ RecordsCounted'
      /\ \A w \in Recorders, k \in Counters : low'[w][k] <= count'[w][k]
      /\ \A k : /\ Column(low, k, owned)' = Column(low, k, owned)
                /\ Column(count, k, Recorders)' = Column(count, k, Recorders)
  BY <1>1, RenderFrame
<1>3. /\ Passed(f) = place - 1 /\ Passed(f)' = place
      /\ \A k \in Counters : k # f => Passed(k)' = Passed(k)
  <2>1. ASSUME NEW n \in 1..field - 1 PROVE Fields[n] # f
    <3>1. n \in 1..7 /\ field \in 1..7 /\ n # field
      BY <1>1
    <3> QED BY <1>0, <3>1, FieldsFacts
  <2>2. Passed(f) = place - 1
    BY <2>1 DEF Passed
  <2>3. CASE field < 7 /\ field' = field + 1 /\ place' = place
    <3>1. field \in 1..field' - 1
      BY <1>1, <2>3
    <3>2. Passed(f)' = place
      BY <1>0, <1>1, <2>3, <3>1 DEF Passed
    <3>3. ASSUME NEW k \in Counters, k # f
          PROVE  (\E n \in 1..field' - 1 : Fields[n] = k) <=> (\E n \in 1..field - 1 : Fields[n] = k)
      <4>1. \A n \in 1..field' - 1 : n = field \/ n \in 1..field - 1
        BY <1>1, <2>3
      <4>2. \A n \in 1..field - 1 : n \in 1..field' - 1
        BY <1>1, <2>3
      <4> QED BY <1>0, <3>3, <4>1, <4>2
    <3> QED BY <2>2, <2>3, <3>2, <3>3 DEF Passed
  <2>4. CASE field = 7 /\ field' = 0 /\ place' = place + 1
    <3>1. \A k : Passed(k)' = place
      BY <1>1, <2>4 DEF Passed
    <3>2. ASSUME NEW k \in Counters, k # f PROVE Passed(k) = place
      <4>1. PICK n \in 1..7 : Fields[n] = k
        BY FieldsFacts
      <4>2. n \in 1..field - 1
        BY <1>0, <2>4, <3>2, <4>1
      <4> QED BY <4>1, <4>2 DEF Passed
    <3> QED BY <2>2, <3>1, <3>2
  <2> QED BY <1>1, <2>3, <2>4
<1>4. /\ \A k \in Counters : k # f => sum'[k] = sum[k]
      /\ sum'[f] = sum[f] + count[shards[place]][f]
      /\ sum' \in [Counters -> Nat]
  <2>1. count[shards[place]][f] \in Nat
    BY <1>1, OneMoreShard
  <2> QED BY <1>1, <2>1
<1>5. ASSUME NEW k \in Counters
      PROVE  /\ SumTo(Column(low, k, owned), Passed(k)') <= sum'[k]
             /\ sum'[k] <= SumTo(Column(count, k, Recorders), Passed(k)')
  <2>1. /\ SumTo(Column(low, k, owned), Passed(k)) <= sum[k]
        /\ sum[k] <= SumTo(Column(count, k, Recorders), Passed(k))
        /\ sum[k] \in Nat
    BY <1>1 DEF RegistryIInv, SumBounded
  <2>2. CASE k # f
    BY <1>3, <1>4, <2>1, <2>2
  <2>3. CASE k = f
    <3>1. /\ SumTo(Column(low, k, owned), place) = SumTo(Column(low, k, owned), place - 1)
                 + (IF shards[place] \in owned THEN low[shards[place]][k] ELSE 0)
          /\ SumTo(Column(count, k, Recorders), place)
                = SumTo(Column(count, k, Recorders), place - 1) + count[shards[place]][k]
          /\ SumTo(Column(low, k, owned), place - 1) \in Nat
          /\ SumTo(Column(count, k, Recorders), place - 1) \in Nat
          /\ low[shards[place]][k] \in Nat /\ count[shards[place]][k] \in Nat
          /\ low[shards[place]][k] <= count[shards[place]][k]
      BY <1>1, OneMoreShard
    <3>2. /\ Passed(k) = place - 1 /\ Passed(k)' = place
          /\ sum'[k] = sum[k] + count[shards[place]][k]
      BY <1>3, <1>4, <2>3
    <3> QED BY <2>1, <3>1, <3>2
  <2> QED BY <2>2, <2>3
<1>6. SumBounded'
  BY <1>2, <1>5 DEF SumBounded
<1>7. RegistryTypeOK'
  <2>1. place' \in 1..Len(shards') + 1 /\ field' \in 0..Len(Fields)
    <3>1. place' \in 1..Len(shards) + 1 /\ field' \in 0..7
      BY <1>1
    <3> QED BY <1>1, <3>1, FieldsFacts
  <2>2. ASSUME NEW k \in Counters PROVE sum'[k] \in 0..MaxRecords
    <3>1. Passed(k)' \in 0..Len(shards)
      <4>1. Passed(k) \in 0..Len(shards)
        BY PassedRange DEF RegistryIInv
      <4>2. Passed(k)' = Passed(k) \/ Passed(k)' = place
        BY <1>3
      <4> QED BY <1>1, <4>1, <4>2
    <3>2. /\ SumTo(Column(count, k, Recorders), Passed(k)') <= records
          /\ SumTo(Column(count, k, Recorders), Passed(k)') \in Nat
      BY <3>1, CountsBounded DEF RegistryIInv
    <3>3. sum'[k] \in Nat /\ records \in 0..MaxRecords
      BY <1>4 DEF RegistryIInv, RegistryTypeOK
    <3> QED BY <1>5, <3>2, <3>3, MetricsAssumption
  <2>3. sum' \in [Counters -> 0..MaxRecords]
    BY <1>4, <2>2
  <2> QED BY <1>1, <2>1, <2>3 DEF RegistryIInv, RegistryTypeOK
<1>8. Rendering'
  BY <1>1, <1>2 DEF Rendering
<1> QED BY <1>2, <1>6, <1>7, <1>8 DEF RegistryIInv

\* The lock is released with nothing left of the rendering.
LEMMA EndRenderIInv ==
    ASSUME RegistryIInv, NEW t \in Threads, EndRender(t) PROVE RegistryIInv'
<1>1. /\ holder' = NoThread /\ place' = 1 /\ sum' = Zero /\ field' = 0
      /\ low' = [w \in Recorders |-> Zero]
      /\ UNCHANGED <<shards, owned, bound, todo, count, records>>
  BY DEF EndRender, recordVars
<1>2. Zero \in [Counters -> 0..MaxRecords] /\ \A k \in Counters : Zero[k] = 0
  <2>1. 0 \in 0..MaxRecords
    BY MetricsAssumption
  <2> QED BY <2>1 DEF Zero
<1>3. RegistryTypeOK'
  <2>1. place' \in 1..Len(shards') + 1 /\ field' \in 0..Len(Fields)
    BY <1>1, RegistryTypes, FieldsFacts DEF RegistryIInv
  <2>2. low' \in [Recorders -> [Counters -> 0..MaxRecords]]
    BY <1>1, <1>2
  <2> QED BY <1>1, <1>2, <2>1, <2>2 DEF RegistryIInv, RegistryTypeOK
<1>4. ShardsApart'
  BY <1>1 DEF RegistryIInv, ShardsApart
<1>5. RecordsCounted'
  <2>1. \A k : Recorded(k)' = Recorded(k)
    BY <1>1 DEF Recorded, Pending
  <2> QED BY <1>1, <2>1 DEF RegistryIInv, RecordsCounted
<1>6. Rendering'
  <2>1. \A w \in Recorders, k \in Counters : low'[w][k] = 0 /\ count[w][k] \in Nat
    BY <1>1, <1>2, RegistryTypes DEF RegistryIInv
  <2>2. \A w \in Recorders, k \in Counters : low'[w][k] <= count'[w][k]
    BY <1>1, <2>1
  <2> QED BY <1>1, <2>2 DEF Rendering
<1>7. SumBounded'
  BY <1>1, NothingPassed
<1> QED BY <1>3, <1>4, <1>5, <1>6, <1>7 DEF RegistryIInv

\* A step that changes nothing changes no part of the invariant.
LEMMA RegistryStutter == ASSUME RegistryIInv, UNCHANGED registryVars PROVE RegistryIInv'
<1>1. UNCHANGED <<shards, owned, bound, todo, count, records, holder, place, field, sum, low>>
  BY DEF registryVars, recordVars, renderVars
<1>2. RegistryTypeOK' /\ ShardsApart' /\ Rendering'
  BY <1>1 DEF RegistryIInv, RegistryTypeOK, ShardsApart, Rendering
<1>3. RecordsCounted'
  <2>1. \A k : Recorded(k)' = Recorded(k)
    BY <1>1 DEF Recorded, Pending
  <2> QED BY <1>1, <2>1 DEF RegistryIInv, RecordsCounted
<1>4. SumBounded'
  <2>1. \A v \in Recorders, k \in Counters : count[v][k] <= count'[v][k]
    BY <1>1, RegistryTypes DEF RegistryIInv
  <2> QED BY <1>1, <1>2, <2>1, SumsPersist
<1> QED BY <1>2, <1>3, <1>4 DEF RegistryIInv

\* Every action preserves the inductive invariant.
LEMMA RegistryNextIInv == RegistryIInv /\ [RegistryNext]_registryVars => RegistryIInv'
<1> SUFFICES ASSUME RegistryIInv, [RegistryNext]_registryVars PROVE RegistryIInv'
  OBVIOUS
<1>1. ASSUME NEW w \in Recorders, LifeStep(w) PROVE RegistryIInv'
  BY <1>1, CreateIInv, LifeIInv DEF LifeStep
<1>2. ASSUME NEW w \in Recorders, Add(w) PROVE RegistryIInv'
  BY <1>2, AddIInv
<1>3. ASSUME NEW w \in Recorders, NEW r \in Records, BeginRecord(w, r) PROVE RegistryIInv'
  BY <1>3, BeginRecordIInv
<1>4. ASSUME NEW t \in Threads, BeginRender(t) PROVE RegistryIInv'
  BY <1>4, BeginRenderIInv
<1>5. ASSUME NEW t \in Threads, Render(t) PROVE RegistryIInv'
  BY <1>5, LockShardIInv, LoadFieldIInv, EndRenderIInv DEF Render
<1>6. CASE UNCHANGED registryVars
  BY <1>6, RegistryStutter
<1> QED BY <1>1, <1>2, <1>3, <1>4, <1>5, <1>6 DEF RegistryNext

\* The registry's invariant holds in every reachable state.
THEOREM RegistryInductive == RegistrySpec => []RegistryIInv
BY RegistryInitIInv, RegistryNextIInv, PTL DEF RegistrySpec

\* Type correctness: no counter and no total exceeds the number of record_ calls.
THEOREM RegistryTypeCorrect == RegistrySpec => []RegistryTypeOK
<1>1. RegistryIInv => RegistryTypeOK
  BY DEF RegistryIInv
<1> QED BY <1>1, RegistryInductive, PTL

\* Over all shards together, what was added to a counter and what running record_
\* calls still owe it is never more than the record_ calls: no addition is made twice.
THEOREM NoCountInvented == RegistrySpec => []RecordsCounted
<1>1. RegistryIInv => RecordsCounted
  BY DEF RegistryIInv
<1> QED BY <1>1, RegistryInductive, PTL

\* What is printed when the lock is released lies between what the live shards had
\* counted when it was taken and what all shards have counted now.
LEMMA PrintedTotals ==
    ASSUME RegistryIInv, NEW t \in Threads, EndRender(t), NEW k \in Counters
    PROVE  /\ sum[k] >= Total(low, k, {w \in Recorders : Alive(w)})
           /\ sum[k] <= Total(count, k, Recorders)
<1>1. place = Len(shards) + 1 /\ field = 0 /\ Len(shards) \in Nat
  BY RegistryTypes DEF EndRender, RegistryIInv, RegistryTypeOK
<1>2. Passed(k) = Len(shards)
  BY <1>1 DEF Passed
<1>3. {w \in Recorders : Alive(w)} = owned
  BY DEF Alive, RegistryIInv, RegistryTypeOK
<1>4. /\ SumTo(Column(low, k, owned), Len(shards)) <= sum[k]
      /\ sum[k] <= SumTo(Column(count, k, Recorders), Len(shards))
  BY <1>2 DEF RegistryIInv, SumBounded
<1>5. /\ SumTo(Column(low, k, owned), Len(shards)) \in Nat
      /\ SumTo(Column(count, k, Recorders), Len(shards)) \in Nat
      /\ sum[k] \in Nat
  <2>1. /\ shards \in Seq(Recorders) /\ Len(shards) \in 0..Len(shards) /\ sum[k] \in Nat
        /\ low \in [Recorders -> [Counters -> Nat]] /\ count \in [Recorders -> [Counters -> Nat]]
    BY <1>1, RegistryTypes DEF RegistryIInv, RegistryTypeOK
  <2> QED BY <1>1, <2>1, ColumnNaturals, SumToNat
<1> QED BY <1>3, <1>4, <1>5 DEF Total

\* render_prometheus prints nothing that was not counted and loses nothing that a
\* live shard had counted, however the other threads count and end meanwhile.
THEOREM RenderedTotalsCorrect == RegistrySpec => RenderedTotalsAreBounded
<1>1. ASSUME RegistryIInv, [RegistryNext]_registryVars
      PROVE  [\A t \in Threads : EndRender(t) =>
                \A k \in Counters :
                   /\ sum[k] >= Total(low, k, {w \in Recorders : Alive(w)})
                   /\ sum[k] <= Total(count, k, Recorders)]_registryVars
  BY <1>1, PrintedTotals
<1> QED BY <1>1, RegistryInductive, PTL DEF RegistrySpec, RenderedTotalsAreBounded
=============================================================================
