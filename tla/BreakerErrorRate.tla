-------------------------- MODULE BreakerErrorRate ---------------------------
(***************************************************************************)
(* CircuitBreaker beside an observer that keeps the error rate of the      *)
(* reports a closed breaker gets, window after window of equal length.     *)
(***************************************************************************)
EXTENDS CircuitBreaker

CONSTANTS
    Window,         \* reports over which the rate is taken
    ErrorRate       \* the threshold, in percent

VARIABLES
    reports,        \* reports in the window, since the breaker closed
    failures        \* those of them that were failures

rateVars == <<circuitVars, reports, failures>>

RateInit == BreakerInit /\ reports = 0 /\ failures = 0

Reported == \E c \in Callers : inflight[c] # "idle" /\ inflight'[c] = "idle"

\* A full window, and any state but Closed, starts the count anew.
Observe ==
    LET fresh == reports = Window
        one(holds) == IF holds THEN 1 ELSE 0
    IN  IF state = "Closed" /\ state' = "Closed"
        THEN /\ reports' = (IF fresh THEN 0 ELSE reports) + one(Reported)
             /\ failures' = (IF fresh THEN 0 ELSE failures)
                               + one(Reported /\ ~upstreamUp)
        ELSE reports' = 0 /\ failures' = 0

RateNext == BreakerNext /\ Observe

RateSpec == RateInit /\ [][RateNext]_rateVars

\* The state diagram of the architecture document, "Closed --> Open:
\* error_rate > threshold": no breaker is closed at the end of a window in
\* which more than the threshold of its reports were failures.
OpensOnErrorRate ==
    state = "Closed" /\ reports = Window => 100 * failures <= ErrorRate * Window
=============================================================================
