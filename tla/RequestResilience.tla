-------------------------- MODULE RequestResilience --------------------------
(***************************************************************************)
(* One resilient exchange with another service: what fetchWithResilience   *)
(* (services/base/request-resilience.js) may do next after a response, an  *)
(* error or a timer, as operators on the record of the exchange.  The      *)
(* modules that use it hold the records and take the steps.                *)
(*                                                                         *)
(* Time is counted in whole units and a timer acts in the unit it is due.  *)
(* Discarding a response that is retried takes no time.                    *)
(***************************************************************************)
EXTENDS Integers

CONSTANTS
    TotalTimeout,    \* totalTimeoutMs
    AttemptTimeout,  \* attemptTimeoutMs
    MaxRetries,      \* maxRetryAttempts
    RetryDelay       \* retryDelayMs

ASSUME ResilienceAssumption ==
    /\ TotalTimeout \in Nat \ {0} /\ AttemptTimeout \in Nat \ {0}
    /\ MaxRetries \in Nat /\ RetryDelay \in Nat

\* The caller passed no signal of its own.
NoSignal == -1

\* busy: 408, 429 or 5xx; rejected: any other answer that is not ok.
Statuses == {"ok", "rejected", "busy"}

Exchange ==
    [phase   : {"idle", "sent", "delaying", "reading", "answered", "failed"},
     retry   : BOOLEAN,             \* the caller allows retries
     attempt : 0 .. MaxRetries,     \* retryAttempt
     elapsed : 0 .. TotalTimeout,   \* since startedAt
     age     : 0 .. AttemptTimeout, \* of the running attempt
     delay   : 0 .. TotalTimeout,   \* left of the retry delay
     signal  : Nat \cup {NoSignal}, \* left of the caller's signal; 0: aborted
     status  : Statuses]            \* of the response being read

Idle == [phase |-> "idle", retry |-> FALSE, attempt |-> 0, elapsed |-> 0,
         age |-> 0, delay |-> 0, signal |-> NoSignal, status |-> "ok"]

Running(e) == e.phase \in {"sent", "delaying", "reading"}
Ended(e)   == e.phase \in {"answered", "failed"}

Answered == [Idle EXCEPT !.phase = "answered"]
Failed   == [Idle EXCEPT !.phase = "failed"]

\* The first attempt.  A signal already aborted rejects before anything is sent.
Send(retry, signal) ==
    IF signal = 0
    THEN Failed
    ELSE [Idle EXCEPT !.phase = "sent", !.retry = retry, !.signal = signal]

Aborted(e)   == e.signal = 0
Remaining(e) == TotalTimeout - e.elapsed
OutOfTime(e) == Remaining(e) <= 0

AttemptOver(e) == e.age >= AttemptTimeout \/ OutOfTime(e)

TimerDue(e) ==
    \/ e.phase \in {"sent", "reading"} /\ (AttemptOver(e) \/ Aborted(e))
    \/ e.phase = "delaying" /\ (e.delay = 0 \/ OutOfTime(e) \/ Aborted(e))

\* retryDelay * 2^n, made up to twice as long at random; cut at TotalTimeout,
\* which no exchange has time for.
Delays(n) ==
    {d \in 0 .. TotalTimeout :
        /\ d >= RetryDelay * 2^n \/ d = TotalTimeout
        /\ d <= RetryDelay * 2^(n + 1)}

\* The Retry-After header: seconds, or a date that may have passed.
RetryAfters == 0 .. TotalTimeout

HasTimeForDelay(e, d) == d < Remaining(e)

\* Slip: the retry limit is forgotten.
BugCanRetry(e) == e.retry

CanRetry(e) == e.retry /\ e.attempt < MaxRetries

DelayOr(e, d, otherwise) ==
    IF HasTimeForDelay(e, d)
    THEN [e EXCEPT !.phase = "delaying", !.delay = d, !.age = 0]
    ELSE otherwise

\* The fetch rejected: a network error, or a timer or signal that aborted it.
AfterError(e) ==
    IF CanRetry(e) /\ ~OutOfTime(e) /\ ~Aborted(e)
    THEN {DelayOr(e, d, Failed) : d \in Delays(e.attempt)}
    ELSE {Failed}

AfterResponse(e, status) ==
    LET read == [e EXCEPT !.phase = "reading", !.status = status]
    IN IF CanRetry(e) /\ status = "busy"
       THEN {DelayOr(e, d, read) : d \in RetryAfters \cup Delays(e.attempt)}
       ELSE {read}

\* The delay is over or aborted: the loop's next turn.
AfterDelay(e) ==
    IF OutOfTime(e) \/ Aborted(e)
    THEN Failed
    ELSE [e EXCEPT !.phase = "sent", !.attempt = @ + 1, !.age = 0, !.delay = 0]

\* The body arrives, or does not: it is read under the same signals, never retried.
AfterBody(e) == IF e.status = "ok" THEN {Answered, Failed} ELSE {Failed}

\* What a timer that is due makes of the exchange.
AfterTimer(e) ==
    CASE e.phase = "sent"     -> AfterError(e)
      [] e.phase = "delaying" -> {AfterDelay(e)}
      [] OTHER                -> {Failed}

\* One unit of time later.
Older(e) ==
    IF ~Running(e)
    THEN e
    ELSE [e EXCEPT !.elapsed = @ + 1,
                   !.age     = IF e.phase = "delaying" THEN @ ELSE @ + 1,
                   !.delay   = IF e.phase = "delaying" THEN @ - 1 ELSE @,
                   !.signal  = IF @ > 0 THEN @ - 1 ELSE @]
===============================================================================
