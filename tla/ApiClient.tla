------------------------------ MODULE ApiClient ------------------------------
(***************************************************************************)
(* The calls one server process makes to one API: each takes the service's *)
(* token from the cache or from the refresh all callers share              *)
(* (services/base/oauth-token.js), then makes its request                  *)
(* (services/base/base-api.service.js); the health endpoint's checks       *)
(* (routes/health/dependency-health-checks.js) use the same token under a  *)
(* shorter timeout of their own.                                           *)
(***************************************************************************)
EXTENDS RequestResilience

CONSTANTS
    Calls,          \* the calls of a behaviour
    Mixes,          \* what each of them is: a set of functions from Calls to Kinds
    HealthTimeout,  \* health.downstreamTimeoutMs
    TokenLife,      \* expires_in of every token
    TokenBuffer,    \* TOKEN_BUFFER_SECONDS
    MinCacheTtl,    \* MIN_CACHE_TTL_MS
    Token           \* the exchange with the token endpoint

\* read: a GET; write: POST, PUT, PATCH or DELETE; the rest are health checks:
\* of an API that needs a token, of the account service, and of what needs none.
Kinds  == {"read", "write", "apiHealth", "accountHealth", "plainHealth"}
Health == {"apiHealth", "accountHealth", "plainHealth"}

\* A check ends before an attempt would, so it needs no timers but its signal;
\* a cached token outlives the call it is handed to.
ASSUME ApiClientAssumption ==
    /\ Mixes \subseteq [Calls -> Kinds]
    /\ Token \notin Calls
    /\ HealthTimeout \in Nat \ {0}
    /\ HealthTimeout <= AttemptTimeout /\ HealthTimeout <= TotalTimeout
    /\ MinCacheTtl \in Nat \ {0}
    /\ TokenBuffer \in Nat /\ TokenBuffer >= TotalTimeout + AttemptTimeout
    /\ TokenLife \in Nat /\ TokenLife >= TokenBuffer + MinCacheTtl

VARIABLES
    kind,     \* what each call is
    step,     \* where each call is: its token, then its request
    ex,       \* its exchange with the API, and the one for the shared token
    sends,    \* how many requests of the call were put on the wire
    age,      \* how long the call has run, 0 once it is over
    life,     \* how long the token it carries stays valid, 0 once it is over
    cache,    \* the cached token: how long the entry and the token live
    joined,   \* the calls that joined a refresh another had begun
    report    \* what the health endpoint answered, once its checks are over

vars == <<kind, step, ex, sends, age, life, cache, joined, report>>

Exchanges == Calls \cup {Token}

\* Ages are counted to one more than the longest budget.
AgeBound == 2 * TotalTimeout + 1

TypeOK ==
    /\ kind \in Mixes
    /\ step \in [Calls -> {"idle", "lookup", "token", "request"}]
    /\ ex \in [Exchanges -> Exchange]
    /\ sends \in [Calls -> 0 .. MaxRetries + 1]
    /\ age \in [Calls -> 0 .. AgeBound]
    /\ life \in [Calls -> Nat]
    /\ cache \in [ttl : Nat, life : Nat]
    /\ joined \subseteq Calls
    /\ report \in {"none", "Healthy", "Unhealthy"}

Init ==
    /\ kind \in Mixes
    /\ step = [c \in Calls |-> "idle"]
    /\ ex = [x \in Exchanges |-> Idle]
    /\ sends = [c \in Calls |-> 0]
    /\ age = [c \in Calls |-> 0]
    /\ life = [c \in Calls |-> 0]
    /\ cache = [ttl |-> 0, life |-> 0]
    /\ joined = {}
    /\ report = "none"

-------------------------------------------------------------------------------
(* Starting a request once the token is there                                *)

Over(c) == step[c] = "request" /\ Ended(ex[c])
Pending(c) == step[c] # "idle" /\ ~Over(c)

Left(n) == IF n > 0 THEN n ELSE 0

\* The signal a caller passes to getHeaders and so to the token request.
TokenSignal(c) ==
    IF kind[c] \in Health THEN Left(HealthTimeout - age[c]) ELSE NoSignal

\* Slip: every request may be retried.
BugRetries(c) == kind[c] \notin Health

\* Only a GET of the services is retried; a check fetches once.
Retries(c) == kind[c] = "read"

\* Slip: the API check's request gets a timeout of its own.
BugRequestSignal(c) == IF kind[c] \in Health THEN HealthTimeout ELSE NoSignal

\* One signal spans both halves of an API check; the account check makes a new one.
RequestSignal(c) ==
    CASE kind[c] = "apiHealth" -> Left(HealthTimeout - age[c])
      [] kind[c] \in {"accountHealth", "plainHealth"} -> HealthTimeout
      [] OTHER -> NoSignal

Request(c) == Send(Retries(c), RequestSignal(c))
Sent(c) == IF Request(c).phase = "sent" THEN 1 ELSE 0

\* The calls of a set go on to their requests with a token that lives for `valid`.
Proceed(cs, valid) ==
    /\ step' = [c \in Calls |-> IF c \in cs THEN "request" ELSE step[c]]
    /\ sends' = [c \in Calls |-> IF c \in cs THEN sends[c] + Sent(c) ELSE sends[c]]
    /\ life' = [c \in Calls |-> IF c \in cs THEN valid ELSE life[c]]

-------------------------------------------------------------------------------
(* The token                                                                 *)

\* A call begins; a check of what needs no token goes straight to its request.
Begin(c) ==
    /\ step[c] = "idle"
    /\ IF kind[c] = "plainHealth"
       THEN /\ Proceed({c}, 0)
            /\ ex' = [ex EXCEPT ![c] = Request(c)]
       ELSE /\ step' = [step EXCEPT ![c] = "lookup"]
            /\ UNCHANGED <<ex, sends, life>>
    /\ UNCHANGED <<kind, age, cache, joined, report>>

\* getServiceOAuthAccessToken, with the token found in the cache.
UseCached(c) ==
    /\ step[c] = "lookup"
    /\ cache.ttl > 0
    /\ Proceed({c}, cache.life)
    /\ ex' = [ex EXCEPT ![c] = Request(c)]
    /\ UNCHANGED <<kind, age, cache, joined, report>>

\* Nothing cached, or the cache cannot be read: refreshAccessToken, which joins
\* the refresh in progress or begins one under this caller's signal.
Refresh(c) ==
    /\ step[c] = "lookup"
    /\ ~Ended(ex[Token])
    /\ step' = [step EXCEPT ![c] = "token"]
    /\ IF Running(ex[Token])
       THEN /\ joined' = joined \cup {c}
            /\ UNCHANGED ex
       ELSE /\ ex' = [ex EXCEPT ![Token] = Send(TRUE, TokenSignal(c))]
            /\ UNCHANGED joined
    /\ UNCHANGED <<kind, sends, age, life, cache, report>>

Waiting == {c \in Calls : step[c] = "token"}

\* Slip: the entry lives as long as the token.
BugCacheTtl == TokenLife

CacheTtl ==
    IF TokenLife - TokenBuffer > MinCacheTtl THEN TokenLife - TokenBuffer ELSE MinCacheTtl

\* The token was issued some time after the running attempt was sent.  Writing it
\* to the cache may fail, which is only logged.
TokenArrives ==
    /\ ex[Token].phase = "answered"
    /\ \E issued \in 0 .. AttemptTimeout :
          /\ Proceed(Waiting, TokenLife - issued)
          /\ cache' \in {cache, [ttl |-> CacheTtl, life |-> TokenLife - issued]}
    /\ ex' = [x \in Exchanges |->
                CASE x = Token     -> Idle
                  [] x \in Waiting -> Request(x)
                  [] OTHER         -> ex[x]]
    /\ UNCHANGED <<kind, age, joined, report>>

\* Slip: only the caller that began the refresh hears of its failure.
BugTokenFails ==
    /\ ex[Token].phase = "failed"
    /\ step' = [c \in Calls |-> IF c \in Waiting \ joined THEN "request" ELSE step[c]]
    /\ ex' = [x \in Exchanges |->
                CASE x = Token              -> Idle
                  [] x \in Waiting \ joined -> Failed
                  [] OTHER                  -> ex[x]]
    /\ UNCHANGED <<kind, sends, age, life, cache, joined, report>>

\* The refresh failed for every caller that shares it.
TokenFails ==
    /\ ex[Token].phase = "failed"
    /\ step' = [c \in Calls |-> IF c \in Waiting THEN "request" ELSE step[c]]
    /\ ex' = [x \in Exchanges |->
                CASE x = Token     -> Idle
                  [] x \in Waiting -> Failed
                  [] OTHER         -> ex[x]]
    /\ UNCHANGED <<kind, sends, age, life, cache, joined, report>>

-------------------------------------------------------------------------------
(* The exchanges, the other side's steps and the clock                       *)

Become(x, e) ==
    /\ ex' = [ex EXCEPT ![x] = e]
    /\ sends' = IF x \in Calls /\ e.phase = "sent"
                THEN [sends EXCEPT ![x] = @ + 1]
                ELSE sends
    /\ UNCHANGED <<kind, step, age, life, cache, joined, report>>

\* The other side answers an attempt, the network breaks it, a body arrives.
Respond(x, status) ==
    /\ ex[x].phase = "sent"
    /\ \E e \in AfterResponse(ex[x], status) : Become(x, e)

Break(x) ==
    /\ ex[x].phase = "sent"
    /\ \E e \in AfterError(ex[x]) : Become(x, e)

ReadBody(x) ==
    /\ ex[x].phase = "reading"
    /\ \E e \in AfterBody(ex[x]) : Become(x, e)

Timer(x) ==
    /\ TimerDue(ex[x])
    /\ \E e \in AfterTimer(ex[x]) : Become(x, e)

\* Nothing is due: time passes while a call runs or a token is cached.
Tick ==
    /\ \A x \in Exchanges : ~TimerDue(ex[x])
    /\ ~Ended(ex[Token])
    /\ \A c \in Calls : step[c] # "lookup"
    /\ cache.ttl > 0 \/ \E c \in Calls : Pending(c)
    /\ ex' = [x \in Exchanges |-> Older(ex[x])]
    /\ age' = [c \in Calls |-> IF ~Pending(c) THEN 0
                              ELSE IF age[c] < AgeBound THEN age[c] + 1 ELSE AgeBound]
    /\ life' = [c \in Calls |-> IF Running(ex[c]) THEN Left(life[c] - 1) ELSE 0]
    /\ cache' = [ttl |-> Left(cache.ttl - 1), life |-> Left(cache.life - 1)]
    /\ UNCHANGED <<kind, step, sends, joined, report>>

Checks == {c \in Calls : kind[c] \in Health}

\* Slip: a check that fails throws, and the handler never gets to its answer.
BugReport ==
    /\ report = "none"
    /\ Checks # {} /\ \A c \in Checks : step[c] = "request" /\ ex[c].phase = "answered"
    /\ report' = "Healthy"
    /\ UNCHANGED <<kind, step, ex, sends, age, life, cache, joined>>

\* runDependencyHealthChecks: every check is waited for, none throws, and one that
\* failed makes the whole unhealthy.
Report ==
    /\ report = "none"
    /\ Checks # {} /\ \A c \in Checks : Over(c)
    /\ report' = IF \A c \in Checks : ex[c].phase = "answered" THEN "Healthy" ELSE "Unhealthy"
    /\ UNCHANGED <<kind, step, ex, sends, age, life, cache, joined>>

Next ==
    \/ \E c \in Calls : Begin(c) \/ UseCached(c) \/ Refresh(c)
    \/ TokenArrives \/ TokenFails
    \/ \E x \in Exchanges : Break(x) \/ ReadBody(x) \/ Timer(x)
    \/ \E x \in Exchanges, status \in Statuses : Respond(x, status)
    \/ Report
    \/ Tick

Spec == Init /\ [][Next]_vars

\* The event loop goes on: timers act, the cache answers, time passes.  Nothing
\* is assumed of the other side, which may never answer.
Fairness ==
    /\ \A c \in Calls : WF_vars(UseCached(c) \/ Refresh(c))
    /\ WF_vars(TokenArrives \/ TokenFails)
    /\ \A x \in Exchanges : WF_vars(Timer(x))
    /\ WF_vars(Report)
    /\ WF_vars(Tick)

FairSpec == Spec /\ Fairness

-------------------------------------------------------------------------------

\* A request that may change something is put on the wire at most once, however
\* its token was got and whatever it met; a read at most once more than it may
\* be retried, and a health check once.
MutationSentOnce ==
    \A c \in Calls : sends[c] <= IF kind[c] = "read" THEN MaxRetries + 1 ELSE 1

\* The longest a call may run.  A check is held to its own timeout (the account
\* check's once for each half) unless it joined a refresh begun by another, whose
\* budget it then waits out.
Budget(c) ==
    LET tokenPart == IF c \in joined THEN TotalTimeout ELSE HealthTimeout
    IN CASE kind[c] = "plainHealth"   -> HealthTimeout
         [] kind[c] = "apiHealth"     -> tokenPart
         [] kind[c] = "accountHealth" -> tokenPart + HealthTimeout
         [] OTHER                     -> 2 * TotalTimeout

\* Every call is over, answered or failed, within its budget: the delay, the
\* attempt's timer, the total and the caller's own signal never leave it running.
EndsInTime == \A c \in Calls : age[c] <= Budget(c)

\* No attempt of a request carries a token that has expired: the buffer taken off
\* the cache entry covers the longest the token was under way and every retry.
NoExpiredToken ==
    \A c \in Calls :
        kind[c] # "plainHealth" /\ ex[c].phase = "sent" => life[c] > 0

\* Whatever the API and the token endpoint do, every call that began is over some
\* day: no caller is left waiting for a refresh nobody is making.
CallEnds == \A c \in Calls : Pending(c) ~> Over(c)

\* The health endpoint answers once its checks have begun: a dependency that never
\* answers, or a token refresh made by someone else, cannot hold its report back.
HealthAnswers ==
    (Checks # {} /\ \A c \in Checks : step[c] # "idle") ~> (report # "none")
===============================================================================
