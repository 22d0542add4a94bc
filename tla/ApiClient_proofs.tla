--------------------------- MODULE ApiClient_proofs ---------------------------
(***************************************************************************)
(* What the shared token refresh, the retries and the timers guarantee for *)
(* any number of calls and any timeouts the assumptions allow.             *)
(***************************************************************************)
EXTENDS ApiClient, TLAPS

\* A retry is never waited for by an exchange that may not make one.
ExchangeInv(e) ==
    /\ e \in Exchange
    /\ e.phase = "delaying" => e.retry /\ e.attempt < MaxRetries
    /\ ~e.retry => e.attempt = 0

MaxSends(c) == IF kind[c] = "read" THEN MaxRetries + 1 ELSE 1

\* Each attempt was one request, and there is none before the token is there.
SendInv(c) ==
    /\ step[c] = "request" <=> ex[c].phase # "idle"
    /\ ex[c].phase = "idle" => sends[c] = 0
    /\ step[c] \in {"lookup", "token"} => kind[c] # "plainHealth"
    /\ Running(ex[c]) => (ex[c].retry <=> kind[c] = "read") /\ sends[c] = ex[c].attempt + 1
    /\ sends[c] <= MaxSends(c)

\* A cached token outlives its entry by a whole call, and so the token a call carries
\* outlives what the call has left.
LifeInv ==
    /\ cache.ttl > 0 => cache.life >= cache.ttl + TotalTimeout
    /\ \A c \in Calls : Running(ex[c]) /\ kind[c] # "plainHealth" =>
                            life[c] + ex[c].elapsed > TotalTimeout

\* The longest a call may wait for its token.
TokenPart(c) == IF c \notin joined /\ kind[c] \in Health THEN HealthTimeout ELSE TotalTimeout

\* A caller waits as long as the refresh has run, or joined it later; then its own
\* exchange's clock runs on top of that wait.
WaitInv(c) ==
    /\ step[c] = "token" => ex[Token].phase # "idle"
    /\ step[c] = "token" /\ Running(ex[Token]) =>
           /\ age[c] <= ex[Token].elapsed
           /\ c \notin joined /\ kind[c] \in Health =>
                  ex[Token].signal \in Nat /\ ex[Token].signal + ex[Token].elapsed = HealthTimeout
    /\ step[c] = "token" => age[c] <= TokenPart(c)

RequestInv(c) ==
    Running(ex[c]) =>
        CASE kind[c] = "plainHealth"   -> /\ age[c] = ex[c].elapsed
                                          /\ ex[c].signal \in Nat
                                          /\ ex[c].signal + ex[c].elapsed = HealthTimeout
          [] kind[c] = "apiHealth"     -> /\ ex[c].signal \in Nat
                                          /\ ex[c].signal + age[c] = HealthTimeout
          [] kind[c] = "accountHealth" -> /\ age[c] <= TokenPart(c) + ex[c].elapsed
                                          /\ ex[c].signal \in Nat
                                          /\ ex[c].signal + ex[c].elapsed = HealthTimeout
          [] OTHER                     -> age[c] <= TotalTimeout + ex[c].elapsed

AgeInv(c) ==
    /\ step[c] \in {"idle", "lookup"} => age[c] = 0 /\ c \notin joined
    /\ age[c] <= Budget(c)
    /\ WaitInv(c)
    /\ RequestInv(c)

ClientInv ==
    /\ TypeOK
    /\ \A x \in Exchanges : ExchangeInv(ex[x])
    /\ \A c \in Calls : SendInv(c) /\ AgeInv(c)
    /\ LifeInv

-------------------------------------------------------------------------------
(* One exchange                                                              *)

\* What goes on is the same exchange, one attempt later when it is sent anew.
Continues(f, e) ==
    /\ Running(f)
    /\ f.retry = e.retry /\ f.elapsed = e.elapsed /\ f.signal = e.signal
    /\ f.attempt = IF f.phase = "sent" THEN e.attempt + 1 ELSE e.attempt

LEMMA Ends ==
  /\ ExchangeInv(Idle) /\ Idle.phase = "idle"
  /\ ExchangeInv(Failed) /\ Failed.phase = "failed"
  /\ ExchangeInv(Answered) /\ Answered.phase = "answered"
<1>1. 0 \in 0 .. MaxRetries /\ 0 \in 0 .. TotalTimeout /\ 0 \in 0 .. AttemptTimeout
  BY ResilienceAssumption
<1>2. Idle \in Exchange /\ Idle.phase = "idle" /\ Idle.attempt = 0
  BY <1>1 DEF Idle, Exchange, Statuses
<1>3. /\ Failed \in Exchange /\ Failed.phase = "failed" /\ Failed.attempt = 0
      /\ Answered \in Exchange /\ Answered.phase = "answered" /\ Answered.attempt = 0
  BY <1>2 DEF Failed, Answered, Exchange
<1>. QED  BY <1>2, <1>3 DEF ExchangeInv

LEMMA SendFacts ==
  ASSUME NEW retry \in BOOLEAN, NEW signal \in Nat \cup {NoSignal}
  PROVE  LET e == Send(retry, signal)
         IN /\ ExchangeInv(e)
            /\ signal = 0 => e.phase = "failed"
            /\ signal # 0 => /\ e.phase = "sent" /\ e.retry = retry /\ e.signal = signal
                             /\ e.attempt = 0 /\ e.elapsed = 0
BY Ends, ResilienceAssumption
   DEF Send, Idle, ExchangeInv, Exchange, Statuses, NoSignal

LEMMA DelayBound == \A n : Delays(n) \subseteq 0 .. TotalTimeout
BY ZenonT(20) DEF Delays

LEMMA DelayOrFacts ==
  ASSUME NEW e, ExchangeInv(e), CanRetry(e), e.phase = "sent", NEW d \in 0 .. TotalTimeout,
         NEW otherwise, ExchangeInv(otherwise), Ended(otherwise) \/ Continues(otherwise, e)
  PROVE  LET f == DelayOr(e, d, otherwise)
         IN ExchangeInv(f) /\ (Ended(f) \/ Continues(f, e))
<1>1. CASE HasTimeForDelay(e, d)
  <2>. DEFINE f == [e EXCEPT !.phase = "delaying", !.delay = d, !.age = 0]
  <2>1. /\ f \in Exchange /\ f.phase = "delaying" /\ f.retry = e.retry /\ f.attempt = e.attempt
        /\ f.elapsed = e.elapsed /\ f.signal = e.signal
    <3>1. e \in Exchange /\ 0 \in 0 .. AttemptTimeout
      BY ResilienceAssumption DEF ExchangeInv
    <3>. QED  BY <3>1 DEF Exchange
  <2>2. DelayOr(e, d, otherwise) = f
    BY <1>1 DEF DelayOr
  <2>. QED  BY <2>1, <2>2 DEF ExchangeInv, Continues, Running, CanRetry
<1>2. CASE ~HasTimeForDelay(e, d)
  BY <1>2 DEF DelayOr
<1>. QED  BY <1>1, <1>2

LEMMA AfterErrorFacts ==
  ASSUME NEW e, ExchangeInv(e), e.phase = "sent", NEW f \in AfterError(e)
  PROVE  ExchangeInv(f) /\ (Ended(f) \/ Continues(f, e))
<1>1. CASE f = Failed
  BY <1>1, Ends DEF Ended
<1>2. CASE CanRetry(e) /\ \E d \in Delays(e.attempt) : f = DelayOr(e, d, Failed)
  <2>1. PICK d \in 0 .. TotalTimeout : f = DelayOr(e, d, Failed)
    BY <1>2, DelayBound
  <2>2. Ended(Failed)
    BY Ends DEF Ended
  <2>. QED  BY <1>2, <2>1, <2>2, Ends, DelayOrFacts
<1>. QED  BY <1>1, <1>2 DEF AfterError

LEMMA AfterResponseFacts ==
  ASSUME NEW e, ExchangeInv(e), e.phase = "sent", NEW status \in Statuses,
         NEW f \in AfterResponse(e, status)
  PROVE  ExchangeInv(f) /\ (Ended(f) \/ Continues(f, e))
<1>. DEFINE read == [e EXCEPT !.phase = "reading", !.status = status]
<1>1. ExchangeInv(read) /\ Continues(read, e)
  BY DEF ExchangeInv, Exchange, Continues, Running
<1>2. CASE f = read
  BY <1>1, <1>2
<1>3. CASE CanRetry(e) /\ \E d \in RetryAfters \cup Delays(e.attempt) : f = DelayOr(e, d, read)
  <2>. HIDE DEF read
  <2>1. PICK d \in 0 .. TotalTimeout : f = DelayOr(e, d, read)
    BY <1>3, DelayBound DEF RetryAfters
  <2>. QED  BY <1>1, <1>3, <2>1, DelayOrFacts
<1>. QED  BY <1>2, <1>3 DEF AfterResponse

LEMMA AfterBodyFacts ==
  ASSUME NEW e, NEW f \in AfterBody(e)
  PROVE  ExchangeInv(f) /\ Ended(f)
BY Ends DEF AfterBody, Ended

LEMMA AfterTimerFacts ==
  ASSUME NEW e, ExchangeInv(e), Running(e), NEW f \in AfterTimer(e)
  PROVE  ExchangeInv(f) /\ (Ended(f) \/ Continues(f, e))
<1>1. CASE e.phase = "sent"
  BY <1>1, AfterErrorFacts DEF AfterTimer
<1>2. CASE e.phase = "delaying"
  <2>1. CASE AfterDelay(e) = Failed
    BY <1>2, <2>1, Ends DEF AfterTimer, Ended
  <2>2. CASE AfterDelay(e) = [e EXCEPT !.phase = "sent", !.attempt = @ + 1, !.age = 0,
                                       !.delay = 0]
    <3>1. e.attempt + 1 \in 0 .. MaxRetries
      BY <1>2, ResilienceAssumption DEF ExchangeInv, Exchange
    <3>2. f = AfterDelay(e)
      BY <1>2 DEF AfterTimer
    <3>3. /\ f \in Exchange /\ f.phase = "sent" /\ f.retry = e.retry
          /\ f.attempt = e.attempt + 1 /\ f.elapsed = e.elapsed /\ f.signal = e.signal
      <4>1. e \in Exchange /\ 0 \in 0 .. AttemptTimeout /\ 0 \in 0 .. TotalTimeout
        BY ResilienceAssumption DEF ExchangeInv
      <4>. QED  BY <2>2, <3>1, <3>2, <4>1 DEF Exchange
    <3>. QED  BY <1>2, <3>3 DEF ExchangeInv, Continues, Running
  <2>. QED  BY <2>1, <2>2 DEF AfterDelay
<1>3. CASE e.phase = "reading"
  BY <1>3, Ends DEF AfterTimer, Ended
<1>. QED  BY <1>1, <1>2, <1>3 DEF Running

\* Nothing is due, so every clock has room for one more unit.
LEMMA OlderFacts ==
  ASSUME NEW e, ExchangeInv(e), ~TimerDue(e)
  PROVE  /\ ExchangeInv(Older(e)) /\ Older(e).phase = e.phase
         /\ Older(e).retry = e.retry /\ Older(e).attempt = e.attempt
         /\ Running(e) => /\ e.elapsed < TotalTimeout /\ Older(e).elapsed = e.elapsed + 1
                          /\ e.signal \in Nat =>
                                 Older(e).signal \in Nat /\ Older(e).signal = e.signal - 1
<1>1. CASE ~Running(e)
  BY <1>1 DEF Older
<1>2. CASE Running(e)
  <2>1. /\ e \in Exchange /\ e.elapsed < TotalTimeout /\ e.signal # 0
        /\ e.phase = "delaying" => e.delay > 0
        /\ e.phase # "delaying" => e.age < AttemptTimeout
    BY <1>2, ResilienceAssumption
       DEF ExchangeInv, Exchange, TimerDue, AttemptOver, Aborted, OutOfTime, Remaining, Running
  <2>2. /\ Older(e).phase = e.phase /\ Older(e).retry = e.retry /\ Older(e).attempt = e.attempt
        /\ Older(e).elapsed = e.elapsed + 1
        /\ Older(e).age = (IF e.phase = "delaying" THEN e.age ELSE e.age + 1)
        /\ Older(e).delay = (IF e.phase = "delaying" THEN e.delay - 1 ELSE e.delay)
        /\ Older(e).signal = (IF e.signal > 0 THEN e.signal - 1 ELSE e.signal)
    BY <1>2, <2>1 DEF Older, Exchange
  <2>3. /\ e.elapsed + 1 \in 0 .. TotalTimeout
        /\ (IF e.phase = "delaying" THEN e.age ELSE e.age + 1) \in 0 .. AttemptTimeout
        /\ (IF e.phase = "delaying" THEN e.delay - 1 ELSE e.delay) \in 0 .. TotalTimeout
        /\ (IF e.signal > 0 THEN e.signal - 1 ELSE e.signal) \in Nat \cup {NoSignal}
    BY <2>1, ResilienceAssumption DEF Exchange, NoSignal
  <2>4. Older(e) \in Exchange
    BY <1>2, <2>1, <2>3 DEF Older, Exchange
  <2>. QED  BY <2>1, <2>2, <2>4, ResilienceAssumption DEF ExchangeInv, Exchange, NoSignal
<1>. QED  BY <1>1, <1>2

-------------------------------------------------------------------------------
(* A step of one exchange                                                    *)

LEMMA Kind == ASSUME TypeOK, NEW c \in Calls PROVE kind[c] \in Kinds
BY ApiClientAssumption DEF TypeOK

LEMMA InitInv == Init => ClientInv
<1> SUFFICES ASSUME Init PROVE ClientInv
  OBVIOUS
<1>1. /\ \A x \in Exchanges : ex[x] = Idle
      /\ \A c \in Calls : /\ ex[c] = Idle /\ step[c] = "idle" /\ sends[c] = 0 /\ age[c] = 0
                          /\ c \notin joined
  BY DEF Init, Exchanges
<1>2. TypeOK
  BY Ends, ResilienceAssumption DEF Init, TypeOK, ExchangeInv, AgeBound
<1>3. \A c \in Calls : Budget(c) >= 0
  BY ResilienceAssumption, ApiClientAssumption DEF Budget
<1>4. \A c \in Calls : SendInv(c)
  BY <1>1, Ends, ResilienceAssumption DEF SendInv, MaxSends, Running
<1>5. \A c \in Calls : AgeInv(c)
  BY <1>1, <1>3, Ends DEF AgeInv, WaitInv, RequestInv, Running
<1>6. LifeInv
  BY <1>1, Ends DEF Init, LifeInv, Running
<1>. QED  BY <1>1, <1>2, <1>4, <1>5, <1>6, Ends DEF ClientInv

\* An exchange that ends or goes on keeps the promises of the call it belongs to, or
\* of the calls that wait for the token.
LEMMA BecomeStep ==
  ASSUME ClientInv, NEW x \in Exchanges, Running(ex[x]),
         NEW e, ExchangeInv(e), Ended(e) \/ Continues(e, ex[x]), Become(x, e)
  PROVE  ClientInv'
<1>1. /\ ex' = [ex EXCEPT ![x] = e]
      /\ sends' = (IF x \in Calls /\ e.phase = "sent" THEN [sends EXCEPT ![x] = @ + 1] ELSE sends)
      /\ UNCHANGED <<kind, step, age, life, cache, joined, report>>
  BY DEF Become
<1>2. /\ e \in Exchange /\ ex[x] \in Exchange /\ ExchangeInv(ex[x])
      /\ ex \in [Exchanges -> Exchange] /\ sends \in [Calls -> 0 .. MaxRetries + 1]
      /\ Token \notin Calls
  BY ApiClientAssumption DEF ClientInv, TypeOK, ExchangeInv
<1>3. \A y \in Exchanges : ex'[y] = (IF y = x THEN e ELSE ex[y])
  BY <1>1, <1>2
<1>4. \A y \in Exchanges : ExchangeInv(ex'[y])
  BY <1>3 DEF ClientInv
<1>5. \A c \in Calls : sends'[c] = (IF c = x /\ e.phase = "sent" THEN sends[c] + 1 ELSE sends[c])
  BY <1>1, <1>2
<1>6. ASSUME NEW c \in Calls PROVE SendInv(c)' /\ sends'[c] \in 0 .. MaxRetries + 1
  <2>1. CASE c # x
    BY <1>1, <1>2, <1>3, <1>5, <2>1 DEF ClientInv, SendInv, MaxSends, Exchanges, Running
  <2>2. CASE c = x /\ Ended(e)
    <3>1. ex'[c] = e /\ e.phase \in {"answered", "failed"} /\ sends'[c] = sends[c]
      BY <1>3, <1>5, <2>2 DEF Ended, Exchanges
    <3>2. ex[c].phase # "idle" /\ SendInv(c) /\ sends[c] \in 0 .. MaxRetries + 1
      BY <1>2, <2>2 DEF ClientInv, Running
    <3>. QED  BY <1>1, <3>1, <3>2 DEF SendInv, MaxSends, Running
  <2>3. CASE c = x /\ Continues(e, ex[x])
    <3>1. /\ ex'[c] = e /\ Running(e) /\ e.retry = ex[c].retry
          /\ sends'[c] = e.attempt + 1 /\ e.phase # "idle" /\ ex[c].phase # "idle"
      BY <1>2, <1>3, <1>5, <2>3 DEF Continues, ClientInv, SendInv, Exchanges, Exchange, Running
    <3>2. /\ ex[c].retry <=> kind[c] = "read"
          /\ step[c] = "request" /\ step'[c] = step[c] /\ kind'[c] = kind[c]
      BY <1>1, <2>3, <3>1 DEF ClientInv, SendInv
    <3>3. e.attempt \in 0 .. MaxRetries /\ (~e.retry => e.attempt = 0)
      BY DEF ExchangeInv, Exchange
    <3>4. /\ sends'[c] \in 0 .. MaxRetries + 1
          /\ sends'[c] <= IF kind[c] = "read" THEN MaxRetries + 1 ELSE 1
      BY <3>1, <3>2, <3>3, ResilienceAssumption
    <3>. QED  BY <1>1, <3>1, <3>2, <3>4 DEF SendInv, MaxSends
  <2>. QED  BY <2>1, <2>2, <2>3
<1>7. TypeOK'
  <2>1. sends' \in [Calls -> 0 .. MaxRetries + 1]
    BY <1>1, <1>2, <1>6
  <2>2. ex' \in [Exchanges -> Exchange]
    BY <1>1, <1>2
  <2>. QED  BY <1>1, <2>1, <2>2 DEF ClientInv, TypeOK
<1>8. ASSUME NEW c \in Calls PROVE AgeInv(c)'
  <2>1. /\ AgeInv(c) /\ TokenPart(c)' = TokenPart(c) /\ Budget(c)' = Budget(c)
    BY <1>1 DEF ClientInv, TokenPart, Budget
  <2>2. WaitInv(c)'
    <3>1. CASE x # Token
      <4>1. ex'[Token] = ex[Token]
        BY <1>3, <3>1 DEF Exchanges
      <4>. QED  BY <1>1, <2>1, <4>1 DEF AgeInv, WaitInv, Running
    <3>2. CASE x = Token
      <4>1. ex'[Token] = e
        BY <1>3, <3>2
      <4>2. CASE Ended(e)
        BY <1>1, <2>1, <3>2, <4>1, <4>2 DEF AgeInv, WaitInv, Running, Ended
      <4>3. CASE Continues(e, ex[x])
        BY <1>1, <2>1, <3>2, <4>1, <4>3 DEF AgeInv, WaitInv, Running, Continues
      <4>. QED  BY <4>2, <4>3
    <3>. QED  BY <3>1, <3>2
  <2>3. RequestInv(c)'
    <3>1. CASE c # x
      <4>1. ex'[c] = ex[c]
        BY <1>3, <3>1 DEF Exchanges
      <4>. QED  BY <1>1, <2>1, <4>1 DEF AgeInv, RequestInv, Running
    <3>2. CASE c = x /\ Ended(e)
      BY <1>3, <3>2 DEF RequestInv, Running, Ended, Exchanges
    <3>3. CASE c = x /\ Continues(e, ex[x])
      <4>1. /\ ex'[c] = e /\ Running(ex[c]) /\ e.elapsed = ex[c].elapsed
            /\ e.signal = ex[c].signal
        BY <1>3, <3>3 DEF Continues, Exchanges
      <4>. QED  BY <1>1, <2>1, <4>1 DEF AgeInv, RequestInv
    <3>. QED  BY <3>1, <3>2, <3>3
  <2>. QED  BY <1>1, <2>1, <2>2, <2>3 DEF AgeInv
<1>9. LifeInv'
  <2>1. ASSUME NEW c \in Calls, Running(ex'[c])
        PROVE  Running(ex[c]) /\ ex'[c].elapsed = ex[c].elapsed
    BY <1>3, <2>1 DEF Continues, Running, Ended, Exchanges
  <2>. QED  BY <1>1, <2>1 DEF ClientInv, LifeInv, Running
<1>. QED  BY <1>4, <1>6, <1>7, <1>8, <1>9 DEF ClientInv, Exchanges

-------------------------------------------------------------------------------
(* Getting the token and going on                                            *)

\* The request a call goes on to: sent under the signal its kind gives it, or failed
\* at once when that signal has run out.
LEMMA RequestFacts ==
  ASSUME ClientInv, NEW c \in Calls
  PROVE  /\ ExchangeInv(Request(c))
         /\ Request(c).phase \in {"sent", "failed"}
         /\ Sent(c) = IF Request(c).phase = "sent" THEN 1 ELSE 0
         /\ Request(c).phase = "sent" =>
               /\ Request(c).retry <=> kind[c] = "read"
               /\ Request(c).attempt = 0 /\ Request(c).elapsed = 0
               /\ kind[c] \in Health => Request(c).signal \in Nat
               /\ kind[c] = "apiHealth" => Request(c).signal + age[c] = HealthTimeout
               /\ kind[c] \in {"accountHealth", "plainHealth"} =>
                      Request(c).signal = HealthTimeout
<1>1. /\ kind[c] \in Kinds /\ age[c] \in Nat /\ HealthTimeout \in Nat \ {0}
  BY Kind, ApiClientAssumption, ResilienceAssumption DEF ClientInv, TypeOK, AgeBound
<1>2. Retries(c) \in BOOLEAN /\ (Retries(c) <=> kind[c] = "read")
  BY DEF Retries
<1>3. /\ RequestSignal(c) \in Nat \cup {NoSignal}
      /\ kind[c] \in Health => RequestSignal(c) \in Nat
      /\ kind[c] = "apiHealth" /\ RequestSignal(c) # 0 => RequestSignal(c) + age[c] = HealthTimeout
      /\ kind[c] \in {"accountHealth", "plainHealth"} => RequestSignal(c) = HealthTimeout
  <2>1. CASE kind[c] = "apiHealth"
    BY <1>1, <2>1 DEF RequestSignal, Left
  <2>2. CASE kind[c] \in {"accountHealth", "plainHealth"}
    BY <1>1, <2>2 DEF RequestSignal
  <2>3. CASE kind[c] \in {"read", "write"}
    BY <1>1, <2>3 DEF RequestSignal, Health
  <2>. QED  BY <1>1, <2>1, <2>2, <2>3 DEF Kinds
<1>. QED  BY <1>2, <1>3, SendFacts, Ends DEF Request, Sent

\* Calls go on with a token that outlives a whole call.
LEMMA ProceedStep ==
  ASSUME ClientInv, NEW cs \in SUBSET Calls, NEW valid \in Nat, Proceed(cs, valid),
         \A c \in cs : step[c] # "request" /\ age[c] <= TokenPart(c),
         \A c \in cs : kind[c] = "plainHealth" => age[c] = 0,
         \A c \in cs : kind[c] # "plainHealth" => valid > TotalTimeout,
         ex' \in [Exchanges -> Exchange], ExchangeInv(ex'[Token]),
         \A c \in Calls : ex'[c] = IF c \in cs THEN Request(c) ELSE ex[c],
         ex'[Token] = ex[Token] \/ cs = Waiting,
         cache' \in [ttl : Nat, life : Nat],
         cache'.ttl > 0 => cache'.life >= cache'.ttl + TotalTimeout,
         UNCHANGED <<kind, age, joined, report>>
  PROVE  ClientInv'
<1>1. /\ step' = [c \in Calls |-> IF c \in cs THEN "request" ELSE step[c]]
      /\ sends' = [c \in Calls |-> IF c \in cs THEN sends[c] + Sent(c) ELSE sends[c]]
      /\ life' = [c \in Calls |-> IF c \in cs THEN valid ELSE life[c]]
  BY DEF Proceed
<1>2. ASSUME NEW c \in cs
      PROVE  /\ sends[c] = 0 /\ Sent(c) \in 0 .. 1 /\ sends'[c] = Sent(c)
             /\ step'[c] = "request" /\ life'[c] = valid /\ ex'[c] = Request(c)
             /\ c \in Calls /\ kind[c] \in Kinds
  BY <1>1, RequestFacts, Kind DEF ClientInv, SendInv
<1>3. ASSUME NEW c \in Calls \ cs
      PROVE  sends'[c] = sends[c] /\ step'[c] = step[c] /\ life'[c] = life[c] /\ ex'[c] = ex[c]
  BY <1>1
<1>4. TypeOK'
  <2>1. sends' \in [Calls -> 0 .. MaxRetries + 1]
    <3>1. \A c \in Calls : sends'[c] \in 0 .. MaxRetries + 1
      BY <1>2, <1>3, ResilienceAssumption DEF ClientInv, TypeOK
    <3>. QED  BY <1>1, <3>1
  <2>2. step' \in [Calls -> {"idle", "lookup", "token", "request"}] /\ life' \in [Calls -> Nat]
    BY <1>1 DEF ClientInv, TypeOK
  <2>. QED  BY <2>1, <2>2 DEF ClientInv, TypeOK
<1>5. \A x \in Exchanges : ExchangeInv(ex'[x])
  BY <1>2, <1>3, RequestFacts DEF ClientInv, Exchanges
<1>6. ASSUME NEW c \in Calls PROVE SendInv(c)'
  <2>1. CASE c \in cs
    BY <1>2, <2>1, RequestFacts, ResilienceAssumption DEF SendInv, MaxSends, Running
  <2>2. CASE c \notin cs
    BY <1>3, <2>2 DEF ClientInv, SendInv, MaxSends, Running
  <2>. QED  BY <2>1, <2>2
<1>7. ASSUME NEW c \in Calls PROVE AgeInv(c)'
  <2>1. AgeInv(c) /\ TokenPart(c)' = TokenPart(c) /\ Budget(c)' = Budget(c)
    BY DEF ClientInv, TokenPart, Budget
  <2>2. CASE c \in cs
    <3>1. WaitInv(c)'
      BY <1>2, <2>2 DEF WaitInv
    <3>2. RequestInv(c)'
      <4>1. Running(ex[c])' => Request(c).phase = "sent"
        BY <1>2, <2>2, RequestFacts DEF Running
      <4>2. age[c] \in Nat /\ age[c] <= TokenPart(c) /\ TokenPart(c) <= TotalTimeout
            /\ TokenPart(c) \in Nat
        BY <2>2, ApiClientAssumption, ResilienceAssumption DEF TokenPart, ClientInv, TypeOK,
           AgeBound
      <4>3. SUFFICES ASSUME Request(c).phase = "sent" PROVE RequestInv(c)'
        BY <4>1 DEF RequestInv
      <4>4. /\ ex'[c] = Request(c) /\ ex'[c].elapsed = 0
            /\ kind'[c] = kind[c] /\ age'[c] = age[c] /\ TokenPart(c)' = TokenPart(c)
        BY <1>2, <2>1, <2>2, <4>3, RequestFacts
      <4>5. CASE kind[c] = "plainHealth"
        BY <2>2, <4>3, <4>4, <4>5, RequestFacts, ApiClientAssumption DEF RequestInv, Health
      <4>6. CASE kind[c] = "apiHealth"
        BY <4>3, <4>4, <4>6, RequestFacts DEF RequestInv, Health
      <4>7. CASE kind[c] = "accountHealth"
        BY <4>2, <4>3, <4>4, <4>7, RequestFacts, ApiClientAssumption DEF RequestInv, Health
      <4>8. CASE kind[c] \in {"read", "write"}
        BY <4>2, <4>4, <4>8, ResilienceAssumption DEF RequestInv
      <4>. QED  BY <1>2, <2>2, <4>5, <4>6, <4>7, <4>8 DEF Kinds
    <3>. QED  BY <1>2, <2>1, <2>2, <3>1, <3>2 DEF AgeInv
  <2>3. CASE c \notin cs
    <3>1. WaitInv(c)'
      <4>1. CASE ex'[Token] = ex[Token]
        BY <1>3, <2>1, <2>3, <4>1 DEF AgeInv, WaitInv, Running
      <4>2. CASE cs = Waiting
        BY <1>3, <2>3, <4>2 DEF WaitInv, Waiting
      <4>. QED  BY <4>1, <4>2
    <3>2. RequestInv(c)'
      BY <1>3, <2>1, <2>3 DEF AgeInv, RequestInv, Running
    <3>. QED  BY <1>3, <2>1, <2>3, <3>1, <3>2 DEF AgeInv
  <2>. QED  BY <2>2, <2>3
<1>8. LifeInv'
  <2>1. ASSUME NEW c \in Calls, Running(ex[c])', kind[c] # "plainHealth"
        PROVE  life'[c] + ex'[c].elapsed > TotalTimeout
    <3>1. CASE c \in cs
      <4>1. Request(c).phase = "sent"
        BY <1>2, <2>1, <3>1, RequestFacts DEF Running
      <4>. QED  BY <1>2, <2>1, <3>1, <4>1, RequestFacts
    <3>2. CASE c \notin cs
      BY <1>3, <2>1, <3>2 DEF ClientInv, LifeInv, Running
    <3>. QED  BY <3>1, <3>2
  <2>. QED  BY <2>1 DEF LifeInv
<1>. QED  BY <1>4, <1>5, <1>6, <1>7, <1>8 DEF ClientInv, Exchanges

\* A call begins: a check without a token goes straight on.
LEMMA BeginStep ==
  ASSUME ClientInv, NEW c \in Calls, Begin(c)
  PROVE  ClientInv'
<1>1. /\ step[c] = "idle" /\ age[c] = 0 /\ c \notin joined /\ ex[c].phase = "idle"
      /\ UNCHANGED <<kind, age, cache, joined, report>>
      /\ ex \in [Exchanges -> Exchange] /\ Token \notin Calls
  BY ApiClientAssumption DEF Begin, ClientInv, TypeOK, SendInv, AgeInv, ExchangeInv, Exchange,
     Exchanges
<1>2. CASE kind[c] = "plainHealth"
  <2>1. Proceed({c}, 0) /\ ex' = [ex EXCEPT ![c] = Request(c)]
    BY <1>2 DEF Begin
  <2>2. age[c] <= TokenPart(c)
    BY <1>1, ApiClientAssumption, ResilienceAssumption DEF TokenPart
  <2>3. /\ ex' \in [Exchanges -> Exchange] /\ ex'[Token] = ex[Token]
        /\ \A d \in Calls : ex'[d] = IF d \in {c} THEN Request(d) ELSE ex[d]
    BY <1>1, <2>1, RequestFacts DEF Exchanges, ExchangeInv
  <2>4. /\ ExchangeInv(ex[Token]) /\ cache \in [ttl : Nat, life : Nat]
        /\ cache.ttl > 0 => cache.life >= cache.ttl + TotalTimeout
    BY DEF ClientInv, LifeInv, TypeOK, Exchanges
  <2>. QED  BY <1>1, <1>2, <2>1, <2>2, <2>3, <2>4, ProceedStep
<1>3. CASE kind[c] # "plainHealth"
  <2>1. step' = [step EXCEPT ![c] = "lookup"] /\ UNCHANGED <<ex, sends, life>>
    BY <1>3 DEF Begin
  <2>2. TypeOK'
    BY <1>1, <2>1 DEF ClientInv, TypeOK
  <2>3. \A d \in Calls : step'[d] = IF d = c THEN "lookup" ELSE step[d]
    BY <2>1 DEF ClientInv, TypeOK
  <2>4. ASSUME NEW d \in Calls PROVE SendInv(d)' /\ AgeInv(d)'
    <3>1. SendInv(d)'
      BY <1>1, <1>3, <2>1, <2>3 DEF ClientInv, SendInv, MaxSends, Running
    <3>2. WaitInv(d)'
      BY <1>1, <2>1, <2>3 DEF ClientInv, AgeInv, WaitInv, TokenPart, Running
    <3>3. RequestInv(d)'
      BY <1>1, <2>1 DEF ClientInv, AgeInv, RequestInv, TokenPart, Running
    <3>4. Budget(d)' = Budget(d)
      BY <1>1 DEF Budget
    <3>. QED  BY <1>1, <2>3, <3>1, <3>2, <3>3, <3>4 DEF ClientInv, AgeInv
  <2>5. LifeInv'
    BY <1>1, <2>1 DEF ClientInv, LifeInv, Running
  <2>. QED  BY <2>1, <2>2, <2>4, <2>5 DEF ClientInv
<1>. QED  BY <1>2, <1>3

LEMMA UseCachedStep ==
  ASSUME ClientInv, NEW c \in Calls, UseCached(c)
  PROVE  ClientInv'
<1>1. /\ step[c] = "lookup" /\ age[c] = 0 /\ kind[c] # "plainHealth"
      /\ cache.ttl > 0 /\ Proceed({c}, cache.life) /\ ex' = [ex EXCEPT ![c] = Request(c)]
      /\ UNCHANGED <<kind, age, cache, joined, report>>
      /\ ex \in [Exchanges -> Exchange] /\ Token \notin Calls
  BY ApiClientAssumption DEF UseCached, ClientInv, TypeOK, SendInv, AgeInv
<1>2. /\ cache \in [ttl : Nat, life : Nat] /\ cache.life >= cache.ttl + TotalTimeout
      /\ cache.life \in Nat /\ cache.life > TotalTimeout
  BY <1>1, ResilienceAssumption DEF ClientInv, LifeInv, TypeOK
<1>3. age[c] <= TokenPart(c)
  BY <1>1, ApiClientAssumption, ResilienceAssumption DEF TokenPart
<1>4. /\ ex' \in [Exchanges -> Exchange] /\ ex'[Token] = ex[Token] /\ ExchangeInv(ex[Token])
      /\ \A d \in Calls : ex'[d] = IF d \in {c} THEN Request(d) ELSE ex[d]
  BY <1>1, RequestFacts DEF Exchanges, ExchangeInv, ClientInv
<1>. QED  BY <1>1, <1>2, <1>3, <1>4, ProceedStep

\* A caller joins the refresh under way, or begins one when nobody waits.
LEMMA RefreshStep ==
  ASSUME ClientInv, NEW c \in Calls, Refresh(c)
  PROVE  ClientInv'
<1>1. /\ step[c] = "lookup" /\ age[c] = 0 /\ c \notin joined /\ kind[c] # "plainHealth"
      /\ kind[c] \in Kinds /\ ex[c].phase = "idle"
      /\ step' = [step EXCEPT ![c] = "token"]
      /\ UNCHANGED <<kind, sends, age, life, cache, report>>
      /\ ex \in [Exchanges -> Exchange] /\ Token \notin Calls /\ ~Ended(ex[Token])
  BY ApiClientAssumption, Kind
     DEF Refresh, ClientInv, TypeOK, SendInv, AgeInv, ExchangeInv, Exchange, Exchanges
<1>2. \A d \in Calls : step'[d] = IF d = c THEN "token" ELSE step[d]
  BY <1>1 DEF ClientInv, TypeOK
<1>3. ASSUME ex' \in [Exchanges -> Exchange], \A d \in Calls : ex'[d] = ex[d]
      PROVE  /\ \A d \in Calls : SendInv(d)'
             /\ LifeInv'
  <2>1. \A d \in Calls : SendInv(d)'
    BY <1>1, <1>2, <1>3 DEF ClientInv, SendInv, MaxSends, Running
  <2>. QED  BY <1>1, <1>3, <2>1 DEF ClientInv, LifeInv, Running
<1>4. CASE Running(ex[Token])
  <2>1. joined' = joined \cup {c} /\ ex' = ex
    BY <1>4 DEF Refresh
  <2>2. TypeOK'
    BY <1>1, <2>1 DEF ClientInv, TypeOK
  <2>3. ASSUME NEW d \in Calls PROVE AgeInv(d)'
    <3>1. CASE d = c
      <4>1. /\ step'[d] = "token" /\ age'[d] = 0 /\ d \in joined' /\ ex'[d].phase = "idle"
            /\ ex'[Token] = ex[Token] /\ kind'[d] = kind[d]
        BY <1>1, <1>2, <2>1, <3>1
      <4>2. Budget(d)' >= 0 /\ TokenPart(d)' = TotalTimeout
        BY <4>1, ApiClientAssumption, ResilienceAssumption DEF Budget, TokenPart
      <4>3. ex[Token].elapsed \in Nat
        BY <1>1, ResilienceAssumption DEF Exchanges, Exchange
      <4>. QED  BY <1>4, <4>1, <4>2, <4>3, ResilienceAssumption
                DEF AgeInv, WaitInv, RequestInv, Running
    <3>2. CASE d # c
      <4>1. TokenPart(d)' = TokenPart(d) /\ Budget(d)' = Budget(d)
        BY <1>1, <2>1, <3>2 DEF TokenPart, Budget
      <4>2. WaitInv(d)' /\ RequestInv(d)'
        BY <1>1, <1>2, <2>1, <3>2, <4>1 DEF ClientInv, AgeInv, WaitInv, RequestInv, Running
      <4>. QED  BY <1>1, <1>2, <2>1, <3>2, <4>1, <4>2 DEF ClientInv, AgeInv
    <3>. QED  BY <3>1, <3>2
  <2>. QED  BY <1>1, <1>3, <2>1, <2>2, <2>3 DEF ClientInv
<1>5. CASE ~Running(ex[Token])
  <2>. DEFINE e == Send(TRUE, TokenSignal(c))
  <2>1. joined' = joined /\ ex' = [ex EXCEPT ![Token] = e]
    BY <1>5 DEF Refresh
  <2>2. ex[Token].phase = "idle"
    BY <1>1, <1>5 DEF Exchanges, Exchange, Running, Ended
  <2>3. /\ TokenSignal(c) \in Nat \cup {NoSignal} /\ TokenSignal(c) # 0
        /\ kind[c] \in Health => TokenSignal(c) = HealthTimeout
    BY <1>1, ApiClientAssumption DEF TokenSignal, Left, NoSignal
  <2>4. /\ ExchangeInv(e) /\ e.phase = "sent" /\ e.elapsed = 0
        /\ kind[c] \in Health => e.signal \in Nat /\ e.signal = HealthTimeout
    <3>1. e = [Idle EXCEPT !.phase = "sent", !.retry = TRUE, !.signal = TokenSignal(c)]
      BY <2>3 DEF Send
    <3>2. e \in Exchange /\ e.phase = "sent" /\ e.elapsed = 0 /\ e.signal = TokenSignal(c)
          /\ e.attempt = 0
      BY <2>3, <3>1, Ends DEF Idle, ExchangeInv, Exchange
    <3>. QED  BY <2>3, <3>2, ApiClientAssumption DEF ExchangeInv
  <2>. HIDE DEF e
  <2>5. /\ ex' \in [Exchanges -> Exchange] /\ ex'[Token] = e
        /\ \A d \in Calls : ex'[d] = ex[d]
    BY <1>1, <2>1, <2>4 DEF ExchangeInv, Exchanges
  <2>6. TypeOK'
    BY <1>1, <2>1, <2>5 DEF ClientInv, TypeOK
  <2>7. ASSUME NEW d \in Calls PROVE AgeInv(d)'
    <3>1. TokenPart(d)' = TokenPart(d) /\ Budget(d)' = Budget(d)
      BY <1>1, <2>1 DEF TokenPart, Budget
    <3>2. RequestInv(d)'
      BY <1>1, <2>5, <3>1 DEF ClientInv, AgeInv, RequestInv, Running
    <3>3. WaitInv(d)'
      <4>1. CASE d = c
        <5>1. age'[d] <= TokenPart(d)'
          BY <1>1, <3>1, <4>1, ApiClientAssumption, ResilienceAssumption DEF TokenPart
        <5>. QED  BY <1>1, <2>1, <2>4, <2>5, <4>1, <5>1, ApiClientAssumption DEF WaitInv
      <4>2. CASE d # c
        <5>1. step[d] # "token"
          BY <2>2 DEF ClientInv, AgeInv, WaitInv
        <5>. QED  BY <1>2, <4>2, <5>1 DEF WaitInv
      <4>. QED  BY <4>1, <4>2
    <3>. QED  BY <1>1, <1>2, <2>1, <3>1, <3>2, <3>3 DEF ClientInv, AgeInv
  <2>8. \A x \in Exchanges : ExchangeInv(ex'[x])
    BY <2>4, <2>5 DEF ClientInv, Exchanges
  <2>. QED  BY <1>3, <2>5, <2>6, <2>7, <2>8 DEF ClientInv
<1>. QED  BY <1>4, <1>5

\* Whoever waited goes on with the new token, which the time it was under way has not
\* used up.
LEMMA TokenArrivesStep ==
  ASSUME ClientInv, TokenArrives
  PROVE  ClientInv'
<1>1. PICK issued \in 0 .. AttemptTimeout :
          /\ Proceed(Waiting, TokenLife - issued)
          /\ cache' \in {cache, [ttl |-> CacheTtl, life |-> TokenLife - issued]}
  BY DEF TokenArrives
<1>2. /\ ex' = [x \in Exchanges |-> CASE x = Token -> Idle [] x \in Waiting -> Request(x)
                                      [] OTHER -> ex[x]]
      /\ UNCHANGED <<kind, age, joined, report>>
      /\ ex \in [Exchanges -> Exchange] /\ Token \notin Calls /\ Waiting \subseteq Calls
  BY ApiClientAssumption DEF TokenArrives, ClientInv, TypeOK, Waiting
<1>3. /\ ex'[Token] = Idle
      /\ \A d \in Calls : ex'[d] = IF d \in Waiting THEN Request(d) ELSE ex[d]
  BY <1>2 DEF Exchanges
<1>4. ex' \in [Exchanges -> Exchange]
  <2>1. \A x \in Exchanges : ex'[x] \in Exchange
    BY <1>2, <1>3, RequestFacts, Ends DEF Exchanges, ExchangeInv
  <2>. QED  BY <1>2, <2>1
<1>5. \A c \in Waiting :
        step[c] # "request" /\ age[c] <= TokenPart(c) /\ kind[c] # "plainHealth"
  BY DEF Waiting, ClientInv, SendInv, AgeInv, WaitInv
<1>6. TokenLife - issued \in Nat /\ TokenLife - issued > TotalTimeout
  BY ApiClientAssumption, ResilienceAssumption
<1>7. /\ cache' \in [ttl : Nat, life : Nat]
      /\ cache'.ttl > 0 => cache'.life >= cache'.ttl + TotalTimeout
  <2>1. CASE cache' = cache
    BY <2>1 DEF ClientInv, TypeOK, LifeInv
  <2>2. CASE cache' = [ttl |-> CacheTtl, life |-> TokenLife - issued]
    <3>1. CacheTtl = TokenLife - TokenBuffer /\ CacheTtl \in Nat
      BY ApiClientAssumption DEF CacheTtl
    <3>2. TokenLife - issued >= CacheTtl + TotalTimeout
      BY <3>1, ApiClientAssumption, ResilienceAssumption
    <3>. QED  BY <1>6, <2>2, <3>1, <3>2
  <2>. QED  BY <1>1, <2>1, <2>2
<1>. QED  BY <1>1, <1>2, <1>3, <1>4, <1>5, <1>6, <1>7, Ends, ProceedStep

\* Whoever waited fails with the refresh.
LEMMA TokenFailsStep ==
  ASSUME ClientInv, TokenFails
  PROVE  ClientInv'
<1>1. /\ step' = [c \in Calls |-> IF c \in Waiting THEN "request" ELSE step[c]]
      /\ ex' = [x \in Exchanges |-> CASE x = Token -> Idle [] x \in Waiting -> Failed
                                      [] OTHER -> ex[x]]
      /\ UNCHANGED <<kind, sends, age, life, cache, joined, report>>
      /\ ex \in [Exchanges -> Exchange] /\ Token \notin Calls /\ Waiting \subseteq Calls
  BY ApiClientAssumption DEF TokenFails, ClientInv, TypeOK, Waiting
<1>2. /\ ex'[Token] = Idle
      /\ \A d \in Calls : ex'[d] = IF d \in Waiting THEN Failed ELSE ex[d]
  BY <1>1 DEF Exchanges
<1>3. \A x \in Exchanges : ExchangeInv(ex'[x])
  BY <1>1, <1>2, Ends DEF Exchanges, ClientInv
<1>4. TypeOK'
  <2>1. ex' \in [Exchanges -> Exchange]
    BY <1>1, <1>3 DEF ExchangeInv
  <2>2. step' \in [Calls -> {"idle", "lookup", "token", "request"}]
    BY <1>1 DEF ClientInv, TypeOK
  <2>. QED  BY <1>1, <2>1, <2>2 DEF ClientInv, TypeOK
<1>5. ASSUME NEW d \in Calls PROVE SendInv(d)' /\ AgeInv(d)'
  <2>1. SendInv(d) /\ AgeInv(d) /\ TokenPart(d)' = TokenPart(d) /\ Budget(d)' = Budget(d)
    BY <1>1 DEF ClientInv, TokenPart, Budget
  <2>2. CASE d \in Waiting
    <3>1. /\ ex'[d].phase = "failed" /\ step'[d] = "request"
      BY <1>1, <1>2, <2>2, Ends
    <3>2. SendInv(d)'
      BY <1>1, <2>1, <3>1 DEF SendInv, MaxSends, Running
    <3>. QED  BY <1>1, <2>1, <3>1, <3>2 DEF AgeInv, WaitInv, RequestInv, Running
  <2>3. CASE d \notin Waiting
    <3>1. ex'[d] = ex[d] /\ step'[d] = step[d] /\ step[d] # "token"
      BY <1>1, <1>2, <2>3 DEF Waiting
    <3>2. SendInv(d)'
      BY <1>1, <2>1, <3>1 DEF SendInv, MaxSends, Running
    <3>. QED  BY <1>1, <2>1, <3>1, <3>2 DEF AgeInv, WaitInv, RequestInv, Running
  <2>. QED  BY <2>2, <2>3
<1>6. LifeInv'
  BY <1>1, <1>2, Ends DEF ClientInv, LifeInv, Running
<1>. QED  BY <1>3, <1>4, <1>5, <1>6 DEF ClientInv

-------------------------------------------------------------------------------
(* Time                                                                      *)

\* A unit of time: nothing is due, so every call and exchange has room for it.
LEMMA TickStep ==
  ASSUME ClientInv, Tick
  PROVE  ClientInv'
<1>1. /\ \A x \in Exchanges : ~TimerDue(ex[x])
      /\ ~Ended(ex[Token]) /\ \A c \in Calls : step[c] # "lookup"
      /\ ex' = [x \in Exchanges |-> Older(ex[x])]
      /\ age' = [c \in Calls |-> IF ~Pending(c) THEN 0
                                ELSE IF age[c] < AgeBound THEN age[c] + 1 ELSE AgeBound]
      /\ life' = [c \in Calls |-> IF Running(ex[c]) THEN Left(life[c] - 1) ELSE 0]
      /\ cache' = [ttl |-> Left(cache.ttl - 1), life |-> Left(cache.life - 1)]
      /\ UNCHANGED <<kind, step, sends, joined, report>>
      /\ ex \in [Exchanges -> Exchange] /\ Token \notin Calls
  BY ApiClientAssumption DEF Tick, ClientInv, TypeOK
<1>2. \A x \in Exchanges :
        /\ ExchangeInv(ex'[x]) /\ ex'[x].phase = ex[x].phase
        /\ ex'[x].retry = ex[x].retry /\ ex'[x].attempt = ex[x].attempt
        /\ Running(ex'[x]) <=> Running(ex[x])
        /\ Running(ex[x]) => /\ ex[x].elapsed < TotalTimeout
                             /\ ex'[x].elapsed = ex[x].elapsed + 1
                             /\ ex[x].signal \in Nat =>
                                    ex'[x].signal \in Nat /\ ex'[x].signal = ex[x].signal - 1
  BY <1>1, OlderFacts DEF ClientInv, Running
<1>3. TypeOK'
  <2>1. ex' \in [Exchanges -> Exchange]
    BY <1>1, <1>2 DEF ExchangeInv
  <2>2. /\ age' \in [Calls -> 0 .. AgeBound] /\ life' \in [Calls -> Nat]
        /\ cache' \in [ttl : Nat, life : Nat]
    BY <1>1, ResilienceAssumption DEF ClientInv, TypeOK, AgeBound, Left
  <2>. QED  BY <1>1, <2>1, <2>2 DEF ClientInv, TypeOK
<1>4. ASSUME NEW c \in Calls PROVE SendInv(c)'
  BY <1>1, <1>2 DEF ClientInv, SendInv, MaxSends, Exchanges
<1>5. ASSUME NEW c \in Calls PROVE AgeInv(c)'
  <2>1. /\ AgeInv(c) /\ SendInv(c) /\ TokenPart(c)' = TokenPart(c) /\ Budget(c)' = Budget(c)
        /\ kind[c] \in Kinds /\ age[c] \in 0 .. AgeBound /\ kind'[c] = kind[c]
        /\ ex[c] \in Exchange /\ ex'[c] \in Exchange /\ ex[Token] \in Exchange
        /\ ex'[Token] \in Exchange
    BY <1>1, <1>2, Kind DEF ClientInv, TypeOK, TokenPart, Budget, Exchanges, ExchangeInv
  <2>2. /\ TokenPart(c) \in 0 .. TotalTimeout /\ HealthTimeout \in 1 .. TotalTimeout
        /\ TotalTimeout \in Nat /\ Budget(c) \in 0 .. 2 * TotalTimeout
    BY ApiClientAssumption, ResilienceAssumption DEF TokenPart, Budget
  <2>3. CASE ~Pending(c)
    <3>1. age'[c] = 0
      BY <1>1, <2>3
    <3>2. step[c] # "token" /\ ~Running(ex[c])
      BY <2>1, <2>3 DEF Pending, Over, Running, Ended, SendInv
    <3>3. ~Running(ex'[c]) /\ step'[c] = step[c] /\ joined' = joined
      BY <1>1, <1>2, <3>2 DEF Exchanges
    <3>. QED  BY <2>1, <2>2, <3>1, <3>2, <3>3 DEF AgeInv, WaitInv, RequestInv
  <2>4. CASE Pending(c)
    <3>1. age[c] <= 2 * TotalTimeout
      BY <2>1, <2>2 DEF AgeInv
    <3>2. age'[c] = age[c] + 1 /\ step'[c] = step[c] /\ joined' = joined
      BY <1>1, <2>1, <2>2, <2>4, <3>1 DEF AgeBound
    <3>3. step[c] \in {"token", "request"}
      BY <1>1, <2>4 DEF Pending, ClientInv, TypeOK
    <3>4. CASE step[c] = "token"
      <4>1. /\ Running(ex[Token]) /\ Running(ex'[Token]) /\ ~Running(ex'[c])
        BY <1>1, <1>2, <2>1, <3>4
           DEF AgeInv, WaitInv, SendInv, Exchange, Exchanges, Running, Ended
      <4>2. /\ ex[Token].elapsed < TotalTimeout /\ ex'[Token].elapsed = ex[Token].elapsed + 1
            /\ ex[Token].elapsed \in Nat /\ age[c] <= ex[Token].elapsed
            /\ ex[Token].signal \in Nat =>
                   ex'[Token].signal \in Nat /\ ex'[Token].signal = ex[Token].signal - 1
        BY <1>2, <2>1, <2>2, <3>4, <4>1 DEF AgeInv, WaitInv, Exchanges, Exchange
      <4>3. CASE c \notin joined /\ kind[c] \in Health
        <5>1. /\ ex[Token].signal \in Nat
              /\ ex[Token].signal + ex[Token].elapsed = HealthTimeout
              /\ TokenPart(c) = HealthTimeout
          BY <2>1, <3>4, <4>1, <4>3 DEF AgeInv, WaitInv, TokenPart
        <5>2. /\ ex'[Token].signal \in Nat
              /\ ex'[Token].signal + ex'[Token].elapsed = HealthTimeout
              /\ age'[c] <= ex'[Token].elapsed /\ age'[c] <= HealthTimeout
          BY <2>1, <2>2, <3>2, <4>2, <5>1
        <5>3. WaitInv(c)'
          BY <1>1, <1>2, <2>1, <3>2, <3>4, <4>1, <5>1, <5>2
             DEF WaitInv, AgeInv, Exchanges
        <5>4. Budget(c) >= HealthTimeout
          BY <2>1, <2>2, <4>3 DEF Budget, Kinds, Health
        <5>. QED  BY <2>1, <2>2, <3>2, <3>4, <4>1, <5>2, <5>3, <5>4
                  DEF AgeInv, RequestInv
      <4>4. CASE ~(c \notin joined /\ kind[c] \in Health)
        <5>1. TokenPart(c) = TotalTimeout
          BY <4>4 DEF TokenPart
        <5>2. age'[c] <= ex'[Token].elapsed /\ age'[c] <= TotalTimeout
          BY <2>1, <2>2, <3>2, <4>2
        <5>3. WaitInv(c)'
          BY <1>1, <1>2, <2>1, <3>2, <3>4, <4>1, <4>4, <5>1, <5>2
             DEF WaitInv, AgeInv, Exchanges
        <5>4. Budget(c) >= TotalTimeout
          BY <2>1, <2>2, <3>4, <4>4 DEF Budget, Kinds, Health, SendInv
        <5>. QED  BY <2>1, <2>2, <3>2, <3>4, <4>1, <5>2, <5>3, <5>4
                  DEF AgeInv, RequestInv
      <4>. QED  BY <4>3, <4>4
    <3>5. CASE step[c] = "request"
      <4>1. /\ Running(ex[c]) /\ Running(ex'[c])
        BY <1>2, <2>1, <2>4, <3>5
           DEF Pending, Over, SendInv, Exchange, Exchanges, Running, Ended
      <4>2. /\ ex[c].elapsed < TotalTimeout /\ ex'[c].elapsed = ex[c].elapsed + 1
            /\ ex[c].elapsed \in Nat
            /\ ex[c].signal \in Nat =>
                   ex'[c].signal \in Nat /\ ex'[c].signal = ex[c].signal - 1
        BY <1>2, <2>1, <2>2, <4>1 DEF Exchanges, Exchange
      <4>3. WaitInv(c)'
        BY <3>2, <3>5 DEF WaitInv
      <4>4. CASE kind[c] = "plainHealth"
        BY <1>1, <2>1, <2>2, <3>2, <3>5, <4>1, <4>2, <4>3, <4>4 DEF AgeInv, RequestInv, Budget
      <4>5. CASE kind[c] = "apiHealth"
        BY <1>1, <2>1, <2>2, <3>2, <3>5, <4>1, <4>2, <4>3, <4>5 DEF AgeInv, RequestInv, Budget
      <4>6. CASE kind[c] = "accountHealth"
        BY <1>1, <2>1, <2>2, <3>2, <3>5, <4>1, <4>2, <4>3, <4>6
           DEF AgeInv, RequestInv, Budget, TokenPart, Health
      <4>7. CASE kind[c] \in {"read", "write"}
        BY <1>1, <2>1, <2>2, <3>2, <3>5, <4>1, <4>2, <4>3, <4>7 DEF AgeInv, RequestInv, Budget
      <4>. QED  BY <2>1, <4>4, <4>5, <4>6, <4>7 DEF Kinds
    <3>. QED  BY <3>3, <3>4, <3>5
  <2>. QED  BY <2>3, <2>4
<1>6. LifeInv'
  <2>1. cache'.ttl > 0 => cache'.life >= cache'.ttl + TotalTimeout
    BY <1>1, ResilienceAssumption DEF ClientInv, LifeInv, TypeOK, Left
  <2>2. ASSUME NEW c \in Calls, Running(ex'[c]), kind[c] # "plainHealth"
        PROVE  life'[c] + ex'[c].elapsed > TotalTimeout
    <3>1. /\ Running(ex[c]) /\ ex[c].elapsed < TotalTimeout
          /\ ex'[c].elapsed = ex[c].elapsed + 1 /\ ex[c].elapsed \in Nat
          /\ life[c] \in Nat /\ life[c] + ex[c].elapsed > TotalTimeout
      <4>1. c \in Exchanges /\ ex[c] \in Exchange /\ life[c] \in Nat
        BY <1>1 DEF ClientInv, TypeOK, Exchanges
      <4>2. Running(ex[c])
        BY <1>2, <2>2, <4>1
      <4>3. ex[c].elapsed \in Nat
        BY <4>1, ResilienceAssumption DEF Exchange
      <4>. QED  BY <1>2, <2>2, <4>1, <4>2, <4>3 DEF ClientInv, LifeInv
    <3>2. life'[c] = life[c] - 1
      BY <1>1, <3>1, ResilienceAssumption DEF Left
    <3>. QED  BY <3>1, <3>2
  <2>. QED  BY <1>1, <2>1, <2>2 DEF LifeInv, Running
<1>. QED  BY <1>2, <1>3, <1>4, <1>5, <1>6 DEF ClientInv

LEMMA ReportStep ==
  ASSUME ClientInv, Report
  PROVE  ClientInv'
<1>1. /\ report' \in {"none", "Healthy", "Unhealthy"}
      /\ UNCHANGED <<kind, step, ex, sends, age, life, cache, joined>>
  BY DEF Report
<1>2. TypeOK'
  BY <1>1 DEF ClientInv, TypeOK
<1>. QED  BY <1>1, <1>2
          DEF ClientInv, SendInv, MaxSends, AgeInv, WaitInv, RequestInv, TokenPart, Budget,
              LifeInv, Running

-------------------------------------------------------------------------------

\* The other side, the network and the timers only act on an exchange that runs.
LEMMA ExchangeStep ==
  ASSUME ClientInv, NEW x \in Exchanges,
         \/ Break(x) \/ ReadBody(x) \/ Timer(x)
         \/ \E status \in Statuses : Respond(x, status)
  PROVE  ClientInv'
<1>. DEFINE Moves(e) == ExchangeInv(e) /\ (Ended(e) \/ Continues(e, ex[x])) /\ Become(x, e)
<1>0. ExchangeInv(ex[x])
  BY DEF ClientInv
<1>1. ASSUME Break(x) PROVE Running(ex[x]) /\ \E e : Moves(e)
  BY <1>0, <1>1, AfterErrorFacts DEF Break, Running
<1>2. ASSUME ReadBody(x) PROVE Running(ex[x]) /\ \E e : Moves(e)
  BY <1>0, <1>2, AfterBodyFacts DEF ReadBody, Running
<1>3. ASSUME Timer(x) PROVE Running(ex[x]) /\ \E e : Moves(e)
  <2>1. Running(ex[x])
    BY <1>3 DEF Timer, TimerDue, Running
  <2>. QED  BY <1>0, <1>3, <2>1, AfterTimerFacts DEF Timer
<1>4. ASSUME NEW status \in Statuses, Respond(x, status)
      PROVE  Running(ex[x]) /\ \E e : Moves(e)
  BY <1>0, <1>4, AfterResponseFacts DEF Respond, Running
<1>5. Running(ex[x]) /\ \E e : Moves(e)
  BY <1>1, <1>2, <1>3, <1>4
<1>. QED  BY <1>5, BecomeStep

LEMMA Step == ClientInv /\ [Next]_vars => ClientInv'
<1> SUFFICES ASSUME ClientInv, [Next]_vars PROVE ClientInv'
  OBVIOUS
<1>1. ASSUME NEW c \in Calls, Begin(c) \/ UseCached(c) \/ Refresh(c) PROVE ClientInv'
  BY <1>1, BeginStep, UseCachedStep, RefreshStep
<1>2. CASE TokenArrives \/ TokenFails
  BY <1>2, TokenArrivesStep, TokenFailsStep
<1>3. ASSUME NEW x \in Exchanges, Break(x) \/ ReadBody(x) \/ Timer(x) PROVE ClientInv'
  BY <1>3, ExchangeStep
<1>4. ASSUME NEW x \in Exchanges, NEW status \in Statuses, Respond(x, status) PROVE ClientInv'
  BY <1>4, ExchangeStep
<1>5. CASE Report \/ Tick
  BY <1>5, ReportStep, TickStep
<1>6. CASE UNCHANGED vars
  BY <1>6 DEF vars, ClientInv, TypeOK, SendInv, MaxSends, AgeInv, WaitInv, RequestInv,
              TokenPart, Budget, LifeInv, Running, Ended
<1>. QED  BY <1>1, <1>2, <1>3, <1>4, <1>5, <1>6 DEF Next

\* Every reachable state satisfies the invariant the other theorems rest on.
THEOREM Inductive == Spec => []ClientInv
BY InitInv, Step, PTL DEF Spec

\* The calls, the exchanges, the token and the clocks keep their types and bounds.
THEOREM Typing == Spec => []TypeOK
<1>1. ClientInv => TypeOK
  BY DEF ClientInv
<1>. QED  BY <1>1, Inductive, PTL

\* For any retry limit and timeouts, a write is put on the wire at most once and a read
\* at most once more than it may be retried.
THEOREM SentOnce == Spec => []MutationSentOnce
<1>1. ClientInv => MutationSentOnce
  BY DEF ClientInv, SendInv, MaxSends, MutationSentOnce
<1>. QED  BY <1>1, Inductive, PTL

\* For any timeouts, no call runs longer than its budget.
THEOREM WithinBudget == Spec => []EndsInTime
<1>1. ClientInv => EndsInTime
  BY DEF ClientInv, AgeInv, EndsInTime
<1>. QED  BY <1>1, Inductive, PTL

\* A buffer of at least one whole call and one attempt keeps an expired token from ever
\* being sent.
THEOREM TokensLive == Spec => []NoExpiredToken
<1>1. ClientInv => NoExpiredToken
  <2> SUFFICES ASSUME ClientInv, NEW c \in Calls, kind[c] # "plainHealth", ex[c].phase = "sent"
               PROVE  life[c] > 0
    BY DEF NoExpiredToken
  <2>1. life[c] + ex[c].elapsed > TotalTimeout
    BY DEF ClientInv, LifeInv, Running
  <2>2. ex[c] \in Exchange /\ life[c] \in Nat
    BY DEF ClientInv, TypeOK, Exchanges
  <2>. QED  BY <2>1, <2>2, ResilienceAssumption DEF Exchange
<1>. QED  BY <1>1, Inductive, PTL
===============================================================================
