---------------------------- MODULE RequestLimits ----------------------------
(***************************************************************************)
(* What lets a request in and what it is charged, for one API key:         *)
(* require_api_key (app/auth/dependency.py) with the rate limiter          *)
(* (app/auth/rate_limiter.py) and the budget tracker (app/auth/budget.py). *)
(*                                                                         *)
(* The trackers are kept in memory, where a check or a record does not     *)
(* suspend, or in Redis, where each command is a step of its own, runs at  *)
(* the server some time after the clock was read, and can fail.  The       *)
(* client library tries a command again whose answer did not come (once,   *)
(* in this model); what it has done at the server cannot be known.         *)
(*                                                                         *)
(* Time is a number of ticks.  A counter is gone when its time has come:   *)
(* the code of the trackers in memory compares, Redis drops the key.       *)
(***************************************************************************)
EXTENDS Integers, Sequences, FiniteSets

CONSTANTS
    Tasks,          \* the handlers of this key's requests, on any replica
    Limit,          \* requests_per_minute
    Window,         \* window_seconds
    Budget,         \* token_budget_daily and token_budget_monthly
    NoLimit,        \* None
    Period(_, _),   \* the calendar: the day or month that a time is in
    TTL,            \* _DAILY_TTL_SECONDS and _MONTHLY_TTL_SECONDS
    Never,          \* no expiry
    MaxTokens,      \* bound: what a request may cost
    MaxTime,        \* bound: ticks
    MaxRequests,    \* bound: requests in a behaviour
    MaxFailures     \* bound: failures of Redis, or of a replica

Budgets == {"daily", "monthly"}
Times == 0 .. MaxTime
Periods == {Period(b, s) : b \in Budgets, s \in Times}

\* An expiry outlasts the rest of the period in which it is set.
ASSUME LimitsAssumption ==
    /\ IsFiniteSet(Tasks)
    /\ Limit \in Nat \ {0} /\ Window \in Nat \ {0}
    /\ NoLimit \notin Nat /\ Never \notin Nat
    /\ Budget \in [Budgets -> (Nat \ {0}) \cup {NoLimit}]
    /\ TTL \in [Budgets -> Nat]
    /\ MaxTokens \in Nat /\ MaxTime \in Nat /\ MaxRequests \in Nat /\ MaxFailures \in Nat
    /\ \A b \in Budgets : \A s, u \in Times :
          s <= u => /\ Period(b, s) \in Nat
                    /\ Period(b, s) <= Period(b, u)
                    /\ Period(b, s) = Period(b, u) => u < s + TTL[b]

VARIABLES
    useRedis,
    now,
    rate,           \* the requests counted in the window
    used,           \* the tokens recorded, per budget and period
    pc,             \* where each request is
    stamp,          \* when it has read the clock
    tokens,         \* what it has to record
    admitted,       \* when the rate limiter has let in a request it has counted
    spent,          \* the tokens recorded, whatever has expired since
    blind,          \* has a budget check failed open?
    started,
    failures

rateVars == <<rate, admitted>>
budgetVars == <<used, spent, blind>>
taskVars == <<pc, stamp, tokens>>
vars == <<useRedis, now, rateVars, budgetVars, taskVars, started, failures>>

Counter == [count : Nat, expires : Nat \cup {Never}]
Absent == [count |-> 0, expires |-> Never]

TypeOK ==
    /\ useRedis \in BOOLEAN
    /\ now \in Times
    /\ rate \in Counter
    /\ used \in [Budgets -> [Periods -> Counter]]
    /\ pc \in [Tasks -> {"idle", "rate", "expire", "serving", "record"} \cup Budgets]
    /\ stamp \in [Tasks -> Times]
    /\ tokens \in [Tasks -> 0 .. MaxTokens]
    /\ admitted \in Seq(Times)
    /\ spent \in [Budgets -> [Periods -> Nat]]
    /\ blind \in BOOLEAN
    /\ started \in Nat
    /\ failures \in Nat

Init ==
    /\ useRedis \in BOOLEAN
    /\ now = 0
    /\ rate = Absent
    /\ used = [b \in Budgets |-> [p \in Periods |-> Absent]]
    /\ pc = [t \in Tasks |-> "idle"]
    /\ stamp = [t \in Tasks |-> 0]
    /\ tokens = [t \in Tasks |-> 0]
    /\ admitted = <<>>
    /\ spent = [b \in Budgets |-> [p \in Periods |-> 0]]
    /\ blind = FALSE
    /\ started = 0
    /\ failures = 0

Count(counter) ==
    IF counter.expires # Never /\ counter.expires <= now THEN 0 ELSE counter.count

Goto(t, step) == pc' = [pc EXCEPT ![t] = step]
ReadClock(t) == stamp' = [stamp EXCEPT ![t] = now]

Fails == failures < MaxFailures /\ failures' = failures + 1

Tick ==
    /\ now < MaxTime
    /\ now' = now + 1
    /\ UNCHANGED <<useRedis, rateVars, budgetVars, taskVars, started, failures>>

\* A request with this key arrives.
Arrive(t) ==
    /\ pc[t] = "idle"
    /\ started < MaxRequests
    /\ started' = started + 1
    /\ Goto(t, "rate")
    /\ UNCHANGED <<useRedis, now, rateVars, budgetVars, stamp, tokens, failures>>

-----------------------------------------------------------------------------
(* The rate limit *)

\* Past the rate limiter: the budgets, if the key has one.
LetIn(t) ==
    /\ Goto(t, IF \A b \in Budgets : Budget[b] = NoLimit THEN "serving" ELSE "daily")
    /\ ReadClock(t)

Decide(t, count) ==
    IF count <= Limit
    THEN LetIn(t) /\ admitted' = Append(admitted, now)
    ELSE Goto(t, "idle") /\ UNCHANGED <<stamp, admitted>>

\* Mutant of CheckRate: the window starts anew with each request let in.
CheckRateSliding(t) ==
    /\ ~useRedis
    /\ pc[t] = "rate"
    /\ rate' = [count |-> 1, expires |-> now + Window]
    /\ Decide(t, Count(rate))
    /\ UNCHANGED <<useRedis, now, budgetVars, tokens, started, failures>>

\* RateLimiter.check
CheckRate(t) ==
    /\ ~useRedis
    /\ pc[t] = "rate"
    /\ rate' = [count |-> Count(rate) + 1,
                expires |-> IF Count(rate) = 0 THEN now + Window ELSE rate.expires]
    /\ Decide(t, Count(rate) + 1)
    /\ UNCHANGED <<useRedis, now, budgetVars, tokens, started, failures>>

\* INCR at the server: a new key does not expire.
Increment(n) ==
    rate' = IF n = 0 THEN rate
            ELSE [count |-> Count(rate) + n,
                  expires |-> IF Count(rate) = 0 THEN Never ELSE rate.expires]

\* Mutant of Incr: the expiry is left to the second request.
IncrExpiringLater(t) ==
    /\ useRedis
    /\ pc[t] = "rate"
    /\ Increment(1)
    /\ IF Count(rate) + 1 = 2
       THEN Goto(t, "expire") /\ UNCHANGED <<stamp, admitted>>
       ELSE Decide(t, Count(rate) + 1)
    /\ UNCHANGED <<useRedis, now, budgetVars, tokens, started, failures>>

\* count = await self._client.incr(redis_key)
Incr(t) ==
    /\ useRedis
    /\ pc[t] = "rate"
    /\ \E n \in 1 .. 2 :
          /\ IF n = 1 THEN UNCHANGED failures ELSE Fails
          /\ Increment(n)
          /\ IF Count(rate) + n = 1
             THEN /\ Goto(t, "expire")
                  /\ admitted' = Append(admitted, now)
                  /\ UNCHANGED stamp
             ELSE Decide(t, Count(rate) + n)
    /\ UNCHANGED <<useRedis, now, budgetVars, tokens, started>>

\* await self._client.expire(redis_key, self._window_seconds)
SetExpire(t) ==
    /\ pc[t] = "expire"
    /\ rate' = [rate EXCEPT !.expires = now + Window]
    /\ LetIn(t)
    /\ UNCHANGED <<useRedis, now, admitted, budgetVars, tokens, started, failures>>

\* A RedisError of either command lets the request in.
RateFailsOpen(t) ==
    /\ useRedis
    /\ Fails
    /\ \/ pc[t] = "rate" /\ \E n \in 0 .. 2 : Increment(n)
       \/ pc[t] = "expire" /\ rate' \in {rate, [rate EXCEPT !.expires = now + Window]}
    /\ LetIn(t)
    /\ UNCHANGED <<useRedis, now, admitted, budgetVars, tokens, started>>

-----------------------------------------------------------------------------
(* The budgets *)

Used(b, p) == Count(used[b][p])

\* Mutant of Exceeded: a budget is exceeded only by more than its limit.
ExceededBeyond(b, p) == Budget[b] # NoLimit /\ Used(b, p) > Budget[b]

Exceeded(b, p) == Budget[b] # NoLimit /\ Used(b, p) >= Budget[b]

\* BudgetTracker.check
CheckBudget(t) ==
    /\ ~useRedis
    /\ pc[t] = "daily"
    /\ Goto(t, IF \E b \in Budgets : Exceeded(b, Period(b, now)) THEN "idle" ELSE "serving")
    /\ UNCHANGED <<useRedis, now, rateVars, budgetVars, stamp, tokens, started, failures>>

\* await self._client.get(...): of the day, and then of the month, in which the
\* check began.
GetUsed(t, b) ==
    /\ useRedis
    /\ pc[t] = b
    /\ Goto(t, IF Exceeded(b, Period(b, stamp[t])) THEN "idle"
               ELSE IF b = "daily" THEN "monthly" ELSE "serving")
    /\ UNCHANGED <<useRedis, now, rateVars, budgetVars, stamp, tokens, started, failures>>

\* A RedisError lets the request in.
BudgetFailsOpen(t) ==
    /\ useRedis
    /\ pc[t] \in Budgets
    /\ Fails
    /\ Goto(t, "serving")
    /\ blind' = TRUE
    /\ UNCHANGED <<useRedis, now, rateVars, used, spent, stamp, tokens, started>>

\* Mutant of Expiry: every counter is given the daily one.
ExpiryDaily(b) == IF useRedis THEN now + TTL["daily"] ELSE Never

Expiry(b) == IF useRedis THEN now + TTL[b] ELSE Never

\* n tokens are added in the day and the month of a time, and the counters'
\* expiries renewed, in one transaction.
Charge(at, n) ==
    /\ used' = [b \in Budgets |-> [used[b] EXCEPT ![Period(b, at)] =
                   [count |-> Count(@) + n, expires |-> Expiry(b)]]]
    /\ spent' = [b \in Budgets |-> [spent[b] EXCEPT ![Period(b, at)] = @ + n]]

\* The request is over and has cost n tokens.  BudgetTracker.record adds them
\* at once, unless there are none; RedisBudgetTracker.record reads the clock.
Serve(t, n) ==
    /\ pc[t] = "serving"
    /\ IF n > 0 /\ useRedis
       THEN /\ Goto(t, "record") /\ ReadClock(t)
            /\ tokens' = [tokens EXCEPT ![t] = n]
            /\ UNCHANGED budgetVars
       ELSE /\ Goto(t, "idle")
            /\ IF n > 0 THEN Charge(now, n) ELSE UNCHANGED <<used, spent>>
            /\ UNCHANGED <<stamp, tokens, blind>>
    /\ UNCHANGED <<useRedis, now, rateVars, started, failures>>

\* await pipe.execute()
Record(t) ==
    /\ pc[t] = "record"
    /\ Charge(stamp[t], tokens[t])
    /\ Goto(t, "idle")
    /\ UNCHANGED <<useRedis, now, rateVars, blind, stamp, tokens, started, failures>>

\* The transaction has run twice; or an error is logged, and it has not run.
RecordFails(t) ==
    /\ pc[t] = "record"
    /\ Fails
    /\ Charge(stamp[t], 2 * tokens[t]) \/ UNCHANGED <<used, spent>>
    /\ Goto(t, "idle")
    /\ UNCHANGED <<useRedis, now, rateVars, blind, stamp, tokens, started>>

\* The replica that serves the request dies.
Die(t) ==
    /\ useRedis
    /\ pc[t] # "idle"
    /\ Fails
    /\ Goto(t, "idle")
    /\ UNCHANGED <<useRedis, now, rateVars, budgetVars, stamp, tokens, started>>

-----------------------------------------------------------------------------
TaskNext(t) ==
    \/ Arrive(t)
    \/ CheckRate(t) \/ Incr(t) \/ SetExpire(t) \/ RateFailsOpen(t)
    \/ CheckBudget(t) \/ (\E b \in Budgets : GetUsed(t, b)) \/ BudgetFailsOpen(t)
    \/ (\E n \in 0 .. MaxTokens : Serve(t, n))
    \/ Record(t) \/ RecordFails(t) \/ Die(t)

Next == Tick \/ \E t \in Tasks : TaskNext(t)

Spec == Init /\ [][Next]_vars

-----------------------------------------------------------------------------
(* Properties *)

\* "Bursts right at a window boundary aren't smoothed" (RateLimiter), but that
\* is the worst there is: in no stretch of time as long as the window are more
\* than twice as many requests let in as the limit says, by all replicas.  This
\* counts the requests that the limiter has counted: those it lets in unseen
\* while Redis fails (RateFailsOpen) have no bound, and are not in `admitted'.
BurstBounded ==
    \A i, j \in DOMAIN admitted : j - i >= 2 * Limit => admitted[j] >= admitted[i] + Window

\* "It resets every 60s per key" (README, Rate limiting): a counter that is
\* there will expire, or its first request is about to see to that; unless a
\* command has failed or a replica has died, after which a counter may stay.
EveryWindowEnds ==
    failures = 0 /\ Count(rate) > 0 /\ rate.expires = Never => \E t \in Tasks : pc[t] = "expire"

\* A counter never expires in the day or month it counts: all that was recorded
\* is seen by the checks.
BudgetNeverForgets ==
    \A b \in Budgets : Used(b, Period(b, now)) = spent[b][Period(b, now)]

\* What one request may add to a budget: its tokens, or twice as many if the
\* transaction was sent again.
MaxCharge == IF failures = 0 THEN MaxTokens ELSE 2 * MaxTokens

\* Tokens are checked before a request and recorded after it, so a budget can
\* be overrun; by no more than the requests that are served at the same time,
\* those that straddle midnight included, as long as no check failed open.
OvershootBounded ==
    ~blind => \A b \in Budgets : Budget[b] # NoLimit =>
        \A p \in Periods : spent[b][p] <= Budget[b] - 1 + Cardinality(Tasks) * MaxCharge

=============================================================================
