------------------------- MODULE RequestLimits_proofs -------------------------
(***************************************************************************)
(* Proofs about RequestLimits, for any number of concurrent requests, any  *)
(* limits, any calendar and any expiries that outlast the periods they are *)
(* set in.                                                                 *)
(*                                                                         *)
(* That a budget is overrun by no more than the requests under way is not  *)
(* inductive.  A request is exposed to a period of a budget when it may    *)
(* still be charged to it without another look at what has been spent: it  *)
(* has passed the check, or will look at another day or month, or waits to *)
(* record its tokens.  A check is passed only when what was spent is less  *)
(* than the budget (which needs BudgetNeverForgets); from then on, each    *)
(* request that is charged is exposed no longer.  So what was spent beyond *)
(* the budget is covered by the requests that are not exposed.             *)
(***************************************************************************)
EXTENDS RequestLimits, FiniteSetTheorems, SequenceTheorems, TLAPS

\* A request has read the clock at some time in the past.
StampInv == \A t \in Tasks : stamp[t] <= now

\* A counter of the rate limiter without an expiry is about to be given one.
WindowInv ==
    failures = 0 /\ rate.count > 0 /\ rate.expires = Never => \E t \in Tasks : pc[t] = "expire"

\* The counter of a period that is not over holds all that was spent in it, and
\* outlasts it.
Kept(b, p) ==
    /\ used[b][p].count = spent[b][p]
    /\ \/ used[b][p].expires = Never
       \/ \A u \in Times : Period(b, u) = p => u < used[b][p].expires

KeptInv == \A b \in Budgets : \A p \in Periods : Period(b, now) <= p => Kept(b, p)

\* Nothing is spent in a period that has not begun.
FutureInv == \A b \in Budgets : \A p \in Periods : Period(b, now) < p => spent[b][p] = 0

\* Request t may be charged to this period of the budget without another check.
Exposed(t, b, p) ==
    \/ pc[t] = "record" /\ Period(b, stamp[t]) = p
    \/ /\ p = Period(b, now)
       /\ \/ pc[t] = "serving"
          \/ b = "daily" /\ pc[t] = "monthly"
          \/ pc[t] \in Budgets /\ Period(b, stamp[t]) # p

Unexposed(b, p) == {t \in Tasks : ~Exposed(t, b, p)}

Covered(b, p) ==
    spent[b][p] <= Budget[b] - 1 + Cardinality(Unexposed(b, p)) * MaxCharge

CoverInv ==
    ~blind => \A b \in Budgets : Budget[b] # NoLimit => \A p \in Periods : Covered(b, p)

Inv == TypeOK /\ StampInv /\ KeptInv /\ FutureInv

\* The requests let in up to the k-th came before a window began at `start', and
\* those of the windows before it a whole window earlier; all that were let in
\* since were counted in the window, which has not ended before its time.
WindowSince(k, start) ==
    /\ k <= Len(admitted) /\ start <= now
    /\ \A i \in 1 .. k : admitted[i] <= start
    /\ \A i \in 1 .. k - Limit : admitted[i] + Window <= start
    /\ Len(admitted) - k <= Limit /\ Len(admitted) - k <= rate.count
    /\ rate.count = 0 \/ rate.expires = Never \/ start + Window <= rate.expires

BurstInv ==
    /\ \A i \in DOMAIN admitted : admitted[i] <= now
    /\ BurstBounded
    /\ \E k \in Nat, start \in Times : WindowSince(k, start)

-----------------------------------------------------------------------------
(* The calendar, and the effect of a charge *)

LEMMA CalendarFacts ==
    ASSUME NEW b \in Budgets
    PROVE  /\ \A s \in Times : Period(b, s) \in Nat /\ Period(b, s) \in Periods
           /\ \A s, u \in Times : s <= u =>
                 /\ Period(b, s) <= Period(b, u)
                 /\ Period(b, s) = Period(b, u) => u < s + TTL[b]
           /\ TTL[b] \in Nat
           /\ Times \subseteq Nat
           /\ Periods \subseteq Nat
<1>1. Times \subseteq Nat
  BY LimitsAssumption DEF Times
<1>2. \A c \in Budgets, s \in Times : Period(c, s) \in Nat
  BY <1>1, LimitsAssumption
<1>3. Periods \subseteq Nat
  BY <1>2 DEF Periods
<1>4. \A s \in Times : Period(b, s) \in Periods
  BY DEF Periods
<1>5. QED
  BY <1>1, <1>2, <1>3, <1>4, LimitsAssumption

LEMMA CountType ==
    ASSUME NEW c \in Counter, now \in Times
    PROVE  /\ Count(c) \in Nat
           /\ c.count \in Nat
           /\ Count(c) \in {0, c.count}
           /\ c.expires = Never => Count(c) = c.count
BY DEF Counter, Count

\* What a charge does to the counters of each period.
LEMMA ChargeEffect ==
    ASSUME TypeOK, NEW at \in Times, NEW n \in Nat, Charge(at, n)
    PROVE  /\ used' \in [Budgets -> [Periods -> Counter]]
           /\ spent' \in [Budgets -> [Periods -> Nat]]
           /\ \A b \in Budgets, p \in Periods :
                 /\ p # Period(b, at) => used'[b][p] = used[b][p] /\ spent'[b][p] = spent[b][p]
                 /\ p = Period(b, at) => /\ used'[b][p].count = Count(used[b][p]) + n
                                         /\ used'[b][p].expires = Expiry(b)
                                         /\ spent'[b][p] = spent[b][p] + n
<1>1. ASSUME NEW b \in Budgets
      PROVE  /\ used'[b] \in [Periods -> Counter]
             /\ spent'[b] \in [Periods -> Nat]
             /\ \A p \in Periods :
                   /\ p # Period(b, at) => used'[b][p] = used[b][p] /\ spent'[b][p] = spent[b][p]
                   /\ p = Period(b, at) => /\ used'[b][p].count = Count(used[b][p]) + n
                                           /\ used'[b][p].expires = Expiry(b)
                                           /\ spent'[b][p] = spent[b][p] + n
  <2> DEFINE q == Period(b, at)
             new == [count |-> Count(used[b][q]) + n, expires |-> Expiry(b)]
  <2>1. q \in Periods
    BY CalendarFacts
  <2>2. used[b] \in [Periods -> Counter] /\ spent[b] \in [Periods -> Nat]
    BY DEF TypeOK
  <2>3. used[b][q] \in Counter /\ spent[b][q] \in Nat
    BY <2>1, <2>2
  <2>4. Count(used[b][q]) \in Nat
    BY <2>3, CountType DEF TypeOK
  <2>5. Expiry(b) \in Nat \cup {Never}
    BY CalendarFacts DEF Expiry, TypeOK
  <2>6. new \in Counter
    BY <2>4, <2>5 DEF Counter
  <2>7. used'[b] = [used[b] EXCEPT ![q] = new]
    BY DEF Charge
  <2>8. spent'[b] = [spent[b] EXCEPT ![q] = spent[b][q] + n]
    BY DEF Charge
  <2> HIDE DEF q
  <2>9. spent[b][q] + n \in Nat
    BY <2>3
  <2>10. new.count = Count(used[b][q]) + n /\ new.expires = Expiry(b)
    OBVIOUS
  <2> HIDE DEF new
  <2>11. used'[b] \in [Periods -> Counter] /\ spent'[b] \in [Periods -> Nat]
    BY <2>1, <2>2, <2>6, <2>7, <2>8, <2>9
  <2>12. QED
    BY <2>1, <2>2, <2>7, <2>8, <2>10, <2>11 DEF q
<1>2. used' = [b \in Budgets |-> used'[b]] /\ spent' = [b \in Budgets |-> spent'[b]]
  BY DEF Charge
<1>3. QED
  BY <1>1, <1>2

\* Only a request's end charges: at the present, or at the time it has noted.
LEMMA ChargeSteps ==
    ASSUME TypeOK, [Next]_vars
    PROVE  \/ UNCHANGED <<used, spent>>
           \/ \E t \in Tasks, n \in 0 .. MaxTokens :
                 \/ Serve(t, n) /\ ~useRedis /\ Charge(now, n)
                 \/ Record(t)
                 \/ RecordFails(t) /\ Charge(stamp[t], 2 * tokens[t])
<1>1. CASE Tick \/ UNCHANGED vars
  BY <1>1 DEF Tick, vars, budgetVars
<1>2. ASSUME NEW t \in Tasks, TaskNext(t)
      PROVE  \/ UNCHANGED <<used, spent>>
             \/ \E n \in 0 .. MaxTokens :
                 \/ Serve(t, n) /\ ~useRedis /\ Charge(now, n)
                 \/ Record(t)
                 \/ RecordFails(t) /\ Charge(stamp[t], 2 * tokens[t])
  <2>1. CASE \/ Arrive(t) \/ CheckRate(t) \/ Incr(t) \/ SetExpire(t) \/ RateFailsOpen(t)
             \/ CheckBudget(t) \/ (\E b \in Budgets : GetUsed(t, b)) \/ BudgetFailsOpen(t)
             \/ Die(t)
    BY <2>1 DEF Arrive, CheckRate, Incr, SetExpire, RateFailsOpen, CheckBudget, GetUsed,
       BudgetFailsOpen, Die, budgetVars
  <2>2. ASSUME NEW n \in 0 .. MaxTokens, Serve(t, n)
        PROVE  UNCHANGED <<used, spent>> \/ (~useRedis /\ Charge(now, n))
    BY <2>2 DEF Serve, budgetVars, TypeOK
  <2>3. CASE Record(t)
    <3>1. 0 \in 0 .. MaxTokens
      BY LimitsAssumption
    <3>2. QED
      BY <2>3, <3>1
  <2>4. CASE RecordFails(t)
    <3>1. 0 \in 0 .. MaxTokens
      BY LimitsAssumption
    <3>2. QED
      BY <2>4, <3>1 DEF RecordFails
  <2>5. QED
    BY <1>2, <2>1, <2>2, <2>3, <2>4 DEF TaskNext
<1>3. QED
  BY <1>1, <1>2 DEF Next

-----------------------------------------------------------------------------
(* Types *)

LEMMA BudgetType ==
    ASSUME TypeOK, [Next]_vars
    PROVE  /\ used' \in [Budgets -> [Periods -> Counter]]
           /\ spent' \in [Budgets -> [Periods -> Nat]]
<1>1. CASE UNCHANGED <<used, spent>>
  BY <1>1 DEF TypeOK
<1>2. ASSUME NEW t \in Tasks, NEW n \in 0 .. MaxTokens,
             \/ Charge(now, n)
             \/ Record(t)
             \/ Charge(stamp[t], 2 * tokens[t])
      PROVE  /\ used' \in [Budgets -> [Periods -> Counter]]
             /\ spent' \in [Budgets -> [Periods -> Nat]]
  <2>1. /\ n \in Nat /\ now \in Times /\ stamp[t] \in Times
        /\ tokens[t] \in Nat /\ 2 * tokens[t] \in Nat
    BY LimitsAssumption DEF TypeOK
  <2>2. CASE Charge(now, n)
    BY <2>1, <2>2, ChargeEffect
  <2>3. CASE Record(t)
    BY <2>1, <2>3, ChargeEffect DEF Record
  <2>4. CASE Charge(stamp[t], 2 * tokens[t])
    BY <2>1, <2>4, ChargeEffect
  <2>5. QED
    BY <1>2, <2>2, <2>3, <2>4
<1>3. QED
  BY <1>1, <1>2, ChargeSteps

LEMMA IncrementType ==
    ASSUME TypeOK, NEW n \in Nat, Increment(n)
    PROVE  rate' \in Counter
<1>1. rate \in Counter /\ Count(rate) \in Nat
  BY CountType DEF TypeOK
<1>2. rate.expires \in Nat \cup {Never}
  BY <1>1 DEF Counter
<1>3. QED
  BY <1>1, <1>2 DEF Increment, Counter

LEMMA RateType ==
    ASSUME TypeOK, [Next]_vars
    PROVE  rate' \in Counter
<1>1. rate \in Counter /\ Count(rate) \in Nat /\ now + Window \in Nat
  BY CountType, LimitsAssumption DEF TypeOK, Times
<1>2. rate.expires \in Nat \cup {Never} /\ rate.count \in Nat
  BY <1>1 DEF Counter
<1>3. [rate EXCEPT !.expires = now + Window] \in Counter
  BY <1>1 DEF Counter
<1>4. ASSUME NEW t \in Tasks, CheckRate(t)
      PROVE  rate' \in Counter
  <2>1. (IF Count(rate) = 0 THEN now + Window ELSE rate.expires) \in Nat \cup {Never}
    BY <1>1, <1>2
  <2>2. QED
    BY <1>1, <1>4, <2>1 DEF CheckRate, Counter
<1>5. ASSUME NEW t \in Tasks, Incr(t) \/ RateFailsOpen(t)
      PROVE  rate' \in Counter
  BY <1>1, <1>3, <1>5, IncrementType DEF Incr, RateFailsOpen
<1>6. ASSUME NEW t \in Tasks, SetExpire(t)
      PROVE  rate' \in Counter
  BY <1>3, <1>6 DEF SetExpire
<1>7. CASE UNCHANGED rate
  BY <1>1, <1>7
<1>8. \/ UNCHANGED rate
      \/ \E t \in Tasks : CheckRate(t) \/ Incr(t) \/ RateFailsOpen(t) \/ SetExpire(t)
  BY DEF Next, vars, TaskNext, Tick, Arrive, CheckBudget, GetUsed, BudgetFailsOpen, Serve, Record,
     RecordFails, Die, rateVars
<1>9. QED
  BY <1>4, <1>5, <1>6, <1>7, <1>8

LEMMA AdmittedType ==
    ASSUME TypeOK
    PROVE  Append(admitted, now) \in Seq(Times)
BY AppendProperties DEF TypeOK

Steps == {"idle", "rate", "expire", "serving", "record"} \cup Budgets

LEMMA DecideEffect ==
    ASSUME TypeOK, NEW t \in Tasks, NEW count \in Nat, Decide(t, count)
    PROVE  /\ \E step \in Steps : pc' = [pc EXCEPT ![t] = step]
           /\ stamp' = stamp \/ stamp' = [stamp EXCEPT ![t] = now]
           /\ admitted' \in Seq(Times)
<1>1. CASE count <= Limit
  <2>1. LetIn(t) /\ admitted' = Append(admitted, now)
    BY <1>1 DEF Decide
  <2>2. LetIn(t)
    BY <2>1
  <2>3. admitted' \in Seq(Times)
    BY <2>1, AdmittedType
  <2>4. stamp' = [stamp EXCEPT ![t] = now]
    BY <2>2 DEF LetIn, ReadClock
  <2>5. \E step \in Steps : pc' = [pc EXCEPT ![t] = step]
    BY <2>2, Zenon DEF LetIn, Goto, Steps, Budgets
  <2>6. QED
    BY <2>3, <2>4, <2>5
<1>2. CASE ~(count <= Limit)
  <2>1. Goto(t, "idle") /\ stamp' = stamp /\ admitted' = admitted
    BY <1>2 DEF Decide
  <2>2. admitted' \in Seq(Times)
    BY <2>1 DEF TypeOK
  <2>3. \E step \in Steps : pc' = [pc EXCEPT ![t] = step]
    BY <2>1, Zenon DEF Goto, Steps
  <2>4. QED
    BY <2>1, <2>2, <2>3
<1>3. QED
  BY <1>1, <1>2

\* A request's step takes it from somewhere to somewhere, and it may read the clock.
LEMMA TaskStep ==
    ASSUME TypeOK, NEW t \in Tasks, TaskNext(t)
    PROVE  /\ UNCHANGED <<now, useRedis>>
           /\ pc' \in [Tasks -> Steps]
           /\ \A u \in Tasks : u # t => /\ pc'[u] = pc[u]
                                        /\ stamp'[u] = stamp[u]
                                        /\ tokens'[u] = tokens[u]
           /\ stamp' = stamp \/ stamp' = [stamp EXCEPT ![t] = now]
           /\ tokens' \in [Tasks -> 0 .. MaxTokens]
           /\ failures' \in Nat /\ failures <= failures'
           /\ started' \in Nat
           /\ blind' \in BOOLEAN
           /\ admitted' \in Seq(Times)
<1> USE DEF TypeOK, Steps, Budgets
<1>1. CASE Arrive(t)
  BY <1>1 DEF Arrive, rateVars, budgetVars, Goto
<1>2. CASE CheckRate(t)
  <2>1. /\ \E step \in Steps : pc' = [pc EXCEPT ![t] = step]
        /\ stamp' = stamp \/ stamp' = [stamp EXCEPT ![t] = now]
        /\ admitted' \in Seq(Times)
    <3>1. Count(rate) + 1 \in Nat /\ Decide(t, Count(rate) + 1)
      BY <1>2, CountType DEF CheckRate
    <3>2. QED
      BY <3>1, DecideEffect DEF TypeOK
  <2>2. UNCHANGED <<useRedis, now, budgetVars, tokens, started, failures>>
    BY <1>2 DEF CheckRate
  <2>3. QED
    BY <2>1, <2>2 DEF budgetVars
<1>3. CASE Incr(t)
  <2>1. PICK n \in 1 .. 2 :
            /\ IF n = 1 THEN UNCHANGED failures ELSE Fails
            /\ IF Count(rate) + n = 1
               THEN /\ Goto(t, "expire")
                    /\ admitted' = Append(admitted, now)
                    /\ UNCHANGED stamp
               ELSE Decide(t, Count(rate) + n)
    BY <1>3 DEF Incr
  <2>2. failures' \in Nat /\ failures <= failures'
    BY <2>1 DEF Fails
  <2>3. /\ UNCHANGED <<useRedis, now, budgetVars, tokens, started>>
    BY <1>3 DEF Incr
  <2>4. CASE Count(rate) + n = 1
    <3>1. /\ Goto(t, "expire")
          /\ admitted' \in Seq(Times)
          /\ UNCHANGED stamp
      BY <2>1, <2>4, AdmittedType
    <3>2. QED
      BY <2>2, <2>3, <3>1 DEF Goto, budgetVars
  <2>5. CASE Count(rate) + n # 1
    <3>1. Count(rate) + n \in Nat /\ Decide(t, Count(rate) + n)
      BY <2>1, <2>5, CountType
    <3>2. /\ \E step \in Steps : pc' = [pc EXCEPT ![t] = step]
          /\ stamp' = stamp \/ stamp' = [stamp EXCEPT ![t] = now]
          /\ admitted' \in Seq(Times)
      BY <3>1, DecideEffect
    <3>3. QED
      BY <2>2, <2>3, <3>2 DEF budgetVars
  <2>6. QED
    BY <2>4, <2>5
<1>4. CASE SetExpire(t)
  BY <1>4 DEF SetExpire, LetIn, Goto, ReadClock, budgetVars
<1>5. CASE RateFailsOpen(t)
  BY <1>5 DEF RateFailsOpen, LetIn, Goto, ReadClock, Fails, budgetVars
<1>6. CASE CheckBudget(t) \/ (\E b \in Budgets : GetUsed(t, b)) \/ BudgetFailsOpen(t)
  <2>1. CASE CheckBudget(t)
    BY <2>1 DEF CheckBudget, Goto, rateVars, budgetVars
  <2>2. ASSUME NEW b \in Budgets, GetUsed(t, b)
        PROVE  /\ UNCHANGED <<now, useRedis, failures, started, blind, admitted, stamp, tokens>>
               /\ \E step \in Steps : pc' = [pc EXCEPT ![t] = step]
    <3>1. UNCHANGED <<now, useRedis, failures, started, blind, admitted, stamp, tokens>>
      BY <2>2 DEF GetUsed, rateVars, budgetVars
    <3>2. \/ pc' = [pc EXCEPT ![t] = "idle"]
          \/ pc' = [pc EXCEPT ![t] = "monthly"]
          \/ pc' = [pc EXCEPT ![t] = "serving"]
      BY <2>2 DEF GetUsed, Goto
    <3>3. QED
      BY <3>1, <3>2
  <2>3. CASE BudgetFailsOpen(t)
    BY <2>3 DEF BudgetFailsOpen, Goto, Fails, rateVars
  <2>4. CASE \E b \in Budgets : GetUsed(t, b)
    <3>1. UNCHANGED <<now, useRedis, failures, started, blind, admitted, stamp, tokens>>
      BY <2>2, <2>4, Zenon
    <3>2. PICK step \in Steps : pc' = [pc EXCEPT ![t] = step]
      BY <2>2, <2>4, Zenon
    <3>3. admitted' \in Seq(Times)
      BY <3>1
    <3>4. QED
      BY <3>1, <3>2, <3>3
  <2>5. QED
    BY <1>6, <2>1, <2>3, <2>4
<1>7. ASSUME NEW n \in 0 .. MaxTokens, Serve(t, n)
      PROVE  /\ UNCHANGED <<now, useRedis, failures, started, blind, admitted>>
             /\ pc' \in [Tasks -> Steps]
             /\ \A u \in Tasks : u # t => /\ pc'[u] = pc[u]
                                          /\ stamp'[u] = stamp[u]
                                          /\ tokens'[u] = tokens[u]
             /\ stamp' = stamp \/ stamp' = [stamp EXCEPT ![t] = now]
             /\ tokens' \in [Tasks -> 0 .. MaxTokens]
  <2>1. UNCHANGED <<now, useRedis, failures, started, admitted>>
    BY <1>7 DEF Serve, rateVars
  <2>2. CASE n > 0 /\ useRedis
    BY <1>7, <2>1, <2>2 DEF Serve, Goto, ReadClock, budgetVars
  <2>3. CASE ~(n > 0 /\ useRedis)
    <3>1. Goto(t, "idle") /\ UNCHANGED <<stamp, tokens, blind>>
      BY <1>7, <2>3 DEF Serve
    <3>2. QED
      BY <2>1, <3>1 DEF Goto
  <2>4. QED
    BY <2>2, <2>3
<1>8. CASE Record(t) \/ RecordFails(t) \/ Die(t)
  <2>1. /\ Goto(t, "idle")
        /\ UNCHANGED <<now, useRedis, stamp, tokens, started, blind, admitted>>
        /\ UNCHANGED failures \/ Fails
    BY <1>8 DEF Record, RecordFails, Die, rateVars, budgetVars
  <2>2. failures' \in Nat /\ failures <= failures'
    BY <2>1 DEF Fails
  <2>3. admitted' \in Seq(Times)
    BY <2>1
  <2>4. QED
    BY <2>1, <2>2, <2>3 DEF Goto
<1>9. QED
  BY <1>1, <1>2, <1>3, <1>4, <1>5, <1>6, <1>7, <1>8 DEF TaskNext

LEMMA TypeStep ==
    ASSUME TypeOK, [Next]_vars
    PROVE  TypeOK'
<1>1. CASE Tick \/ UNCHANGED vars
  BY <1>1, LimitsAssumption
     DEF Tick, vars, rateVars, budgetVars, taskVars, TypeOK, Times
<1>2. ASSUME NEW t \in Tasks, TaskNext(t)
      PROVE  TypeOK'
  <2>1. rate' \in Counter
    BY RateType
  <2>2. used' \in [Budgets -> [Periods -> Counter]] /\ spent' \in [Budgets -> [Periods -> Nat]]
    BY BudgetType
  <2>3. stamp' \in [Tasks -> Times]
    BY <1>2, TaskStep DEF TypeOK
  <2>4. QED
    BY <1>2, <2>1, <2>2, <2>3, TaskStep DEF TypeOK, Steps
<1>3. QED
  BY <1>1, <1>2 DEF Next


-----------------------------------------------------------------------------
(* The counters and the periods *)

LEMMA StampStep ==
    ASSUME TypeOK, StampInv, [Next]_vars
    PROVE  StampInv'
<1>1. CASE Tick \/ UNCHANGED vars
  <2>1. stamp' = stamp /\ now' \in Nat /\ now <= now'
    BY <1>1, LimitsAssumption DEF Tick, vars, taskVars, TypeOK, Times
  <2>2. \A t \in Tasks : stamp[t] \in Nat /\ now \in Nat
    BY LimitsAssumption DEF TypeOK, Times
  <2>3. QED
    BY <2>1, <2>2 DEF StampInv
<1>2. ASSUME NEW t \in Tasks, TaskNext(t)
      PROVE  StampInv'
  <2>1. now' = now /\ (stamp' = stamp \/ stamp' = [stamp EXCEPT ![t] = now])
    BY <1>2, TaskStep
  <2>2. now <= now
    BY LimitsAssumption DEF TypeOK, Times
  <2>3. QED
    BY <2>1, <2>2 DEF StampInv, TypeOK
<1>3. QED
  BY <1>1, <1>2 DEF Next

\* What a check sees of the present period is what was spent in it.
LEMMA UsedIsSpent ==
    ASSUME TypeOK, KeptInv, NEW b \in Budgets
    PROVE  Used(b, Period(b, now)) = spent[b][Period(b, now)]
<1> DEFINE p == Period(b, now)
<1>1. now \in Times /\ p \in Periods /\ p \in Nat
  BY CalendarFacts DEF TypeOK
<1>2. Kept(b, p)
  BY <1>1 DEF KeptInv
<1>3. used[b][p] \in Counter
  BY <1>1 DEF TypeOK
<1>4. CASE used[b][p].expires = Never
  BY <1>2, <1>3, <1>4, CountType, <1>1 DEF Used, Kept
<1>5. CASE used[b][p].expires # Never
  <2>1. now < used[b][p].expires
    BY <1>1, <1>2, <1>5 DEF Kept
  <2>2. used[b][p].expires \in Nat /\ now \in Nat
    BY <1>1, <1>3, <1>5, CalendarFacts DEF Counter
  <2>3. ~(used[b][p].expires <= now)
    BY <2>1, <2>2
  <2>4. QED
    BY <1>2, <2>3 DEF Used, Count, Kept
<1>6. QED
  BY <1>4, <1>5

\* Tokens are charged to the period that a time of the past was in.
LEMMA KeptCharge ==
    ASSUME TypeOK, KeptInv, FutureInv, NEW at \in Times, at <= now, NEW n \in Nat,
           Charge(at, n), now' = now
    PROVE  KeptInv' /\ FutureInv'
<1>1. ASSUME NEW b \in Budgets, NEW p \in Periods, Period(b, now) <= p
      PROVE  Kept(b, p)'
  <2>1. CASE p # Period(b, at)
    <3>1. used'[b][p] = used[b][p] /\ spent'[b][p] = spent[b][p]
      BY <2>1, ChargeEffect
    <3>2. QED
      BY <1>1, <3>1 DEF Kept, KeptInv
  <2>2. CASE p = Period(b, at)
    <3>1. p = Period(b, now)
      <4>1. now \in Times
        BY DEF TypeOK
      <4>2. Period(b, at) <= Period(b, now) /\ Period(b, at) \in Nat /\ Period(b, now) \in Nat
        BY <4>1, CalendarFacts
      <4>3. QED
        BY <1>1, <2>2, <4>2
    <3>2. Count(used[b][p]) = spent[b][p]
      BY <3>1, UsedIsSpent DEF Used
    <3>3. used'[b][p].count = spent'[b][p] /\ used'[b][p].expires = Expiry(b)
      BY <2>2, <3>2, ChargeEffect
    <3>4. ASSUME NEW u \in Times, Period(b, u) = p, useRedis
          PROVE  u < now + TTL[b]
      <4>1. now \in Times /\ now \in Nat /\ u \in Nat /\ TTL[b] \in Nat
        BY CalendarFacts DEF TypeOK
      <4>2. CASE now <= u
        BY <3>1, <3>4, <4>1, <4>2, CalendarFacts
      <4>3. CASE u < now
        <5>1. now <= now /\ Period(b, now) = Period(b, now)
          BY <4>1
        <5>2. now < now + TTL[b]
          BY <4>1, <5>1, CalendarFacts
        <5>3. QED
          BY <4>1, <4>3, <5>2
      <4>4. QED
        BY <4>1, <4>2, <4>3
    <3>5. Expiry(b) = Never \/ \A u \in Times : Period(b, u) = p => u < Expiry(b)
      BY <3>4 DEF Expiry
    <3>6. QED
      BY <3>3, <3>5 DEF Kept
  <2>3. QED
    BY <2>1, <2>2
<1>2. ASSUME NEW b \in Budgets, NEW p \in Periods, Period(b, now) < p
      PROVE  spent'[b][p] = 0
  <2>1. now \in Times
    BY DEF TypeOK
  <2>2. Period(b, at) <= Period(b, now) /\ Period(b, at) \in Nat /\ Period(b, now) \in Nat /\ p \in Nat
    BY <2>1, CalendarFacts
  <2>3. p # Period(b, at)
    BY <1>2, <2>2
  <2>4. spent'[b][p] = spent[b][p]
    BY <2>3, ChargeEffect
  <2>5. QED
    BY <1>2, <2>4 DEF FutureInv
<1>3. QED
  BY <1>1, <1>2 DEF KeptInv, FutureInv

LEMMA KeptStep ==
    ASSUME Inv, [Next]_vars
    PROVE  KeptInv' /\ FutureInv'
<1> USE DEF Inv
<1>1. CASE UNCHANGED <<used, spent>>
  <2>1. now' \in Times /\ now \in Times /\ now <= now'
    <3>1. CASE Tick
      BY <3>1, TypeStep, LimitsAssumption DEF Tick, TypeOK, Times
    <3>2. CASE now' = now
      BY <3>2, LimitsAssumption DEF TypeOK, Times
    <3>3. QED
      BY <3>1, <3>2, TaskStep DEF Next, vars
  <2>2. ASSUME NEW b \in Budgets
        PROVE  \A p \in Periods : /\ Period(b, now') <= p => Period(b, now) <= p
                                  /\ Period(b, now') < p => Period(b, now) < p
    <3>1. /\ Period(b, now) \in Nat /\ Period(b, now') \in Nat
          /\ Period(b, now) <= Period(b, now') /\ Periods \subseteq Nat
      BY <2>1, CalendarFacts
    <3>2. QED
      BY <3>1
  <2>3. \A b \in Budgets, p \in Periods : Kept(b, p) => Kept(b, p)'
    BY <1>1 DEF Kept
  <2>4. QED
    BY <1>1, <2>2, <2>3 DEF KeptInv, FutureInv
<1>2. ASSUME NEW t \in Tasks, NEW n \in 0 .. MaxTokens,
             \/ Serve(t, n) /\ Charge(now, n)
             \/ Record(t)
             \/ RecordFails(t) /\ Charge(stamp[t], 2 * tokens[t])
      PROVE  KeptInv' /\ FutureInv'
  <2>1. /\ now \in Times /\ stamp[t] \in Times /\ now <= now /\ stamp[t] <= now
        /\ n \in Nat /\ tokens[t] \in Nat /\ 2 * tokens[t] \in Nat
    BY LimitsAssumption DEF TypeOK, StampInv, Times
  <2>2. now' = now
    BY <1>2 DEF Serve, Record, RecordFails
  <2>3. CASE Charge(now, n)
    BY <2>1, <2>2, <2>3, KeptCharge
  <2>4. CASE Charge(stamp[t], tokens[t])
    BY <2>1, <2>2, <2>4, KeptCharge
  <2>5. CASE Charge(stamp[t], 2 * tokens[t])
    BY <2>1, <2>2, <2>5, KeptCharge
  <2>6. QED
    BY <1>2, <2>3, <2>4, <2>5 DEF Record
<1>3. QED
  BY <1>1, <1>2, ChargeSteps

LEMMA InvInit ==
    ASSUME Init
    PROVE  Inv
<1>1. TypeOK
  <2>1. Absent \in Counter
    BY DEF Absent, Counter
  <2>2. 0 \in Times /\ 0 \in 0 .. MaxTokens
    BY LimitsAssumption DEF Times
  <2>3. admitted \in Seq(Times)
    BY DEF Init
  <2>4. QED
    BY <2>1, <2>2, <2>3 DEF Init, TypeOK
<1>2. StampInv
  BY DEF Init, StampInv
<1>3. KeptInv /\ FutureInv
  BY DEF Init, KeptInv, FutureInv, Kept, Absent
<1>4. QED
  BY <1>1, <1>2, <1>3 DEF Inv

LEMMA Invariance == Spec => []Inv
<1>1. Inv /\ [Next]_vars => Inv'
  BY TypeStep, StampStep, KeptStep DEF Inv
<1>2. QED
  BY <1>1, InvInit, PTL DEF Spec

\* The state of requests, counters and clocks is what it is meant to be.
THEOREM TypeCorrect == Spec => []TypeOK
BY Invariance, PTL DEF Inv

\* What a request's check reads of today's and of this month's counter is all
\* that was recorded in it: no counter expires too early
\* (RedisBudgetTracker.record's EXPIREs).
THEOREM BudgetRemembers == Spec => []BudgetNeverForgets
<1>1. Inv => BudgetNeverForgets
  BY UsedIsSpent DEF Inv, BudgetNeverForgets
<1>2. QED
  BY <1>1, Invariance, PTL

-----------------------------------------------------------------------------
(* The window of the rate limiter *)

LEMMA WindowStep ==
    ASSUME TypeOK, WindowInv, [Next]_vars
    PROVE  WindowInv'
<1> USE DEF WindowInv
<1>0. /\ rate \in Counter /\ rate.count \in Nat /\ Count(rate) \in Nat /\ failures \in Nat
      /\ Count(rate) \in {0, rate.count}
      /\ rate.expires = Never => Count(rate) = rate.count
      /\ now + Window # Never
  <2>1. rate \in Counter /\ now \in Times /\ failures \in Nat
    BY DEF TypeOK
  <2>2. now + Window \in Nat
    BY LimitsAssumption DEF TypeOK, Times
  <2>3. QED
    BY <2>1, <2>2, CountType, LimitsAssumption
<1>1. CASE Tick \/ UNCHANGED vars
  BY <1>1 DEF Tick, vars, taskVars, rateVars
<1>2. ASSUME NEW t \in Tasks, TaskNext(t), failures' = 0
      PROVE  rate'.count > 0 /\ rate'.expires = Never => \E u \in Tasks : pc'[u] = "expire"
  <2>1. failures = 0
    BY <1>0, <1>2, TaskStep
  <2>2. \A u \in Tasks : u # t => pc'[u] = pc[u]
    BY <1>2, TaskStep
  <2>3. ASSUME pc[t] # "expire", UNCHANGED rate
        PROVE  rate'.count > 0 /\ rate'.expires = Never => \E u \in Tasks : pc'[u] = "expire"
    BY <2>1, <2>2, <2>3
  <2>4. ~Fails
    BY <1>2, <2>1 DEF Fails
  <2>5. CASE Arrive(t) \/ CheckBudget(t) \/ BudgetFailsOpen(t) \/ Record(t) \/ RecordFails(t)
    BY <2>3, <2>5 DEF Arrive, CheckBudget, BudgetFailsOpen, Record, RecordFails, Budgets, rateVars
  <2>6. CASE (\E b \in Budgets : GetUsed(t, b)) \/ (\E n \in 0 .. MaxTokens : Serve(t, n))
    BY <2>3, <2>6 DEF GetUsed, Serve, Budgets, rateVars
  <2>7. CASE RateFailsOpen(t) \/ Die(t)
    BY <2>4, <2>7 DEF RateFailsOpen, Die
  <2>8. CASE SetExpire(t)
    BY <1>0, <2>8 DEF SetExpire, Counter
  <2>9. CASE CheckRate(t)
    <3>1. rate'.expires = IF Count(rate) = 0 THEN now + Window ELSE rate.expires
      BY <2>9 DEF CheckRate
    <3>2. ASSUME rate'.expires = Never
          PROVE  \E u \in Tasks : pc'[u] = "expire"
      <4>1. rate.expires = Never /\ rate.count > 0
        BY <1>0, <3>1, <3>2
      <4>2. pc[t] = "rate"
        BY <2>9 DEF CheckRate
      <4>3. QED
        BY <2>1, <2>2, <4>1, <4>2
    <3>3. QED
      BY <3>2
  <2>10. CASE Incr(t)
    <3>1. pc[t] = "rate" /\ Increment(1)
          /\ (Count(rate) + 1 = 1 => Goto(t, "expire"))
      BY <2>4, <2>10 DEF Incr
    <3>2. CASE Count(rate) = 0
      BY <1>0, <3>1, <3>2 DEF Goto, TypeOK
    <3>3. CASE Count(rate) # 0
      <4>1. rate'.expires = rate.expires
        BY <3>1, <3>3 DEF Increment
      <4>2. rate.expires = Never => rate.count > 0
        BY <1>0, <3>3
      <4>3. QED
        BY <2>1, <2>2, <3>1, <4>1, <4>2
    <3>4. QED
      BY <3>2, <3>3
  <2>11. QED
    BY <1>2, <2>5, <2>6, <2>7, <2>8, <2>9, <2>10 DEF TaskNext
<1>3. QED
  BY <1>1, <1>2 DEF Next

\* As long as every command has succeeded and no replica has died, no request
\* leaves a rate counter behind that never expires, however the INCR and the
\* EXPIRE of several replicas interleave (RedisRateLimiter.check).
THEOREM WindowEnds == Spec => []EveryWindowEnds
<1>1. Init => WindowInv
  BY DEF Init, WindowInv, Absent
<1>2. TypeOK /\ WindowInv /\ [Next]_vars => WindowInv'
  BY WindowStep
<1>3. TypeOK /\ WindowInv => EveryWindowEnds
  BY CountType DEF WindowInv, EveryWindowEnds, TypeOK
<1>4. QED
  BY <1>1, <1>2, <1>3, TypeCorrect, PTL DEF Spec

-----------------------------------------------------------------------------
(* How far a budget is overrun *)

LEMMA ProductType ==
    ASSUME NEW k \in Nat, NEW m \in Nat
    PROVE  k * m \in Nat
OBVIOUS

LEMMA ProductGrows ==
    ASSUME NEW k \in Nat, NEW m \in Nat, NEW k2 \in Nat, NEW m2 \in Nat, k <= k2, m <= m2
    PROVE  k * m <= k2 * m2
<1>1. k * m <= k2 * m
  OBVIOUS
<1>2. k2 * m <= k2 * m2
  OBVIOUS
<1>3. k * m \in Nat /\ k2 * m \in Nat /\ k2 * m2 \in Nat
  BY ProductType
<1>4. QED
  BY <1>1, <1>2, <1>3

LEMMA ProductOfNext ==
    ASSUME NEW k \in Nat, NEW m \in Nat
    PROVE  (k + 1) * m = k * m + m
OBVIOUS

LEMMA UnexposedFinite ==
    ASSUME NEW b, NEW p
    PROVE  /\ IsFiniteSet(Unexposed(b, p))
           /\ Cardinality(Unexposed(b, p)) \in Nat
           /\ Cardinality(Unexposed(b, p)) <= Cardinality(Tasks)
<1>1. Unexposed(b, p) \subseteq Tasks /\ IsFiniteSet(Tasks)
  BY LimitsAssumption DEF Unexposed
<1>2. QED
  BY <1>1, FS_Subset, FS_CardinalityType

LEMMA UnexposedFiniteNext ==
    ASSUME NEW b, NEW p
    PROVE  /\ IsFiniteSet(Unexposed(b, p)')
           /\ Cardinality(Unexposed(b, p)') \in Nat
<1>1. Unexposed(b, p)' \subseteq Tasks /\ IsFiniteSet(Tasks)
  BY LimitsAssumption DEF Unexposed
<1>2. QED
  BY <1>1, FS_Subset, FS_CardinalityType

LEMMA MaxChargeFacts ==
    ASSUME TypeOK, [Next]_vars
    PROVE  /\ MaxCharge \in Nat /\ MaxCharge' \in Nat
           /\ MaxTokens <= MaxCharge /\ MaxCharge <= MaxCharge'
           /\ failures' > 0 => 2 * MaxTokens <= MaxCharge'
<1>1. failures \in Nat /\ failures' \in Nat /\ failures <= failures'
  <2>1. failures \in Nat /\ failures' \in Nat
    BY TypeStep DEF TypeOK
  <2>2. \/ UNCHANGED failures
        \/ \E t \in Tasks : TaskNext(t)
    BY DEF Next, Tick, vars
  <2>3. QED
    BY <2>1, <2>2, TaskStep
<1>2. MaxTokens \in Nat
  BY LimitsAssumption
<1>3. QED
  BY <1>1, <1>2 DEF MaxCharge

\* Less is spent than the budget.
LEMMA CoveredBelow ==
    ASSUME TypeOK, [Next]_vars, NEW b \in Budgets, NEW p \in Periods, Budget[b] # NoLimit,
           spent'[b][p] <= Budget[b] - 1
    PROVE  Covered(b, p)'
<1> DEFINE k == Cardinality(Unexposed(b, p)')
           m == MaxCharge'
<1>1. k \in Nat /\ m \in Nat
  BY UnexposedFiniteNext, MaxChargeFacts
<1>2. k * m \in Nat
  BY <1>1, ProductType
<1>3. Budget[b] \in Nat /\ spent'[b][p] \in Nat
  BY BudgetType, LimitsAssumption
<1>4. spent'[b][p] <= Budget[b] - 1 + k * m
  BY <1>2, <1>3
<1>5. QED
  BY <1>4 DEF Covered

\* Nothing is spent, and nobody is newly exposed.
LEMMA CoveredStill ==
    ASSUME TypeOK, [Next]_vars, NEW b \in Budgets, NEW p \in Periods, Budget[b] # NoLimit,
           Covered(b, p), spent'[b][p] = spent[b][p],
           Unexposed(b, p) \subseteq Unexposed(b, p)'
    PROVE  Covered(b, p)'
<1> DEFINE k == Cardinality(Unexposed(b, p))
           k2 == Cardinality(Unexposed(b, p)')
           m == MaxCharge
           m2 == MaxCharge'
<1>1. k \in Nat /\ k2 \in Nat /\ m \in Nat /\ m2 \in Nat /\ m <= m2
  BY UnexposedFinite, UnexposedFiniteNext, MaxChargeFacts
<1>2. k <= k2
  BY UnexposedFiniteNext, FS_Subset
<1>3. Budget[b] \in Nat /\ spent[b][p] \in Nat
  BY LimitsAssumption DEF TypeOK
<1>4. spent[b][p] <= Budget[b] - 1 + k * m
  BY DEF Covered
<1>5. Covered(b, p)' <=> spent'[b][p] <= Budget[b] - 1 + k2 * m2
  BY DEF Covered
<1> HIDE DEF k, k2, m, m2
<1>6. k * m <= k2 * m2 /\ k * m \in Nat /\ k2 * m2 \in Nat
  BY <1>1, <1>2, ProductGrows, ProductType
<1>7. QED
  BY <1>3, <1>4, <1>5, <1>6

\* A request is charged, and is exposed no longer.
LEMMA CoveredCharge ==
    ASSUME TypeOK, [Next]_vars, NEW b \in Budgets, NEW p \in Periods, Budget[b] # NoLimit,
           Covered(b, p), spent'[b][p] <= spent[b][p] + MaxCharge',
           Unexposed(b, p) \subseteq Unexposed(b, p)',
           NEW t \in Unexposed(b, p)', t \notin Unexposed(b, p)
    PROVE  Covered(b, p)'
<1> DEFINE k == Cardinality(Unexposed(b, p))
           k2 == Cardinality(Unexposed(b, p)')
           m == MaxCharge
           m2 == MaxCharge'
<1>1. k \in Nat /\ k2 \in Nat /\ m \in Nat /\ m2 \in Nat /\ m <= m2
  BY UnexposedFinite, UnexposedFiniteNext, MaxChargeFacts
<1>2. k + 1 <= k2
  <2>1. /\ IsFiniteSet(Unexposed(b, p) \cup {t})
        /\ Cardinality(Unexposed(b, p) \cup {t}) = k + 1
    BY UnexposedFinite, FS_AddElement
  <2>2. Unexposed(b, p) \cup {t} \subseteq Unexposed(b, p)'
    OBVIOUS
  <2>3. Cardinality(Unexposed(b, p) \cup {t}) <= k2
    BY <2>2, UnexposedFiniteNext, FS_Subset
  <2>4. QED
    BY <2>1, <2>3
<1>3. Budget[b] \in Nat /\ spent[b][p] \in Nat /\ spent'[b][p] \in Nat
  BY BudgetType, LimitsAssumption DEF TypeOK
<1>4. spent[b][p] <= Budget[b] - 1 + k * m /\ spent'[b][p] <= spent[b][p] + m2
  BY DEF Covered
<1>5. Covered(b, p)' <=> spent'[b][p] <= Budget[b] - 1 + k2 * m2
  BY DEF Covered
<1> HIDE DEF k, k2, m, m2
<1>6. k * m <= k * m2 /\ (k + 1) * m2 <= k2 * m2
  BY <1>1, <1>2, ProductGrows
<1>7. (k + 1) * m2 = k * m2 + m2
  BY <1>1, ProductOfNext
<1>8. k * m \in Nat /\ k * m2 \in Nat /\ k2 * m2 \in Nat
  BY <1>1, ProductType
<1>9. QED
  BY <1>1, <1>3, <1>4, <1>5, <1>6, <1>7, <1>8

\* It is enough to look at the request that takes the step.
LEMMA CoveredTask ==
    ASSUME TypeOK, NEW t \in Tasks, TaskNext(t), NEW b \in Budgets, NEW p \in Periods,
           Budget[b] # NoLimit, Covered(b, p),
           \/ spent'[b][p] <= Budget[b] - 1
           \/ spent'[b][p] = spent[b][p] /\ (Exposed(t, b, p)' => Exposed(t, b, p))
           \/ /\ spent'[b][p] <= spent[b][p] + MaxCharge'
              /\ Exposed(t, b, p) /\ ~Exposed(t, b, p)'
    PROVE  Covered(b, p)'
<1>1. [Next]_vars
  BY DEF Next
<1>2. \A u \in Tasks : u # t => (Exposed(u, b, p)' <=> Exposed(u, b, p))
  BY TaskStep DEF Exposed
<1>3. CASE spent'[b][p] <= Budget[b] - 1
  BY <1>1, <1>3, CoveredBelow
<1>4. CASE spent'[b][p] = spent[b][p] /\ (Exposed(t, b, p)' => Exposed(t, b, p))
  <2>1. Unexposed(b, p) \subseteq Unexposed(b, p)'
    BY <1>2, <1>4 DEF Unexposed
  <2>2. QED
    BY <1>1, <1>4, <2>1, CoveredStill
<1>5. CASE /\ spent'[b][p] <= spent[b][p] + MaxCharge'
           /\ Exposed(t, b, p) /\ ~Exposed(t, b, p)'
  <2>1. Unexposed(b, p) \subseteq Unexposed(b, p)'
    BY <1>2, <1>5 DEF Unexposed
  <2>2. t \in Unexposed(b, p)' /\ t \notin Unexposed(b, p)
    BY <1>5 DEF Unexposed
  <2>3. QED
    BY <1>1, <1>5, <2>1, <2>2, CoveredCharge
<1>6. QED
  BY <1>3, <1>4, <1>5

LEMMA CoverTick ==
    ASSUME Inv, CoverInv, Tick
    PROVE  CoverInv'
<1>1. [Next]_vars /\ blind' = blind
  BY DEF Next, Tick, budgetVars
<1>2. ASSUME NEW b \in Budgets, NEW p \in Periods, Budget[b] # NoLimit, Covered(b, p)
      PROVE  Covered(b, p)'
  <2>1. spent'[b][p] = spent[b][p] /\ pc' = pc /\ stamp' = stamp
    BY DEF Tick, budgetVars, taskVars
  <2>2. CASE p = Period(b, now') /\ p # Period(b, now)
    <3>1. now \in Times /\ now' \in Times /\ now <= now'
      BY TypeStep, <1>1, LimitsAssumption DEF Inv, TypeOK, Tick, Times
    <3>2. Period(b, now) < p
      <4>1. Period(b, now) <= Period(b, now') /\ Period(b, now) \in Nat /\ Period(b, now') \in Nat
        BY <3>1, CalendarFacts
      <4>2. QED
        BY <2>2, <4>1
    <3>3. spent[b][p] = 0
      BY <3>2 DEF Inv, FutureInv
    <3>4. Budget[b] \in Nat \ {0}
      BY <1>2, LimitsAssumption
    <3>5. spent'[b][p] <= Budget[b] - 1
      BY <2>1, <3>3, <3>4
    <3>6. QED
      BY <1>1, <1>2, <3>5, CoveredBelow DEF Inv
  <2>3. CASE ~(p = Period(b, now') /\ p # Period(b, now))
    <3>1. \A t \in Tasks : Exposed(t, b, p)' => Exposed(t, b, p)
      BY <2>1, <2>3 DEF Exposed
    <3>2. Unexposed(b, p) \subseteq Unexposed(b, p)'
      BY <3>1 DEF Unexposed
    <3>3. QED
      BY <1>1, <1>2, <2>1, <3>2, CoveredStill DEF Inv
  <2>4. QED
    BY <2>2, <2>3
<1>3. QED
  BY <1>1, <1>2 DEF CoverInv

\* The request is let in, sent away, or just arrives: a check awaits it, if
\* there is a budget at all.
LEMMA ArrivalExposesNone ==
    ASSUME TypeOK, NEW t \in Tasks, NEW b \in Budgets, NEW p \in Periods, Budget[b] # NoLimit,
           \/ Arrive(t) \/ CheckRate(t) \/ Incr(t) \/ SetExpire(t) \/ RateFailsOpen(t)
    PROVE  spent'[b][p] = spent[b][p] /\ ~Exposed(t, b, p)'
<1>1. spent' = spent /\ now' = now
  BY DEF Arrive, CheckRate, Incr, SetExpire, RateFailsOpen, budgetVars
<1>2. \/ pc' = [pc EXCEPT ![t] = "rate"]
      \/ pc' = [pc EXCEPT ![t] = "idle"]
      \/ pc' = [pc EXCEPT ![t] = "expire"]
      \/ LetIn(t)
  BY DEF Arrive, CheckRate, Incr, SetExpire, RateFailsOpen, Decide, Goto
<1>3. LetIn(t) => pc'[t] = "daily" /\ stamp'[t] = now
  BY DEF LetIn, Goto, ReadClock, TypeOK
<1>4. CASE pc'[t] \in {"rate", "idle", "expire"}
  BY <1>1, <1>4 DEF Exposed, Budgets
<1>5. CASE pc'[t] = "daily" /\ stamp'[t] = now
  BY <1>1, <1>5 DEF Exposed, Budgets
<1>6. QED
  BY <1>2, <1>3, <1>4, <1>5 DEF TypeOK

\* A check that is passed has seen less spent than the budget.
LEMMA PassedBelow ==
    ASSUME Inv, NEW b \in Budgets, Budget[b] # NoLimit, ~Exceeded(b, Period(b, now))
    PROVE  spent[b][Period(b, now)] <= Budget[b] - 1
<1>1. Used(b, Period(b, now)) = spent[b][Period(b, now)]
  BY UsedIsSpent DEF Inv
<1>2. spent[b][Period(b, now)] \in Nat /\ Budget[b] \in Nat
  BY CalendarFacts, LimitsAssumption DEF Inv, TypeOK
<1>3. QED
  BY <1>1, <1>2 DEF Exceeded

LEMMA CheckCovers ==
    ASSUME Inv, NEW t \in Tasks, NEW b \in Budgets, NEW p \in Periods, Budget[b] # NoLimit,
           CheckBudget(t)
    PROVE  \/ spent'[b][p] <= Budget[b] - 1
           \/ spent'[b][p] = spent[b][p] /\ ~Exposed(t, b, p)'
<1>1. spent' = spent /\ now' = now
  BY DEF CheckBudget, budgetVars
<1>2. CASE p = Period(b, now) /\ ~Exceeded(b, Period(b, now))
  BY <1>1, <1>2, PassedBelow
<1>3. CASE p # Period(b, now) \/ Exceeded(b, Period(b, now))
  <2>1. pc'[t] \in {"idle", "serving"}
    BY DEF CheckBudget, Goto, Inv, TypeOK
  <2>2. Exceeded(b, Period(b, now)) => pc'[t] = "idle"
    BY DEF CheckBudget, Goto, Inv, TypeOK
  <2>3. QED
    BY <1>1, <1>3, <2>1, <2>2 DEF Exposed, Budgets
<1>4. QED
  BY <1>2, <1>3

LEMMA GetCovers ==
    ASSUME Inv, NEW t \in Tasks, NEW b \in Budgets, NEW p \in Periods, Budget[b] # NoLimit,
           NEW c \in Budgets, GetUsed(t, c)
    PROVE  \/ spent'[b][p] <= Budget[b] - 1
           \/ spent'[b][p] = spent[b][p] /\ (Exposed(t, b, p)' => Exposed(t, b, p))
<1>1. spent' = spent /\ now' = now /\ stamp' = stamp /\ pc[t] = c
  BY DEF GetUsed, budgetVars
<1>2. pc'[t] = IF Exceeded(c, Period(c, stamp[t])) THEN "idle"
               ELSE IF c = "daily" THEN "monthly" ELSE "serving"
  BY DEF GetUsed, Goto, Inv, TypeOK
<1>3. CASE p # Period(b, now) \/ Exceeded(c, Period(c, stamp[t]))
  BY <1>1, <1>2, <1>3 DEF Exposed, Budgets
<1>4. CASE p = Period(b, now) /\ ~Exceeded(c, Period(c, stamp[t]))
  <2>1. CASE Period(b, stamp[t]) # p
    BY <1>1, <1>4, <2>1 DEF Exposed
  <2>2. CASE c = b /\ Period(b, stamp[t]) = p
    BY <1>1, <1>4, <2>2, PassedBelow
  <2>3. CASE c = "monthly" /\ b = "daily" /\ Period(b, stamp[t]) = p
    BY <1>1, <1>4, <2>3 DEF Exposed
  <2>4. CASE c = "daily" /\ b = "monthly" /\ Period(b, stamp[t]) = p
    <3>1. pc'[t] = "monthly"
      BY <1>2, <1>4, <2>4
    <3>2. ~Exposed(t, b, p)'
      BY <1>1, <1>4, <2>4, <3>1 DEF Exposed
    <3>3. QED
      BY <1>1, <3>2
  <2>5. QED
    BY <2>1, <2>2, <2>3, <2>4 DEF Budgets
<1>5. QED
  BY <1>3, <1>4

LEMMA ServeCovers ==
    ASSUME Inv, [Next]_vars, NEW t \in Tasks, NEW b \in Budgets, NEW p \in Periods,
           NEW n \in 0 .. MaxTokens, Serve(t, n)
    PROVE  \/ spent'[b][p] = spent[b][p] /\ (Exposed(t, b, p)' => Exposed(t, b, p))
           \/ /\ spent'[b][p] <= spent[b][p] + MaxCharge'
              /\ Exposed(t, b, p) /\ ~Exposed(t, b, p)'
<1>1. now' = now /\ pc[t] = "serving" /\ n \in Nat
  BY LimitsAssumption DEF Serve
<1>2. CASE n > 0 /\ useRedis
  <2>1. spent' = spent
    BY <1>2 DEF Serve, budgetVars
  <2>2. pc'[t] = "record" /\ stamp'[t] = now
    BY <1>2 DEF Serve, Goto, ReadClock, Inv, TypeOK
  <2>3. QED
    BY <1>1, <2>1, <2>2 DEF Exposed, Budgets
<1>3. CASE ~(n > 0 /\ useRedis)
  <2>1. pc'[t] = "idle"
    BY <1>3 DEF Serve, Goto, Inv, TypeOK
  <2>2. ~Exposed(t, b, p)'
    BY <2>1 DEF Exposed, Budgets
  <2>3. CASE n = 0
    BY <1>3, <2>2, <2>3 DEF Serve
  <2>4. CASE n > 0
    <3>1. Charge(now, n) /\ now \in Times
      BY <1>3, <2>4 DEF Serve, Inv, TypeOK
    <3>2. CASE p = Period(b, now)
      <4>1. spent'[b][p] = spent[b][p] + n
        BY <1>1, <3>1, <3>2, ChargeEffect DEF Inv
      <4>2. /\ n <= MaxTokens /\ MaxTokens \in Nat /\ MaxCharge \in Nat /\ MaxCharge' \in Nat
            /\ MaxTokens <= MaxCharge /\ MaxCharge <= MaxCharge'
        BY MaxChargeFacts, LimitsAssumption DEF Inv
      <4>3. n <= MaxCharge'
        BY <1>1, <4>2
      <4>4. spent[b][p] \in Nat
        BY DEF Inv, TypeOK
      <4>5. spent'[b][p] <= spent[b][p] + MaxCharge'
        BY <1>1, <4>1, <4>2, <4>3, <4>4
      <4>6. Exposed(t, b, p)
        BY <1>1, <3>2 DEF Exposed
      <4>7. QED
        BY <2>2, <4>5, <4>6
    <3>3. CASE p # Period(b, now)
      BY <1>1, <2>2, <3>1, <3>3, ChargeEffect DEF Inv
    <3>4. QED
      BY <3>2, <3>3
  <2>5. QED
    BY <1>1, <2>3, <2>4
<1>4. QED
  BY <1>2, <1>3

LEMMA RecordCovers ==
    ASSUME Inv, [Next]_vars, NEW t \in Tasks, NEW b \in Budgets, NEW p \in Periods,
           Record(t) \/ RecordFails(t)
    PROVE  \/ spent'[b][p] = spent[b][p] /\ (Exposed(t, b, p)' => Exposed(t, b, p))
           \/ /\ spent'[b][p] <= spent[b][p] + MaxCharge'
              /\ Exposed(t, b, p) /\ ~Exposed(t, b, p)'
<1>1. pc[t] = "record"
  BY DEF Record, RecordFails
<1>2. ~Exposed(t, b, p)'
  <2>1. pc'[t] = "idle"
    BY DEF Record, RecordFails, Goto, Inv, TypeOK
  <2>2. QED
    BY <2>1 DEF Exposed, Budgets
<1>3. stamp[t] \in Times /\ tokens[t] \in Nat /\ tokens[t] <= MaxTokens /\ MaxTokens \in Nat
  BY LimitsAssumption DEF Inv, TypeOK
<1>4. \/ UNCHANGED spent
      \/ \E n \in Nat : Charge(stamp[t], n) /\ n <= MaxCharge'
  <2>1. CASE Record(t)
    <3>1. tokens[t] <= MaxCharge'
      BY <1>3, MaxChargeFacts DEF Inv
    <3>2. QED
      BY <1>3, <2>1, <3>1 DEF Record
  <2>2. CASE RecordFails(t)
    <3>1. failures' > 0
      BY <2>2 DEF RecordFails, Fails, Inv, TypeOK
    <3>2. 2 * tokens[t] \in Nat /\ 2 * tokens[t] <= MaxCharge'
      BY <1>3, <3>1, MaxChargeFacts DEF Inv
    <3>3. QED
      BY <2>2, <3>2 DEF RecordFails
  <2>3. QED
    BY <2>1, <2>2
<1>5. CASE UNCHANGED spent
  BY <1>2, <1>5
<1>6. ASSUME NEW n \in Nat, Charge(stamp[t], n), n <= MaxCharge'
      PROVE  \/ spent'[b][p] = spent[b][p]
             \/ spent'[b][p] <= spent[b][p] + MaxCharge' /\ Exposed(t, b, p)
  <2>1. CASE p = Period(b, stamp[t])
    <3>1. spent'[b][p] = spent[b][p] + n /\ spent[b][p] \in Nat /\ MaxCharge' \in Nat
      BY <1>3, <1>6, <2>1, ChargeEffect, MaxChargeFacts DEF Inv, TypeOK
    <3>2. spent'[b][p] <= spent[b][p] + MaxCharge'
      BY <1>6, <3>1
    <3>3. Exposed(t, b, p)
      BY <1>1, <2>1 DEF Exposed
    <3>4. QED
      BY <3>2, <3>3
  <2>2. CASE p # Period(b, stamp[t])
    BY <1>3, <1>6, <2>2, ChargeEffect DEF Inv
  <2>3. QED
    BY <2>1, <2>2
<1>7. QED
  BY <1>2, <1>4, <1>5, <1>6

LEMMA CoverStep ==
    ASSUME Inv, CoverInv, [Next]_vars
    PROVE  CoverInv'
<1>1. CASE Tick
  BY <1>1, CoverTick
<1>2. CASE UNCHANGED vars
  BY <1>2 DEF vars, budgetVars, taskVars, CoverInv, Covered, Unexposed, Exposed, MaxCharge
<1>3. ASSUME NEW t \in Tasks, TaskNext(t), ~blind'
      PROVE  /\ ~blind
             /\ \A b \in Budgets, p \in Periods :
                   Budget[b] # NoLimit /\ Covered(b, p) => Covered(b, p)'
  <2>1. ~BudgetFailsOpen(t)
    BY <1>3 DEF BudgetFailsOpen
  <2>2. ~blind
    BY <1>3, <2>1 DEF TaskNext, Arrive, CheckRate, Incr, SetExpire, RateFailsOpen, CheckBudget,
       GetUsed, Serve, Record, RecordFails, Die, budgetVars
  <2>3. ASSUME NEW b \in Budgets, NEW p \in Periods, Budget[b] # NoLimit, Covered(b, p)
        PROVE  Covered(b, p)'
    <3>1. SUFFICES
            \/ spent'[b][p] <= Budget[b] - 1
            \/ spent'[b][p] = spent[b][p] /\ (Exposed(t, b, p)' => Exposed(t, b, p))
            \/ /\ spent'[b][p] <= spent[b][p] + MaxCharge'
               /\ Exposed(t, b, p) /\ ~Exposed(t, b, p)'
      BY <1>3, <2>3, CoveredTask DEF Inv
    <3>2. CASE Arrive(t) \/ CheckRate(t) \/ Incr(t) \/ SetExpire(t) \/ RateFailsOpen(t)
      BY <2>3, <3>2, ArrivalExposesNone DEF Inv
    <3>3. CASE CheckBudget(t)
      BY <2>3, <3>3, CheckCovers
    <3>4. ASSUME NEW c \in Budgets, GetUsed(t, c)
          PROVE  \/ spent'[b][p] <= Budget[b] - 1
                 \/ spent'[b][p] = spent[b][p] /\ (Exposed(t, b, p)' => Exposed(t, b, p))
      BY <2>3, <3>4, GetCovers
    <3>5. ASSUME NEW n \in 0 .. MaxTokens, Serve(t, n)
          PROVE  \/ spent'[b][p] = spent[b][p] /\ (Exposed(t, b, p)' => Exposed(t, b, p))
                 \/ /\ spent'[b][p] <= spent[b][p] + MaxCharge'
                    /\ Exposed(t, b, p) /\ ~Exposed(t, b, p)'
      BY <3>5, ServeCovers
    <3>6. CASE Record(t) \/ RecordFails(t)
      BY <3>6, RecordCovers
    <3>7. CASE Die(t)
      <4>1. spent' = spent
        BY <3>7 DEF Die, budgetVars
      <4>2. pc'[t] = "idle"
        BY <3>7 DEF Die, Goto, Inv, TypeOK
      <4>3. QED
        BY <4>1, <4>2 DEF Exposed, Budgets
    <3>8. QED
      BY <1>3, <2>1, <3>2, <3>3, <3>4, <3>5, <3>6, <3>7 DEF TaskNext
  <2>4. QED
    BY <2>2, <2>3
<1>4. QED
  BY <1>1, <1>2, <1>3 DEF Next, CoverInv

LEMMA CoverInit ==
    ASSUME Init
    PROVE  CoverInv
<1>1. ASSUME NEW b \in Budgets, NEW p \in Periods, Budget[b] # NoLimit
      PROVE  Covered(b, p)
  <2>1. spent[b][p] = 0
    BY DEF Init
  <2>2. Budget[b] \in Nat \ {0}
    BY <1>1, LimitsAssumption
  <2>3. MaxCharge \in Nat
    BY LimitsAssumption DEF MaxCharge
  <2>4. Cardinality(Unexposed(b, p)) * MaxCharge \in Nat
    BY <2>3, UnexposedFinite, ProductType
  <2>5. QED
    BY <2>1, <2>2, <2>4 DEF Covered
<1>2. QED
  BY <1>1 DEF CoverInv

\* However many requests are served at once, and on either side of midnight, a
\* budget is overrun by no more than what that many requests may cost
\* (BudgetTracker.check before, BudgetTracker.record after).
THEOREM Overshoot == Spec => []OvershootBounded
<1>1. Inv /\ CoverInv /\ [Next]_vars => CoverInv'
  BY CoverStep
<1>2. TypeOK /\ CoverInv => OvershootBounded
  <2>1. ASSUME TypeOK, CoverInv, ~blind, NEW b \in Budgets, NEW p \in Periods,
               Budget[b] # NoLimit
        PROVE  spent[b][p] <= Budget[b] - 1 + Cardinality(Tasks) * MaxCharge
    <3> DEFINE k == Cardinality(Unexposed(b, p))
               k2 == Cardinality(Tasks)
               m == MaxCharge
    <3>1. k \in Nat /\ k2 \in Nat /\ k <= k2 /\ m \in Nat /\ m <= m
      BY <2>1, UnexposedFinite, FS_CardinalityType, LimitsAssumption DEF MaxCharge, TypeOK
    <3>2. spent[b][p] <= Budget[b] - 1 + k * m
      BY <2>1 DEF CoverInv, Covered
    <3>3. spent[b][p] \in Nat /\ Budget[b] \in Nat
      BY <2>1, LimitsAssumption DEF TypeOK
    <3> HIDE DEF k, k2, m
    <3>4. k * m <= k2 * m /\ k * m \in Nat /\ k2 * m \in Nat
      BY <3>1, ProductGrows, ProductType
    <3>5. spent[b][p] <= Budget[b] - 1 + k2 * m
      BY <3>2, <3>3, <3>4
    <3>6. QED
      BY <3>5 DEF k2, m
  <2>2. QED
    BY <2>1 DEF OvershootBounded
<1>3. QED
  BY <1>1, <1>2, CoverInit, Invariance, PTL DEF Spec, Inv

-----------------------------------------------------------------------------
(* Bursts *)

\* A request is counted, and may be let in if it is within the limit.
Counted(n) ==
    /\ rate'.count = Count(rate) + n
    /\ Count(rate) # 0 => rate'.expires = rate.expires
    /\ Count(rate) = 0 => rate'.expires \in {Never, now + Window}
    /\ \/ admitted' = admitted
       \/ admitted' = Append(admitted, now) /\ Count(rate) + n <= Limit

LEMMA IncrementCounts ==
    ASSUME TypeOK, NEW n \in Nat \ {0}, Increment(n)
    PROVE  /\ rate'.count = Count(rate) + n
           /\ Count(rate) # 0 => rate'.expires = rate.expires
           /\ Count(rate) = 0 => rate'.expires \in {Never, now + Window}
BY DEF Increment

\* What a step does to the counter of the rate limiter.
LEMMA RateSteps ==
    ASSUME TypeOK, NEW t \in Tasks, TaskNext(t)
    PROVE  \/ UNCHANGED <<rate, admitted>>
           \/ \E n \in 1 .. 2 : Counted(n)
           \/ rate' = [rate EXCEPT !.expires = now + Window] /\ UNCHANGED admitted
<1>1. CASE CheckRate(t)
  <2>1. Counted(1)
    BY <1>1 DEF CheckRate, Decide, Counted
  <2>2. QED
    BY <2>1
<1>2. CASE Incr(t)
  <2>1. PICK n \in 1 .. 2 :
            /\ Increment(n)
            /\ IF Count(rate) + n = 1
               THEN admitted' = Append(admitted, now)
               ELSE Decide(t, Count(rate) + n)
    BY <1>2 DEF Incr
  <2>2. \/ admitted' = admitted
        \/ admitted' = Append(admitted, now) /\ Count(rate) + n <= Limit
    BY <2>1, LimitsAssumption DEF Decide
  <2>3. Counted(n)
    BY <2>1, <2>2, IncrementCounts DEF Counted
  <2>4. QED
    BY <2>3
<1>3. CASE RateFailsOpen(t)
  <2>1. UNCHANGED admitted
    BY <1>3 DEF RateFailsOpen
  <2>2. ASSUME NEW n \in 0 .. 2, Increment(n)
        PROVE  UNCHANGED rate \/ \E m \in 1 .. 2 : Counted(m)
    <3>1. CASE n = 0
      BY <2>2, <3>1 DEF Increment
    <3>2. CASE n # 0
      <4>1. Counted(n)
        BY <2>1, <2>2, <3>2, IncrementCounts DEF Counted
      <4>2. QED
        BY <3>2, <4>1
    <3>3. QED
      BY <3>1, <3>2
  <2>3. QED
    BY <1>3, <2>1, <2>2 DEF RateFailsOpen
<1>4. CASE SetExpire(t)
  BY <1>4 DEF SetExpire
<1>5. QED
  BY <1>1, <1>2, <1>3, <1>4
  DEF TaskNext, Arrive, CheckBudget, GetUsed, BudgetFailsOpen, Serve, Record, RecordFails, Die,
      rateVars

\* Letting in one request more than a window's count keeps bursts bounded.
LEMMA BurstAppend ==
    ASSUME TypeOK, \A i \in DOMAIN admitted : admitted[i] <= now, BurstBounded,
           NEW k \in Nat, NEW start \in Times, start <= now, k <= Len(admitted),
           \A i \in 1 .. k - Limit : admitted[i] + Window <= start,
           Len(admitted) - k < Limit,
           admitted' = Append(admitted, now), now' = now
    PROVE  BurstBounded' /\ \A i \in DOMAIN admitted' : admitted'[i] <= now'
<1> DEFINE l == Len(admitted)
<1>1. /\ l \in Nat /\ Limit \in Nat /\ Window \in Nat /\ now \in Nat /\ start \in Nat
      /\ DOMAIN admitted = 1 .. l /\ \A i \in 1 .. l : admitted[i] \in Nat
  BY LimitsAssumption DEF TypeOK, Times
<1>2. /\ DOMAIN admitted' = 1 .. l + 1
      /\ admitted'[l + 1] = now
      /\ \A i \in 1 .. l : admitted'[i] = admitted[i]
  BY AppendProperties DEF TypeOK
<1>3. \A i \in DOMAIN admitted' : admitted'[i] <= now'
  BY <1>1, <1>2
<1>4. ASSUME NEW i \in 1 .. l + 1, NEW j \in 1 .. l + 1, j - i >= 2 * Limit
      PROVE  admitted'[j] >= admitted'[i] + Window
  <2>1. CASE j <= l
    <3>1. i \in 1 .. l /\ j \in 1 .. l
      BY <1>1, <1>4, <2>1
    <3>2. admitted[j] >= admitted[i] + Window
      BY <1>1, <1>4, <3>1 DEF BurstBounded
    <3>3. QED
      BY <1>2, <3>1, <3>2
  <2>2. CASE j = l + 1
    <3>1. i \in 1 .. k - Limit /\ i \in 1 .. l
      BY <1>1, <1>4, <2>2, LimitsAssumption
    <3>2. QED
      BY <1>1, <1>2, <2>2, <3>1
  <2>3. QED
    BY <1>1, <2>1, <2>2
<1>5. QED
  BY <1>2, <1>3, <1>4 DEF BurstBounded

\* When the counter is gone, a new window may begin.
LEMMA NewWindow ==
    ASSUME TypeOK, \A i \in DOMAIN admitted : admitted[i] <= now, Count(rate) = 0,
           NEW k \in Nat, NEW start \in Times, WindowSince(k, start)
    PROVE  /\ \A i \in 1 .. Len(admitted) : admitted[i] <= now
           /\ \A i \in 1 .. Len(admitted) - Limit : admitted[i] + Window <= now
<1>1. /\ Len(admitted) \in Nat /\ Limit \in Nat /\ Window \in Nat /\ now \in Nat /\ start \in Nat
      /\ DOMAIN admitted = 1 .. Len(admitted)
      /\ \A i \in 1 .. Len(admitted) : admitted[i] \in Nat
      /\ rate.count \in Nat /\ rate.expires \in Nat \cup {Never}
  BY LimitsAssumption DEF TypeOK, Times, Counter
<1>2. ASSUME NEW i \in 1 .. Len(admitted) - Limit
      PROVE  admitted[i] + Window <= now
  <2>1. CASE rate.count = 0
    BY <1>1, <2>1 DEF WindowSince
  <2>2. CASE rate.count # 0
    <3>1. rate.expires \in Nat /\ rate.expires <= now /\ start + Window <= rate.expires
      BY <1>1, <2>2 DEF Count, WindowSince
    <3>2. admitted[i] <= start
      BY <1>1 DEF WindowSince
    <3>3. QED
      BY <1>1, <3>1, <3>2
  <2>3. QED
    BY <2>1, <2>2
<1>3. QED
  BY <1>1, <1>2

LEMMA BurstCounted ==
    ASSUME TypeOK, TypeOK', BurstInv, NEW n \in 1 .. 2, Counted(n), now' = now
    PROVE  BurstInv'
<1>1. PICK k \in Nat, start \in Times : WindowSince(k, start)
  BY DEF BurstInv
<1> DEFINE l == Len(admitted)
<1>2. /\ l \in Nat /\ Limit \in Nat \ {0} /\ Window \in Nat /\ now \in Nat /\ start \in Nat
      /\ DOMAIN admitted = 1 .. l
      /\ rate.count \in Nat /\ Count(rate) \in {0, rate.count} /\ now \in Times
  BY LimitsAssumption, CountType DEF TypeOK, Times, Counter
<1>3. /\ Len(admitted') \in {l, l + 1}
      /\ \A i \in 1 .. l : admitted'[i] = admitted[i]
      /\ Len(admitted') = l + 1 => admitted' = Append(admitted, now) /\ Count(rate) + n <= Limit
      /\ Len(admitted') = l => admitted' = admitted
  BY AppendProperties DEF TypeOK, Counted
<1>4. CASE Count(rate) = 0
  <2>1. /\ \A i \in 1 .. l : admitted[i] <= now
        /\ \A i \in 1 .. l - Limit : admitted[i] + Window <= now
    BY <1>1, <1>4, NewWindow DEF BurstInv
  <2>2. BurstBounded' /\ \A i \in DOMAIN admitted' : admitted'[i] <= now'
    <3>1. CASE admitted' = admitted
      BY <3>1 DEF BurstInv, BurstBounded
    <3>2. CASE admitted' = Append(admitted, now)
      <4>1. /\ \A i \in DOMAIN admitted : admitted[i] <= now
            /\ BurstBounded
        BY DEF BurstInv
      <4>2. now \in Times /\ now <= now /\ l <= l /\ l - l < Limit
        BY <1>2
      <4>3. l \in Nat /\ l <= Len(admitted) /\ Len(admitted) - l < Limit
            /\ \A i \in 1 .. l - Limit : admitted[i] + Window <= now
        BY <2>1, <4>2
      <4>4. now' = now
        BY DEF Counted
      <4> HIDE DEF l
      <4>5. QED
        BY <3>2, <4>1, <4>2, <4>3, <4>4, BurstAppend
    <3>3. QED
      BY <3>1, <3>2 DEF Counted
  <2>3. rate'.expires = Never \/ now + Window <= rate'.expires
    BY <1>2, <1>4 DEF Counted
  <2>4. rate'.count \in Nat /\ rate'.count >= 1
    BY <1>2, <1>4 DEF Counted
  <2>5. PICK m \in Nat : m = l
    BY <1>2
  <2>6. Len(admitted') - m <= Limit /\ Len(admitted') - m <= rate'.count /\ m <= Len(admitted')
    BY <1>2, <1>3, <2>4, <2>5
  <2>7. /\ \A i \in 1 .. m : admitted'[i] <= now
        /\ \A i \in 1 .. m - Limit : admitted'[i] + Window <= now
    BY <1>2, <1>3, <2>1, <2>5
  <2>8. PICK s \in Times : s = now /\ now' = s
    BY <1>2
  <2>9. WindowSince(m, s)'
    BY <1>2, <2>3, <2>6, <2>7, <2>8 DEF WindowSince
  <2>10. QED
    BY <2>2, <2>5, <2>9 DEF BurstInv
<1>5. CASE Count(rate) # 0
  <2>1. rate'.count = rate.count + n /\ rate'.expires = rate.expires /\ rate.count # 0
    BY <1>2, <1>5 DEF Counted
  <2>2. BurstBounded' /\ \A i \in DOMAIN admitted' : admitted'[i] <= now'
    <3>1. CASE admitted' = admitted
      BY <3>1 DEF BurstInv, BurstBounded
    <3>2. CASE admitted' = Append(admitted, now) /\ Count(rate) + n <= Limit
      <4>1. l - k < Limit
        BY <1>1, <1>2, <1>5, <3>2 DEF WindowSince
      <4>2. QED
        BY <1>1, <3>2, <4>1, BurstAppend DEF BurstInv, WindowSince
    <3>3. QED
      BY <3>1, <3>2 DEF Counted
  <2>3. Len(admitted') - k <= Limit /\ Len(admitted') - k <= rate'.count
    <3>1. l - k <= Limit /\ l - k <= rate.count
      BY <1>1 DEF WindowSince
    <3>2. Len(admitted') = l + 1 => rate.count + n <= Limit
      <4>1. Count(rate) = rate.count
        BY <1>2, <1>5
      <4>2. QED
        BY <1>3, <4>1
    <3> DEFINE length == Len(admitted')
               count == rate.count
               count2 == rate'.count
    <3>3. /\ l \in Nat /\ count \in Nat /\ count2 = count + n /\ length \in {l, l + 1}
          /\ k \in Nat /\ Limit \in Nat
      BY <1>2, <1>3, <2>1
    <3> HIDE DEF l, length, count, count2
    <3>4. length - k <= Limit /\ length - k <= count2
      <4>1. l - k <= Limit /\ l - k <= count /\ (length = l + 1 => count + n <= Limit)
        BY <3>1, <3>2 DEF length, count
      <4>2. QED
        BY <3>3, <4>1
    <3>5. QED
      BY <3>4 DEF length, count2
  <2>4. WindowSince(k, start)'
    <3>1. /\ \A i \in 1 .. k : admitted'[i] <= start
          /\ \A i \in 1 .. k - Limit : admitted'[i] + Window <= start
      BY <1>1, <1>2, <1>3 DEF WindowSince
    <3>2. k <= Len(admitted') /\ start <= now'
      BY <1>1, <1>2, <1>3 DEF WindowSince
    <3>3. QED
      BY <1>1, <2>1, <2>3, <3>1, <3>2 DEF WindowSince
  <2>5. QED
    BY <2>2, <2>4 DEF BurstInv
<1>6. QED
  BY <1>4, <1>5

LEMMA BurstStep ==
    ASSUME TypeOK, TypeOK', BurstInv, [Next]_vars
    PROVE  BurstInv'
<1>1. PICK k \in Nat, start \in Times : WindowSince(k, start)
  BY DEF BurstInv
<1>2. /\ now \in Nat /\ start \in Nat /\ Window \in Nat
      /\ \A i \in DOMAIN admitted : admitted[i] \in Nat
      /\ rate.count \in Nat /\ rate.expires \in Nat \cup {Never}
  BY LimitsAssumption DEF TypeOK, Times, Counter
<1>3. CASE UNCHANGED <<rate, admitted>> /\ now' \in Nat /\ now <= now'
  <2>1. WindowSince(k, start)'
    BY <1>1, <1>2, <1>3 DEF WindowSince
  <2>2. \A i \in DOMAIN admitted' : admitted'[i] <= now'
    BY <1>2, <1>3 DEF BurstInv
  <2>3. QED
    BY <1>3, <2>1, <2>2 DEF BurstInv, BurstBounded
<1>4. CASE Tick \/ UNCHANGED vars
  BY <1>2, <1>3, <1>4 DEF Tick, vars, rateVars
<1>5. ASSUME NEW t \in Tasks, TaskNext(t)
      PROVE  BurstInv'
  <2>1. now' = now
    BY <1>5, TaskStep
  <2>2. CASE UNCHANGED <<rate, admitted>>
    BY <1>2, <1>3, <2>1, <2>2
  <2>3. CASE \E n \in 1 .. 2 : Counted(n)
    BY <2>1, <2>3, BurstCounted
  <2>4. CASE rate' = [rate EXCEPT !.expires = now + Window] /\ UNCHANGED admitted
    <3>1. rate'.count = rate.count /\ rate'.expires = now + Window
      BY <2>4 DEF TypeOK, Counter
    <3>2. WindowSince(k, start)'
      BY <1>1, <1>2, <2>1, <2>4, <3>1 DEF WindowSince
    <3>3. QED
      BY <2>1, <2>4, <3>2 DEF BurstInv, BurstBounded
  <2>5. QED
    BY <1>5, <2>2, <2>3, <2>4, RateSteps
<1>6. QED
  BY <1>4, <1>5 DEF Next

\* Whatever replicas let requests in and whatever commands fail or are run
\* twice, no stretch as long as the window sees more than twice the limit let in
\* by the rate limiter (RateLimiter.check, RedisRateLimiter.check).
THEOREM Bursts == Spec => []BurstBounded
<1>1. Init => BurstInv
  <2> SUFFICES ASSUME Init PROVE BurstInv
    OBVIOUS
  <2>1. /\ admitted = <<>> /\ now = 0 /\ rate.count = 0 /\ Limit \in Nat /\ 0 \in Times
    BY LimitsAssumption DEF Init, Absent, Times
  <2>2. WindowSince(0, 0)
    BY <2>1 DEF WindowSince
  <2>3. QED
    BY <2>1, <2>2 DEF BurstInv, BurstBounded
<1>2. TypeOK /\ TypeOK' /\ BurstInv /\ [Next]_vars => BurstInv'
  BY BurstStep
<1>3. BurstInv => BurstBounded
  BY DEF BurstInv
<1>4. QED
  BY <1>1, <1>2, <1>3, TypeCorrect, PTL DEF Spec

=============================================================================
