-------------------------- MODULE BlockAlerts_proofs --------------------------
(***************************************************************************)
(* Proofs about BlockAlerts, for any number of handlers and of blocks, and *)
(* for any threshold, window and cooldown.                                 *)
(*                                                                         *)
(* None of the properties is inductive.  What has been claimed is never    *)
(* later than the end of the cooldown less its length, so a new claim is   *)
(* apart from all of them.  Conversely, until something fails, a cooldown  *)
(* that is running was begun by an alert, sent or about to be: this is why *)
(* a handler that finds it running may return.  And the counter stands for *)
(* the last blocks, which were all in the window, or in a row.             *)
(***************************************************************************)
EXTENDS BlockAlerts, SequenceTheorems, TLAPS

PastInv == \A j \in DOMAIN blocked : blocked[j] <= now

\* In memory, no handler stops on its way.
MemoryInv == ~useRedis => \A t \in Tasks : pc[t] = "idle"

\* What has been claimed, by alerts and by handlers about to send one, was
\* claimed a cooldown before the present one ends, or earlier.
ClaimInv ==
    /\ \A i \in DOMAIN alerts : alerts[i].claimed + Cooldown <= cooldown
    /\ \A t \in Tasks : pc[t] = "send" => counts[t].claimed + Cooldown <= cooldown

Claimed(s) ==
    \/ \E i \in DOMAIN alerts : alerts[i].claimed = s
    \/ \E t \in Tasks : pc[t] = "send" /\ counts[t].claimed = s

\* A cooldown that is running was claimed.
SourceInv ==
    failures = 0 /\ now < cooldown => \E s \in Times : Claimed(s) /\ cooldown = s + Cooldown

\* A burst is being looked into, or was claimed and the cooldown goes on.
DueInv ==
    failures = 0 /\ Count >= Threshold =>
        \/ \E t \in Tasks : pc[t] \in {"read", "claim"}
        \/ \E s \in Times : Claimed(s) /\ \A j \in DOMAIN blocked : blocked[j] < s + Cooldown

\* The counter stands for the last blocks, which were in its window, or in a row.
CountInv ==
    failures = 0 /\ burst.count > 0 =>
        LET last == Len(blocked)
            first == last - burst.count + 1
        IN  /\ first >= 1
            /\ IF useRedis
               THEN /\ burst.expires = blocked[last] + Window
                    /\ \A j \in first .. last - 1 : blocked[j + 1] < blocked[j] + Window
               ELSE \A j \in first .. last : burst.expires <= blocked[j] + Window

\* What a handler has read and goes on with was a burst.
ReadingInv ==
    failures = 0 => \A t \in Tasks : pc[t] \in {"claim", "send"} =>
        counts[t].total >= Threshold /\ Burst(useRedis, blocked, counts[t].total, counts[t].at)

-----------------------------------------------------------------------------
(* Types *)

LEMMA ConstantFacts ==
    /\ Threshold \in Nat \ {0} /\ Window \in Nat \ {0} /\ Cooldown \in Nat \ {0}
    /\ MaxTime \in Nat /\ 0 \in Times
BY AlertsAssumption DEF Times

LEMMA NumberFacts ==
    ASSUME TypeOK
    PROVE  /\ now \in Nat /\ now \in Times /\ cooldown \in Nat
           /\ burst.count \in Nat /\ burst.expires \in Nat /\ Count \in Nat
           /\ \A j \in DOMAIN blocked : blocked[j] \in Nat
           /\ \A i \in DOMAIN alerts : alerts[i].claimed \in Nat
           /\ \A t \in Tasks : counts[t].claimed \in Nat
<1>1. Times \subseteq Nat
  BY ConstantFacts DEF Times
<1>2. /\ now \in Times /\ cooldown \in Nat
      /\ burst.count \in Nat /\ burst.expires \in Nat
  BY DEF TypeOK
<1>3. Count \in Nat
  BY <1>2 DEF Count
<1>4. ASSUME NEW j \in DOMAIN blocked
      PROVE  blocked[j] \in Times
  BY DEF TypeOK
<1>5. ASSUME NEW i \in DOMAIN alerts
      PROVE  alerts[i].claimed \in Times
  <2>1. alerts[i] \in Alert
    BY DEF TypeOK
  <2>2. QED
    BY <2>1 DEF Alert
<1>6. ASSUME NEW t \in Tasks
      PROVE  counts[t].claimed \in Times
  BY DEF TypeOK, Reading
<1>7. QED
  BY <1>1, <1>2, <1>3, <1>4, <1>5, <1>6

LEMMA BlockedNext ==
    ASSUME TypeOK, NoteBlock
    PROVE  /\ blocked' \in Seq(Times)
           /\ Len(blocked) \in Nat /\ Len(blocked') = Len(blocked) + 1
           /\ DOMAIN blocked = 1 .. Len(blocked) /\ DOMAIN blocked' = 1 .. Len(blocked) + 1
           /\ \A j \in 1 .. Len(blocked) : blocked'[j] = blocked[j]
           /\ blocked'[Len(blocked) + 1] = now
BY AppendProperties DEF TypeOK, NoteBlock

LEMMA AlertSent ==
    ASSUME TypeOK, NEW count \in Reading, SendAlert(count)
    PROVE  /\ alerts' \in Seq(Alert)
           /\ Len(alerts) \in Nat /\ DOMAIN alerts = 1 .. Len(alerts)
           /\ DOMAIN alerts' = 1 .. Len(alerts) + 1
           /\ \A i \in 1 .. Len(alerts) : alerts'[i] = alerts[i]
           /\ alerts'[Len(alerts) + 1].total = count.total
           /\ alerts'[Len(alerts) + 1].at = count.at
           /\ alerts'[Len(alerts) + 1].claimed = count.claimed
<1> DEFINE new == [total |-> count.total, at |-> count.at,
                   claimed |-> count.claimed, post |-> "under way"]
<1>1. new \in Alert
  BY DEF Reading, Alert
<1>2. new.total = count.total /\ new.at = count.at /\ new.claimed = count.claimed
  OBVIOUS
<1>3. alerts' = Append(alerts, new)
  BY DEF SendAlert
<1> HIDE DEF new
<1>4. QED
  BY <1>1, <1>2, <1>3, AppendProperties DEF TypeOK

LEMMA AlertPosted ==
    ASSUME TypeOK, NEW i \in DOMAIN alerts, Post(i)
    PROVE  /\ alerts' \in Seq(Alert)
           /\ DOMAIN alerts' = DOMAIN alerts
           /\ \A j \in DOMAIN alerts : /\ alerts'[j].total = alerts[j].total
                                       /\ alerts'[j].at = alerts[j].at
                                       /\ alerts'[j].claimed = alerts[j].claimed
<1>1. PICK outcome \in {"delivered", "failed"} : alerts' = [alerts EXCEPT ![i].post = outcome]
  BY DEF Post
<1>2. alerts \in Seq(Alert) /\ alerts[i] \in Alert
  BY DEF TypeOK
<1> DEFINE new == [alerts[i] EXCEPT !.post = outcome]
<1>3. new \in Alert /\ new.total = alerts[i].total /\ new.at = alerts[i].at
      /\ new.claimed = alerts[i].claimed
  BY <1>2 DEF Alert
<1>4. alerts' = [alerts EXCEPT ![i] = new]
  BY <1>1
<1> HIDE DEF new
<1>5. alerts' \in Seq(Alert) /\ DOMAIN alerts' = DOMAIN alerts
  BY <1>2, <1>3, <1>4, ExceptSeq
<1>6. \A j \in DOMAIN alerts : alerts'[j] = IF j = i THEN new ELSE alerts[j]
  BY <1>4
<1>7. QED
  BY <1>3, <1>5, <1>6

LEMMA HandlerStep ==
    ASSUME TypeOK, NEW t \in Tasks, NEW step \in {"idle", "read", "claim", "send"}, Goto(t, step),
           NEW reading \in Reading, counts' = [counts EXCEPT ![t] = reading]
    PROVE  /\ \A u \in Tasks : u # t => pc'[u] = pc[u] /\ counts'[u] = counts[u]
           /\ pc'[t] = step /\ counts'[t] = reading
           /\ pc' \in [Tasks -> {"idle", "read", "claim", "send"}]
           /\ counts' \in [Tasks -> Reading]
BY DEF TypeOK, Goto

LEMMA HandlerReturns ==
    ASSUME TypeOK, NEW t \in Tasks, Return(t)
    PROVE  /\ \A u \in Tasks : u # t => pc'[u] = pc[u] /\ counts'[u] = counts[u]
           /\ pc'[t] = "idle"
           /\ pc' \in [Tasks -> {"idle", "read", "claim", "send"}]
           /\ counts' \in [Tasks -> Reading]
<1>1. NoReading \in Reading
  BY ConstantFacts DEF NoReading, Reading
<1>2. Goto(t, "idle") /\ counts' = [counts EXCEPT ![t] = NoReading]
  BY DEF Return
<1>3. QED
  BY <1>1, <1>2, HandlerStep

\* A handler's step leaves the others alone.
LEMMA TaskStep ==
    ASSUME TypeOK, NEW t \in Tasks, TaskNext(t)
    PROVE  /\ UNCHANGED <<now, useRedis>>
           /\ \A u \in Tasks : u # t => pc'[u] = pc[u] /\ counts'[u] = counts[u]
           /\ failures' \in Nat /\ failures <= failures'
           /\ pc' \in [Tasks -> {"idle", "read", "claim", "send"}]
           /\ counts' \in [Tasks -> Reading]
<1>1. 0 \in Times
  BY ConstantFacts
<1>2. CASE BlockInMemory(t)
  BY <1>2 DEF BlockInMemory, taskVars, TypeOK
<1>3. CASE Block(t)
  BY <1>3 DEF Block, Goto, Fails, TypeOK
<1>4. CASE ReadCounts(t)
  <2> DEFINE reading == [total |-> Count, at |-> now, claimed |-> 0]
  <2>1. reading \in Reading
    BY <1>1 DEF Count, Reading, TypeOK
  <2>2. /\ UNCHANGED <<now, useRedis, failures>>
        /\ \/ Return(t)
           \/ Goto(t, "claim") /\ counts' = [counts EXCEPT ![t] = reading]
    BY <1>4 DEF ReadCounts
  <2> HIDE DEF reading
  <2>3. CASE Return(t)
    BY <2>2, <2>3, HandlerReturns DEF TypeOK
  <2>4. CASE Goto(t, "claim") /\ counts' = [counts EXCEPT ![t] = reading]
    <3>1. /\ \A u \in Tasks : u # t => pc'[u] = pc[u] /\ counts'[u] = counts[u]
          /\ pc' \in [Tasks -> {"idle", "read", "claim", "send"}]
          /\ counts' \in [Tasks -> Reading]
      BY <2>1, <2>4, HandlerStep
    <3>2. QED
      BY <2>2, <3>1 DEF TypeOK
  <2>5. QED
    BY <2>2, <2>3, <2>4
<1>5. CASE Claim(t)
  <2> DEFINE reading == [counts[t] EXCEPT !.claimed = now]
  <2>1. reading \in Reading
    BY DEF Reading, TypeOK
  <2>2. /\ UNCHANGED <<now, useRedis, failures>>
        /\ \/ Return(t)
           \/ Goto(t, "send") /\ counts' = [counts EXCEPT ![t] = reading]
    BY <1>5 DEF Claim
  <2> HIDE DEF reading
  <2>3. CASE Return(t)
    BY <2>2, <2>3, HandlerReturns DEF TypeOK
  <2>4. CASE Goto(t, "send") /\ counts' = [counts EXCEPT ![t] = reading]
    <3>1. /\ \A u \in Tasks : u # t => pc'[u] = pc[u] /\ counts'[u] = counts[u]
          /\ pc' \in [Tasks -> {"idle", "read", "claim", "send"}]
          /\ counts' \in [Tasks -> Reading]
      BY <2>1, <2>4, HandlerStep
    <3>2. QED
      BY <2>2, <3>1 DEF TypeOK
  <2>5. QED
    BY <2>2, <2>3, <2>4
<1>6. CASE ClaimTwice(t) \/ Die(t)
  BY <1>6, HandlerReturns DEF ClaimTwice, Die, Fails, TypeOK
<1>7. CASE Send(t)
  BY <1>7, HandlerReturns DEF Send, TypeOK
<1>8. CASE TrackerFails(t)
  <2>1. UNCHANGED taskVars \/ Return(t)
    BY <1>8 DEF TrackerFails
  <2>2. UNCHANGED <<now, useRedis>> /\ Fails
    BY <1>8 DEF TrackerFails
  <2>3. QED
    BY <2>1, <2>2, HandlerReturns DEF taskVars, Fails, TypeOK
<1>9. QED
  BY <1>2, <1>3, <1>4, <1>5, <1>6, <1>7, <1>8 DEF TaskNext

\* What a handler's step does to the blocks and their counter.
LEMMA BlockedSteps ==
    ASSUME TypeOK, NEW t \in Tasks, TaskNext(t)
    PROVE  \/ UNCHANGED <<burst, blocked>>
           \/ BlockInMemory(t) /\ NoteBlock
           \/ Block(t) /\ NoteBlock
           \/ Fails /\ CountBlock(0)
           \/ Fails /\ NoteBlock /\ \E n \in 1 .. 2 : CountBlock(n)
<1>1. CASE BlockInMemory(t)
  BY <1>1 DEF BlockInMemory
<1>2. CASE Block(t)
  BY <1>2 DEF Block, CountBlock
<1>3. CASE TrackerFails(t)
  <2>1. Fails
    BY <1>3 DEF TrackerFails
  <2>2. UNCHANGED <<burst, blocked>> \/ \E n \in 0 .. 2 : CountBlock(n)
    BY <1>3 DEF TrackerFails
  <2>3. ASSUME NEW n \in 0 .. 2, CountBlock(n), n # 0
        PROVE  n \in 1 .. 2 /\ NoteBlock
    BY <2>3 DEF CountBlock
  <2>4. QED
    BY <2>1, <2>2, <2>3
<1>4. QED
  BY <1>1, <1>2, <1>3 DEF TaskNext, ReadCounts, Claim, ClaimTwice, Send, Die

\* What a handler's step does to the cooldown and the alerts.
LEMMA AlertSteps ==
    ASSUME TypeOK, NEW t \in Tasks, TaskNext(t)
    PROVE  \/ UNCHANGED <<alerts, cooldown>> /\ pc'[t] # "send"
           \/ Claim(t) /\ ~Cooling
           \/ Send(t)
           \/ BlockInMemory(t) /\ ~Cooling
           \/ Fails /\ pc'[t] # "send" /\ UNCHANGED alerts
              /\ cooldown' = IF Cooling THEN cooldown ELSE now + Cooldown
<1> USE DEF TypeOK
<1>1. CASE BlockInMemory(t)
  BY <1>1 DEF BlockInMemory, taskVars
<1>2. CASE Block(t)
  BY <1>2 DEF Block, Goto
<1>3. CASE ReadCounts(t)
  BY <1>3 DEF ReadCounts, Return, Goto
<1>4. CASE Claim(t)
  BY <1>4 DEF Claim, Return, Goto
<1>5. CASE ClaimTwice(t)
  BY <1>5 DEF ClaimTwice, Return, Goto
<1>6. CASE Die(t)
  BY <1>6 DEF Die, Return, Goto
<1>7. CASE Send(t)
  BY <1>7
<1>8. CASE TrackerFails(t)
  <2>1. Fails /\ UNCHANGED alerts
    BY <1>8 DEF TrackerFails
  <2>2. pc'[t] # "send"
    BY <1>8 DEF TrackerFails, Return, Goto, taskVars
  <2>3. \/ cooldown' = cooldown
        \/ cooldown' = IF Cooling THEN cooldown ELSE now + Cooldown
    BY <1>8 DEF TrackerFails
  <2>4. QED
    BY <2>1, <2>2, <2>3
<1>9. QED
  BY <1>1, <1>2, <1>3, <1>4, <1>5, <1>6, <1>7, <1>8 DEF TaskNext

LEMMA TypeStep ==
    ASSUME TypeOK, [Next]_vars
    PROVE  TypeOK'
<1>1. CASE UNCHANGED vars
  BY <1>1 DEF vars, taskVars, TypeOK
<1>2. CASE Tick
  <2>1. now' \in Times
    BY <1>2, ConstantFacts DEF Tick, TypeOK, Times
  <2>2. UNCHANGED <<useRedis, burst, cooldown, taskVars, alerts, blocked, failures>>
    BY <1>2 DEF Tick
  <2>3. QED
    BY <2>1, <2>2 DEF taskVars, TypeOK
<1>3. ASSUME NEW i \in DOMAIN alerts, Post(i)
      PROVE  TypeOK'
  <2>1. alerts' \in Seq(Alert)
    BY <1>3, AlertPosted
  <2>2. UNCHANGED <<useRedis, now, burst, cooldown, taskVars, blocked, failures>>
    BY <1>3 DEF Post
  <2>3. QED
    BY <2>1, <2>2 DEF TypeOK, taskVars
<1>4. ASSUME NEW t \in Tasks, TaskNext(t)
      PROVE  TypeOK'
  <2>1. burst' \in [count : Nat, expires : Nat]
    <3>1. Count \in Nat /\ now + Window \in Nat /\ burst.expires \in Nat
      BY ConstantFacts DEF TypeOK, Count, Times
    <3>2. ASSUME NEW n \in 0 .. 2, CountBlock(n)
          PROVE  burst' \in [count : Nat, expires : Nat]
      BY <3>1, <3>2 DEF CountBlock, TypeOK
    <3>3. CASE BlockInMemory(t)
      BY <3>1, <3>3 DEF BlockInMemory
    <3>4. CASE Block(t)
      BY <3>2, <3>4 DEF Block
    <3>5. QED
      BY <1>4, <3>2, <3>3, <3>4, BlockedSteps DEF TypeOK
  <2>2. blocked' \in Seq(Times)
    <3>1. CASE NoteBlock
      BY <3>1, BlockedNext
    <3>2. CASE UNCHANGED blocked
      BY <3>2 DEF TypeOK
    <3>3. QED
      BY <1>4, <3>1, <3>2, BlockedSteps DEF CountBlock
  <2>3. cooldown' \in Nat
    <3>1. now + Cooldown \in Nat
      BY ConstantFacts DEF TypeOK, Times
    <3>2. QED
      BY <1>4, <3>1, AlertSteps DEF TypeOK, Claim, Send, BlockInMemory
  <2>4. alerts' \in Seq(Alert)
    <3>1. ASSUME NEW count \in Reading, SendAlert(count)
          PROVE  alerts' \in Seq(Alert)
      BY <3>1, AlertSent
    <3>2. CASE BlockInMemory(t)
      <4>1. [total |-> Count + 1, at |-> now, claimed |-> now] \in Reading
        BY DEF TypeOK, Count, Reading
      <4>2. QED
        BY <3>1, <3>2, <4>1 DEF BlockInMemory, TypeOK
    <3>3. CASE Send(t)
      BY <3>1, <3>3 DEF Send, TypeOK
    <3>4. CASE UNCHANGED alerts
      BY <3>4 DEF TypeOK
    <3>5. QED
      BY <1>4, <3>2, <3>3, <3>4, AlertSteps DEF Claim
  <2>5. useRedis' = useRedis /\ now' = now
    BY <1>4, TaskStep
  <2>6. failures' \in Nat /\ pc' \in [Tasks -> {"idle", "read", "claim", "send"}]
        /\ counts' \in [Tasks -> Reading]
    BY <1>4, TaskStep
  <2>7. QED
    BY <2>1, <2>2, <2>3, <2>4, <2>5, <2>6 DEF TypeOK
<1>5. QED
  BY <1>1, <1>2, <1>3, <1>4 DEF Next

\* The counter, the cooldown, the handlers and the alerts keep their types, for
\* any number of handlers (AlertTracker, RedisAlertTracker).
THEOREM TypeCorrect == Spec => []TypeOK
<1>1. Init => TypeOK
  <2> SUFFICES ASSUME Init PROVE TypeOK
    OBVIOUS
  <2>1. NoReading \in Reading /\ 0 \in Times
    BY ConstantFacts DEF NoReading, Reading
  <2>2. alerts \in Seq(Alert) /\ blocked \in Seq(Times)
    BY DEF Init
  <2>3. QED
    BY <2>1, <2>2 DEF Init, TypeOK
<1>2. TypeOK /\ [Next]_vars => TypeOK'
  BY TypeStep
<1>3. QED
  BY <1>1, <1>2, PTL DEF Spec

-----------------------------------------------------------------------------
(* Claims *)

LEMMA OtherSteps ==
    ASSUME [Next]_vars
    PROVE  \/ \E t \in Tasks : TaskNext(t)
           \/ /\ UNCHANGED <<useRedis, burst, cooldown, pc, counts, blocked, failures>>
              /\ \/ now' \in {now, now + 1} /\ UNCHANGED alerts
                 \/ now' = now /\ \E i \in DOMAIN alerts : Post(i)
<1>1. CASE UNCHANGED vars \/ Tick
  BY <1>1 DEF Tick, vars, taskVars
<1>2. ASSUME NEW i \in DOMAIN alerts, Post(i)
      PROVE  UNCHANGED <<useRedis, now, burst, cooldown, pc, counts, blocked, failures>>
  BY <1>2 DEF Post, taskVars
<1>3. QED
  BY <1>1, <1>2 DEF Next

LEMMA MemoryStep ==
    ASSUME TypeOK, MemoryInv, [Next]_vars
    PROVE  MemoryInv'
<1>1. CASE UNCHANGED <<useRedis, pc>>
  BY <1>1 DEF MemoryInv
<1>2. ASSUME NEW t \in Tasks, TaskNext(t)
      PROVE  MemoryInv'
  <2>1. useRedis' = useRedis
    BY <1>2, TaskStep
  <2>2. CASE ~useRedis
    <3>1. pc[t] = "idle"
      BY <2>2 DEF MemoryInv
    <3>2. BlockInMemory(t)
      BY <1>2, <2>2, <3>1
      DEF TaskNext, Block, ReadCounts, Claim, ClaimTwice, Send, TrackerFails, Die
    <3>3. QED
      BY <1>1, <2>1, <3>2 DEF BlockInMemory, taskVars
  <2>3. QED
    BY <2>1, <2>2 DEF MemoryInv
<1>3. QED
  BY <1>1, <1>2, OtherSteps

LEMMA PastStep ==
    ASSUME TypeOK, PastInv, [Next]_vars
    PROVE  PastInv'
<1>1. now \in Nat /\ \A j \in DOMAIN blocked : blocked[j] \in Nat
  BY NumberFacts
<1>2. CASE UNCHANGED blocked /\ now' \in {now, now + 1}
  BY <1>1, <1>2 DEF PastInv
<1>3. CASE NoteBlock /\ now' = now
  <2>1. ASSUME NEW j \in DOMAIN blocked'
        PROVE  blocked'[j] <= now
    <3>1. \/ j \in DOMAIN blocked /\ blocked'[j] = blocked[j]
          \/ blocked'[j] = now
      BY <1>3, BlockedNext
    <3>2. QED
      BY <1>1, <3>1 DEF PastInv
  <2>2. QED
    BY <1>3, <2>1 DEF PastInv
<1>4. ASSUME NEW t \in Tasks, TaskNext(t)
      PROVE  PastInv'
  BY <1>2, <1>3, <1>4, BlockedSteps, TaskStep DEF CountBlock
<1>5. QED
  BY <1>2, <1>4, OtherSteps

\* A claim is made when no cooldown is running, so at least one after all others.
LEMMA ClaimStep ==
    ASSUME TypeOK, TypeOK', ClaimInv, OneAlertPerCooldown, [Next]_vars
    PROVE  ClaimInv' /\ OneAlertPerCooldown'
<1>1. /\ now \in Nat /\ cooldown \in Nat /\ Cooldown \in Nat
      /\ \A i \in DOMAIN alerts : alerts[i].claimed \in Nat
      /\ \A t \in Tasks : counts[t].claimed \in Nat
  BY ConstantFacts, NumberFacts
<1>2. CASE UNCHANGED <<alerts, cooldown, taskVars>>
  BY <1>2 DEF ClaimInv, OneAlertPerCooldown, taskVars
<1>3. ASSUME NEW i \in DOMAIN alerts, Post(i)
      PROVE  ClaimInv' /\ OneAlertPerCooldown'
  <2>1. /\ DOMAIN alerts' = DOMAIN alerts
        /\ \A j \in DOMAIN alerts : alerts'[j].claimed = alerts[j].claimed
        /\ UNCHANGED <<cooldown, pc, counts>>
    BY <1>3, AlertPosted DEF Post, taskVars
  <2>2. QED
    BY <2>1 DEF ClaimInv, OneAlertPerCooldown
<1>4. ASSUME NEW t \in Tasks, TaskNext(t)
      PROVE  ClaimInv' /\ OneAlertPerCooldown'
  <2>1. \A u \in Tasks : u # t => pc'[u] = pc[u] /\ counts'[u] = counts[u]
    BY <1>4, TaskStep
  <2>2. CASE pc'[t] # "send" /\ UNCHANGED alerts /\ cooldown <= cooldown'
    <3>1. \A u \in Tasks : pc'[u] = "send" => u # t /\ pc[u] = "send" /\ counts'[u] = counts[u]
      BY <2>1, <2>2
    <3>2. cooldown' \in Nat
      BY DEF TypeOK
    <3>3. ClaimInv'
      BY <1>1, <2>2, <3>1, <3>2 DEF ClaimInv
    <3>4. OneAlertPerCooldown'
      BY <2>2, <3>1 DEF OneAlertPerCooldown
    <3>5. QED
      BY <3>3, <3>4
  <2>3. CASE Claim(t) /\ ~Cooling
    <3>1. /\ UNCHANGED alerts
          /\ cooldown' = now + Cooldown /\ cooldown <= now
          /\ counts'[t].claimed = now
      BY <1>1, <2>3 DEF Claim, Cooling, TypeOK, Reading
    <3>2. ClaimInv'
      BY <1>1, <2>1, <3>1 DEF ClaimInv
    <3>3. /\ \A i \in DOMAIN alerts : alerts[i].claimed + Cooldown <= now
          /\ \A u \in Tasks : u # t /\ pc'[u] = "send" =>
                pc[u] = "send" /\ counts'[u] = counts[u] /\ counts[u].claimed + Cooldown <= now
      BY <1>1, <2>1, <3>1 DEF ClaimInv
    <3>4. OneAlertPerCooldown'
      BY <1>1, <3>1, <3>3 DEF OneAlertPerCooldown
    <3>5. QED
      BY <3>2, <3>4
  <2>4. CASE Send(t)
    <3> DEFINE l == Len(alerts)
    <3>1. SendAlert(counts[t]) /\ counts[t] \in Reading /\ pc[t] = "send"
          /\ cooldown' = cooldown /\ pc'[t] # "send"
      BY <2>4, HandlerReturns DEF Send, TypeOK
    <3>2. /\ l \in Nat /\ DOMAIN alerts = 1 .. l /\ DOMAIN alerts' = 1 .. l + 1
          /\ \A i \in 1 .. l : alerts'[i] = alerts[i]
          /\ alerts'[l + 1].claimed = counts[t].claimed
      BY <3>1, AlertSent
    <3> HIDE DEF l
    <3>3. \A u \in Tasks : pc'[u] = "send" => u # t /\ pc[u] = "send" /\ counts'[u] = counts[u]
      BY <2>1, <3>1
    <3>4. /\ \A i \in 1 .. l : alerts[i].claimed + Cooldown <= cooldown
          /\ counts[t].claimed + Cooldown <= cooldown
      BY <3>1, <3>2 DEF ClaimInv
    <3>5. \A i \in 1 .. l + 1 : alerts'[i].claimed + Cooldown <= cooldown'
      <4>1. SUFFICES ASSUME NEW i \in 1 .. l + 1
                     PROVE  alerts'[i].claimed + Cooldown <= cooldown'
        OBVIOUS
      <4>2. i = l + 1 \/ i \in 1 .. l
        BY <3>2
      <4>3. QED
        BY <3>1, <3>2, <3>4, <4>2
    <3>6. \A u \in Tasks : pc'[u] = "send" => counts'[u].claimed + Cooldown <= cooldown'
      BY <3>1, <3>3 DEF ClaimInv
    <3>7. ClaimInv'
      BY <3>2, <3>5, <3>6 DEF ClaimInv
    <3>8. \A i, j \in DOMAIN alerts' : i # j =>
              \/ alerts'[i].claimed + Cooldown <= alerts'[j].claimed
              \/ alerts'[j].claimed + Cooldown <= alerts'[i].claimed
      BY <3>1, <3>2 DEF OneAlertPerCooldown
    <3>9. OneAlertPerCooldown'
      BY <3>1, <3>2, <3>3, <3>8 DEF OneAlertPerCooldown
    <3>10. QED
      BY <3>7, <3>9
  <2>5. CASE BlockInMemory(t) /\ ~Cooling
    <3>1. cooldown <= now /\ UNCHANGED <<pc, counts>>
      BY <1>1, <2>5 DEF BlockInMemory, Cooling, taskVars
    <3>2. CASE UNCHANGED <<alerts, cooldown>>
      BY <1>2, <3>1, <3>2 DEF taskVars
    <3>3. CASE /\ cooldown' = now + Cooldown
               /\ SendAlert([total |-> Count + 1, at |-> now, claimed |-> now])
      <4> DEFINE l == Len(alerts)
      <4>1. [total |-> Count + 1, at |-> now, claimed |-> now] \in Reading
        BY DEF TypeOK, Count, Reading
      <4>2. /\ l \in Nat /\ DOMAIN alerts = 1 .. l /\ DOMAIN alerts' = 1 .. l + 1
            /\ \A i \in 1 .. l : alerts'[i] = alerts[i]
            /\ alerts'[l + 1].claimed = now
        BY <3>3, <4>1, AlertSent
      <4> HIDE DEF l
      <4>3. ClaimInv'
        BY <1>1, <3>1, <3>3, <4>2 DEF ClaimInv
      <4>4. /\ \A i \in 1 .. l : alerts[i].claimed + Cooldown <= now
            /\ \A u \in Tasks : pc[u] = "send" => counts[u].claimed + Cooldown <= now
        BY <1>1, <3>1, <4>2 DEF ClaimInv
      <4>5. \A i, j \in DOMAIN alerts' : i # j =>
                \/ alerts'[i].claimed + Cooldown <= alerts'[j].claimed
                \/ alerts'[j].claimed + Cooldown <= alerts'[i].claimed
        BY <4>2, <4>4 DEF OneAlertPerCooldown
      <4>6. OneAlertPerCooldown'
        BY <3>1, <4>2, <4>4, <4>5 DEF OneAlertPerCooldown
      <4>7. QED
        BY <4>3, <4>6
    <3>4. QED
      BY <2>5, <3>2, <3>3 DEF BlockInMemory
  <2>6. CASE pc'[t] # "send" /\ UNCHANGED alerts
             /\ cooldown' = IF Cooling THEN cooldown ELSE now + Cooldown
    BY <1>1, <2>2, <2>6 DEF Cooling
  <2>7. QED
    BY <1>1, <1>4, <2>2, <2>3, <2>4, <2>5, <2>6, AlertSteps
<1>5. QED
  BY <1>2, <1>3, <1>4 DEF Next, Tick, vars

\* Whatever fails, whichever replicas die and however many handlers find a
\* burst at once, alerts are a cooldown apart (SET NX EX in
\* RedisAlertTracker.record_block; _cooldowns in AlertTracker.record_block).
THEOREM Apart == Spec => []OneAlertPerCooldown
<1>1. Init => ClaimInv /\ OneAlertPerCooldown
  BY DEF Init, ClaimInv, OneAlertPerCooldown
<1>2. TypeOK /\ TypeOK' /\ ClaimInv /\ OneAlertPerCooldown /\ [Next]_vars
          => ClaimInv' /\ OneAlertPerCooldown'
  BY ClaimStep
<1>3. QED
  BY <1>1, <1>2, TypeCorrect, PTL DEF Spec

-----------------------------------------------------------------------------
(* Bursts that are alerted *)

\* A step that is not a failure.
LEMMA StepsWithoutFailure ==
    ASSUME TypeOK, [Next]_vars, failures' = 0
    PROVE  /\ failures = 0
           /\ \/ \E t \in Tasks :
                    /\ \/ BlockInMemory(t) \/ Block(t) \/ ReadCounts(t) \/ Claim(t) \/ Send(t)
                    /\ TaskNext(t)
              \/ /\ UNCHANGED <<useRedis, burst, cooldown, pc, counts, blocked, failures>>
                 /\ \/ now' \in {now, now + 1} /\ UNCHANGED alerts
                    \/ now' = now /\ \E i \in DOMAIN alerts : Post(i)
<1>1. failures \in Nat
  BY DEF TypeOK
<1>2. ~Fails
  BY <1>1 DEF Fails
<1>3. ASSUME NEW t \in Tasks, TaskNext(t)
      PROVE  /\ failures = 0
             /\ \/ BlockInMemory(t) \/ Block(t) \/ ReadCounts(t) \/ Claim(t) \/ Send(t)
  <2>1. failures = 0
    BY <1>1, <1>3, TaskStep
  <2>2. ~ClaimTwice(t) /\ ~TrackerFails(t) /\ ~Die(t)
    BY <1>2 DEF ClaimTwice, TrackerFails, Die
  <2>3. QED
    BY <1>3, <2>1, <2>2 DEF TaskNext
<1>4. QED
  BY <1>3, OtherSteps

LEMMA ClaimedStays ==
    ASSUME TypeOK, [Next]_vars, failures' = 0, NEW s \in Times, Claimed(s)
    PROVE  Claimed(s)'
<1>1. CASE UNCHANGED <<alerts, pc, counts>>
  BY <1>1 DEF Claimed
<1>2. ASSUME NEW i \in DOMAIN alerts, Post(i), UNCHANGED <<pc, counts>>
      PROVE  Claimed(s)'
  BY <1>2, AlertPosted DEF Claimed
<1>3. ASSUME NEW t \in Tasks, TaskNext(t), pc[t] # "send", UNCHANGED alerts
      PROVE  Claimed(s)'
  BY <1>3, TaskStep DEF Claimed
<1>4. ASSUME NEW count \in Reading, SendAlert(count)
      PROVE  /\ (\E i \in DOMAIN alerts : alerts[i].claimed = s) => Claimed(s)'
             /\ count.claimed = s => Claimed(s)'
  <2>1. /\ DOMAIN alerts \subseteq DOMAIN alerts' /\ Len(alerts) + 1 \in DOMAIN alerts'
        /\ \A i \in DOMAIN alerts : alerts'[i] = alerts[i]
        /\ alerts'[Len(alerts) + 1].claimed = count.claimed
    BY <1>4, AlertSent
  <2>2. QED
    BY <2>1 DEF Claimed
<1>5. ASSUME NEW t \in Tasks, TaskNext(t), Send(t)
      PROVE  Claimed(s)'
  <2>1. SendAlert(counts[t]) /\ counts[t] \in Reading
    BY <1>5 DEF Send, TypeOK
  <2>2. CASE \E u \in Tasks : u # t /\ pc[u] = "send" /\ counts[u].claimed = s
    BY <1>5, <2>2, TaskStep DEF Claimed
  <2>3. QED
    BY <1>4, <2>1, <2>2 DEF Claimed
<1>6. ASSUME NEW t \in Tasks, BlockInMemory(t)
      PROVE  Claimed(s)'
  <2>1. UNCHANGED <<pc, counts>>
    BY <1>6 DEF BlockInMemory, taskVars
  <2>2. [total |-> Count + 1, at |-> now, claimed |-> now] \in Reading
    BY NumberFacts DEF Reading
  <2>3. \/ UNCHANGED alerts
        \/ SendAlert([total |-> Count + 1, at |-> now, claimed |-> now])
    BY <1>6 DEF BlockInMemory
  <2>4. QED
    BY <1>1, <1>4, <2>1, <2>2, <2>3 DEF Claimed
<1>7. ASSUME NEW t \in Tasks, TaskNext(t), Block(t) \/ ReadCounts(t) \/ Claim(t)
      PROVE  Claimed(s)'
  BY <1>3, <1>7 DEF Block, ReadCounts, Claim
<1>8. QED
  BY <1>1, <1>2, <1>5, <1>6, <1>7, StepsWithoutFailure

\* A claim of the present moment.
LEMMA ClaimedNow ==
    ASSUME TypeOK, NEW t \in Tasks, ~Cooling, failures' = 0,
           \/ Claim(t)
           \/ BlockInMemory(t) /\ Count + 1 >= Threshold
    PROVE  Claimed(now)' /\ cooldown' = now + Cooldown /\ now' = now
<1>1. CASE Claim(t)
  <2>1. pc'[t] = "send" /\ counts'[t].claimed = now
    BY <1>1 DEF Claim, TypeOK, Goto, Reading
  <2>2. QED
    BY <1>1, <2>1 DEF Claim, Claimed
<1>2. CASE BlockInMemory(t) /\ Count + 1 >= Threshold
  <2>1. /\ SendAlert([total |-> Count + 1, at |-> now, claimed |-> now])
        /\ cooldown' = now + Cooldown /\ now' = now
    BY <1>2 DEF BlockInMemory
  <2>2. [total |-> Count + 1, at |-> now, claimed |-> now] \in Reading
    BY NumberFacts DEF Reading
  <2>3. Len(alerts) + 1 \in DOMAIN alerts' /\ alerts'[Len(alerts) + 1].claimed = now
    BY <2>1, <2>2, AlertSent
  <2>4. QED
    BY <2>1, <2>3 DEF Claimed
<1>3. QED
  BY <1>1, <1>2

LEMMA SourceStep ==
    ASSUME TypeOK, SourceInv, [Next]_vars
    PROVE  SourceInv'
<1> SUFFICES ASSUME failures' = 0, now' < cooldown'
             PROVE  \E s \in Times : Claimed(s)' /\ cooldown' = s + Cooldown
  BY DEF SourceInv
<1>1. now \in Nat /\ now \in Times /\ cooldown \in Nat
  BY NumberFacts
<1>2. CASE cooldown' = cooldown /\ now' \in {now, now + 1}
  <2>1. failures = 0 /\ now < cooldown
    BY <1>1, <1>2, StepsWithoutFailure
  <2>2. PICK s \in Times : Claimed(s) /\ cooldown = s + Cooldown
    BY <2>1 DEF SourceInv
  <2>3. QED
    BY <1>2, <2>2, ClaimedStays
<1>3. ASSUME NEW t \in Tasks, TaskNext(t),
             BlockInMemory(t) \/ Block(t) \/ ReadCounts(t) \/ Claim(t) \/ Send(t)
      PROVE  \E s \in Times : Claimed(s)' /\ cooldown' = s + Cooldown
  <2>1. now' = now
    BY <1>3, TaskStep
  <2>2. CASE ~Cooling /\ (Claim(t) \/ (BlockInMemory(t) /\ Count + 1 >= Threshold))
    BY <1>1, <2>1, <2>2, ClaimedNow
  <2>3. CASE ~(~Cooling /\ (Claim(t) \/ (BlockInMemory(t) /\ Count + 1 >= Threshold)))
    <3>1. cooldown' = cooldown
      <4>1. CASE BlockInMemory(t)
        BY <2>3, <4>1 DEF BlockInMemory
      <4>2. CASE Claim(t)
        BY <2>3, <4>2 DEF Claim
      <4>3. QED
        BY <1>3, <4>1, <4>2 DEF Block, ReadCounts, Send
    <3>2. QED
      BY <1>2, <2>1, <3>1
  <2>4. QED
    BY <2>2, <2>3
<1>4. QED
  BY <1>2, <1>3, StepsWithoutFailure

LEMMA DueStep ==
    ASSUME TypeOK, TypeOK', PastInv', SourceInv, DueInv, [Next]_vars
    PROVE  DueInv'
<1> DEFINE Goal == \/ \E t \in Tasks : pc'[t] \in {"read", "claim"}
                   \/ \E s \in Times : /\ Claimed(s)'
                                       /\ \A j \in DOMAIN blocked' : blocked'[j] < s + Cooldown
<1> SUFFICES ASSUME failures' = 0, Count' >= Threshold
             PROVE  Goal
  BY DEF DueInv
<1>1. /\ now \in Nat /\ now \in Times /\ cooldown \in Nat /\ Count \in Nat
      /\ Threshold \in Nat \ {0} /\ Cooldown \in Nat \ {0}
      /\ burst.count \in Nat /\ burst.expires \in Nat
      /\ \A j \in DOMAIN blocked : blocked[j] \in Nat
  BY NumberFacts, ConstantFacts
<1>2. failures = 0
  BY StepsWithoutFailure
<1> HIDE DEF Goal
<1>n. ASSUME NEW j \in DOMAIN blocked'
      PROVE  blocked'[j] \in Nat /\ blocked'[j] <= now'
  <2>1. blocked'[j] \in Times
    BY DEF TypeOK
  <2>2. QED
    BY <2>1, ConstantFacts DEF PastInv, Times
<1>3. CASE /\ Count >= Threshold /\ UNCHANGED blocked
           /\ \A t \in Tasks : pc[t] \in {"read", "claim"} => pc'[t] = pc[t]
  <2>1. CASE \E t \in Tasks : pc[t] \in {"read", "claim"}
    BY <1>3, <2>1 DEF Goal
  <2>2. ASSUME NEW s \in Times, Claimed(s), \A j \in DOMAIN blocked : blocked[j] < s + Cooldown
        PROVE  Goal
    <3>1. Claimed(s)'
      BY <2>2, ClaimedStays
    <3>2. QED
      BY <1>3, <2>2, <3>1 DEF Goal
  <2>3. QED
    BY <1>2, <1>3, <2>1, <2>2 DEF DueInv
<1>4. CASE UNCHANGED <<burst, blocked, pc>> /\ now' \in {now, now + 1}
  <2>1. Count >= Threshold
    BY <1>1, <1>4 DEF Count
  <2>2. QED
    BY <1>3, <1>4, <2>1
\* The present cooldown was claimed, and no block is later than it.
<1>5. CASE Cooling /\ now' = now
  <2>1. PICK s \in Times : Claimed(s) /\ cooldown = s + Cooldown
    BY <1>2, <1>5 DEF SourceInv, Cooling
  <2>2. now < s + Cooldown
    BY <1>5, <2>1 DEF Cooling
  <2>3. ASSUME NEW j \in DOMAIN blocked'
        PROVE  blocked'[j] < s + Cooldown
    <3>1. s \in Nat
      BY ConstantFacts DEF Times
    <3>2. QED
      BY <1>1, <1>5, <1>n, <2>2, <3>1
  <2>4. Claimed(s)'
    BY <2>1, ClaimedStays
  <2>5. QED
    BY <2>3, <2>4 DEF Goal
<1>6. ASSUME NEW t \in Tasks, ~Cooling, Claim(t) \/ (BlockInMemory(t) /\ Count + 1 >= Threshold)
      PROVE  Goal
  <2>1. Claimed(now)' /\ now' = now
    BY <1>6, ClaimedNow
  <2>2. \A j \in DOMAIN blocked' : blocked'[j] < now + Cooldown
    BY <1>1, <1>n, <2>1
  <2>3. QED
    BY <1>1, <2>1, <2>2 DEF Goal
<1>7. ASSUME NEW t \in Tasks, TaskNext(t),
             BlockInMemory(t) \/ Block(t) \/ ReadCounts(t) \/ Claim(t) \/ Send(t)
      PROVE  Goal
  <2>1. now' = now /\ \A u \in Tasks : u # t => pc'[u] = pc[u]
    BY <1>7, TaskStep
  <2>2. CASE BlockInMemory(t)
    <3>1. CASE Count + 1 >= Threshold
      BY <1>5, <1>6, <2>1, <2>2, <3>1
    <3>2. CASE ~(Count + 1 >= Threshold)
      <4>1. Count' \in {Count + 1, 0}
        BY <2>2 DEF BlockInMemory, Count
      <4>2. QED
        BY <1>1, <3>2, <4>1
    <3>3. QED
      BY <3>1, <3>2
  <2>3. CASE Block(t)
    <3>1. pc'[t] = "read"
      BY <2>3 DEF Block, Goto, TypeOK
    <3>2. QED
      BY <3>1 DEF Goal
  <2>4. CASE ReadCounts(t)
    <3>1. UNCHANGED <<burst, blocked>>
      BY <2>4 DEF ReadCounts
    <3>2. Count' = Count
      BY <2>1, <3>1 DEF Count
    <3>3. pc'[t] = "claim"
      BY <1>1, <2>4, <3>2 DEF ReadCounts, Goto, TypeOK
    <3>4. QED
      BY <3>3 DEF Goal
  <2>5. CASE Claim(t)
    <3>1. CASE Cooling
      BY <1>5, <2>1, <3>1
    <3>2. CASE ~Cooling
      BY <1>6, <2>5, <3>2
    <3>3. QED
      BY <3>1, <3>2
  <2>6. CASE Send(t)
    <3>1. UNCHANGED <<burst, blocked>> /\ pc[t] = "send"
      BY <2>6 DEF Send
    <3>2. Count' = Count
      BY <2>1, <3>1 DEF Count
    <3>3. \A u \in Tasks : pc[u] \in {"read", "claim"} => pc'[u] = pc[u]
      BY <2>1, <3>1
    <3>4. QED
      BY <1>3, <3>1, <3>2, <3>3
  <2>7. QED
    BY <1>7, <2>2, <2>3, <2>4, <2>5, <2>6
<1>8. QED
  BY <1>4, <1>7, StepsWithoutFailure

\* The alert of a burst comes, unless something fails: when all handlers are
\* done and the counter stands at the threshold, no block is later than the
\* cooldown of an alert that was sent (record_block of both trackers).
THEOREM AlertComes == Spec => []BurstAlerted
<1>1. Init => PastInv /\ SourceInv /\ DueInv
  BY ConstantFacts DEF Init, PastInv, SourceInv, DueInv, Count
<1>2. TypeOK /\ PastInv /\ [Next]_vars => PastInv'
  BY PastStep
<1>3. TypeOK /\ SourceInv /\ [Next]_vars => SourceInv'
  BY SourceStep
<1>4. TypeOK /\ TypeOK' /\ PastInv' /\ SourceInv /\ DueInv /\ [Next]_vars => DueInv'
  BY DueStep
<1>5. DueInv => BurstAlerted
  BY DEF DueInv, BurstAlerted, Claimed
<1>6. QED
  BY <1>1, <1>2, <1>3, <1>4, <1>5, TypeCorrect, PTL DEF Spec

-----------------------------------------------------------------------------
(* Alerts of bursts *)

LEMMA BurstStays ==
    ASSUME TypeOK, useRedis' = useRedis, UNCHANGED blocked \/ NoteBlock,
           NEW total \in Nat, NEW at, Burst(useRedis, blocked, total, at)
    PROVE  Burst(useRedis', blocked', total, at)
<1>1. CASE UNCHANGED blocked
  BY <1>1 DEF Burst
<1>2. CASE NoteBlock
  <2>1. PICK last \in DOMAIN blocked :
            /\ last - total + 1 >= 1
            /\ blocked[last] <= at
            /\ IF useRedis
               THEN /\ at < blocked[last] + Window
                    /\ \A j \in last - total + 1 .. last - 1 :
                          blocked[j + 1] < blocked[j] + Window
               ELSE \A j \in last - total + 1 .. last : at < blocked[j] + Window
    BY DEF Burst
  <2>2. /\ last \in 1 .. Len(blocked) /\ Len(blocked) \in Nat
        /\ last \in DOMAIN blocked'
        /\ \A j \in 1 .. Len(blocked) : blocked'[j] = blocked[j]
    BY <1>2, BlockedNext
  <2>3. /\ \A j \in last - total + 1 .. last - 1 : blocked'[j + 1] = blocked[j + 1]
        /\ \A j \in last - total + 1 .. last : blocked'[j] = blocked[j]
    BY <2>1, <2>2
  <2>4. blocked'[last] = blocked[last]
    BY <2>2
  <2>5. CASE useRedis
    <3>1. \A j \in last - total + 1 .. last - 1 :
              blocked'[j + 1] < blocked'[j] + Window
      <4>1. \A j \in last - total + 1 .. last - 1 : j \in last - total + 1 .. last
        BY <2>2
      <4>2. QED
        BY <2>1, <2>3, <2>5, <4>1
    <3>2. at < blocked'[last] + Window
      BY <2>1, <2>4, <2>5
    <3>3. QED
      BY <2>1, <2>2, <2>4, <2>5, <3>1, <3>2 DEF Burst
  <2>6. CASE ~useRedis
    <3>1. \A j \in last - total + 1 .. last : at < blocked'[j] + Window
      BY <2>1, <2>3, <2>6
    <3>2. QED
      BY <2>1, <2>2, <2>4, <2>6, <3>1 DEF Burst
  <2>7. QED
    BY <2>5, <2>6
<1>3. QED
  BY <1>1, <1>2

\* Counting a block.
LEMMA CountStep ==
    ASSUME TypeOK, PastInv, CountInv, [Next]_vars
    PROVE  CountInv'
<1> SUFFICES ASSUME failures' = 0
             PROVE  CountInv'
  BY DEF CountInv
<1> DEFINE l == Len(blocked)
<1>1. /\ now \in Nat /\ Count \in Nat /\ Window \in Nat \ {0}
      /\ burst.count \in Nat /\ burst.expires \in Nat
      /\ \A j \in DOMAIN blocked : blocked[j] \in Nat
      /\ l \in Nat /\ DOMAIN blocked = 1 .. l
  BY NumberFacts, ConstantFacts DEF TypeOK
<1>2. failures = 0
  BY StepsWithoutFailure
<1>3. CASE UNCHANGED <<burst, blocked, useRedis>>
  BY <1>2, <1>3 DEF CountInv
<1>4. ASSUME NoteBlock, useRedis' = useRedis, burst'.count = Count + 1,
             \/ useRedis /\ burst'.expires = now + Window
             \/ ~useRedis /\ burst'.expires = IF Count = 0 THEN now + Window ELSE burst.expires
      PROVE  CountInv'
  <2>1. /\ Len(blocked') = l + 1 /\ blocked'[l + 1] = now
        /\ \A j \in 1 .. l : blocked'[j] = blocked[j]
    BY <1>4, BlockedNext
  <2>2. PICK first \in Int : first = l + 1 - (Count + 1) + 1
    BY <1>1
  <2>3. CASE Count = 0
    <3>1. first = l + 1
      BY <1>1, <2>2, <2>3
    <3>2. QED
      BY <1>1, <1>4, <2>1, <2>2, <2>3, <3>1 DEF CountInv
  <2>4. CASE Count # 0
    <3>1. Count = burst.count /\ now < burst.expires /\ first = l - burst.count + 1
      BY <1>1, <2>2, <2>4 DEF Count
    <3>2. first >= 1 /\ first <= l
      BY <1>1, <1>2, <2>4, <3>1 DEF CountInv
    <3>3. CASE useRedis
      <4>1. /\ burst.expires = blocked[l] + Window
            /\ \A j \in first .. l - 1 : blocked[j + 1] < blocked[j] + Window
        BY <1>1, <1>2, <2>4, <3>1, <3>3 DEF CountInv
      <4>2. \A j \in first .. l + 1 - 1 : blocked'[j + 1] < blocked'[j] + Window
        <5>1. ASSUME NEW j \in first .. l + 1 - 1
              PROVE  blocked'[j + 1] < blocked'[j] + Window
          <6>1. j \in 1 .. l /\ blocked'[j] = blocked[j]
            BY <1>1, <2>1, <3>2
          <6>2. CASE j = l
            BY <1>1, <2>1, <3>1, <4>1, <6>1, <6>2
          <6>3. CASE j # l
            <7> HIDE DEF l
            <7>1. l \in Int /\ j \in first .. l /\ j >= 1
              BY <1>1, <3>2
            <7>2. j \in first .. l - 1 /\ j + 1 \in 1 .. l
              BY <6>3, <7>1
            <7>3. QED
              BY <2>1, <4>1, <6>1, <7>2
          <6>4. QED
            BY <6>2, <6>3
        <5>2. QED
          BY <5>1
      <4>3. QED
        BY <1>1, <1>4, <2>1, <2>2, <3>2, <3>3, <4>2 DEF CountInv
    <3>4. CASE ~useRedis
      <4>1. \A j \in first .. l : burst.expires <= blocked[j] + Window
        BY <1>1, <1>2, <2>4, <3>1, <3>4 DEF CountInv
      <4>2. burst'.expires = burst.expires
        BY <1>4, <2>4, <3>4
      <4>3. burst.expires <= now + Window
        <5>1. /\ first \in first .. l /\ first \in DOMAIN blocked
              /\ blocked[first] <= now /\ blocked[first] \in Nat
          BY <1>1, <3>2 DEF PastInv
        <5>2. QED
          BY <1>1, <4>1, <5>1
      <4>4. \A j \in first .. l + 1 : burst'.expires <= blocked'[j] + Window
        <5>1. SUFFICES ASSUME NEW j \in first .. l + 1
                       PROVE  burst'.expires <= blocked'[j] + Window
          OBVIOUS
        <5>2. CASE j = l + 1
          BY <2>1, <4>2, <4>3, <5>2
        <5>3. CASE j # l + 1
          <6>1. j \in first .. l /\ j \in 1 .. l
            BY <1>1, <3>1, <3>2, <5>3
          <6>2. QED
            BY <2>1, <4>1, <4>2, <6>1
        <5>4. QED
          BY <5>2, <5>3
      <4>5. QED
        BY <1>1, <1>4, <2>1, <2>2, <3>2, <3>4, <4>4 DEF CountInv
    <3>5. QED
      BY <3>3, <3>4
  <2>5. QED
    BY <2>3, <2>4
<1>5. ASSUME NEW t \in Tasks, TaskNext(t),
             BlockInMemory(t) \/ Block(t) \/ ReadCounts(t) \/ Claim(t) \/ Send(t)
      PROVE  CountInv'
  <2>1. CASE BlockInMemory(t)
    BY <1>4, <2>1 DEF BlockInMemory
  <2>2. CASE Block(t)
    <3>1. CountBlock(1)
      BY <1>1, <1>2, <2>2 DEF Block, Fails
    <3>2. useRedis /\ useRedis' = useRedis
      BY <2>2 DEF Block
    <3>3. QED
      BY <1>4, <3>1, <3>2 DEF CountBlock
  <2>3. QED
    BY <1>3, <1>5, <2>1, <2>2 DEF ReadCounts, Claim, Send
<1>6. QED
  BY <1>3, <1>5, StepsWithoutFailure

\* What the counter stands for is a burst.
LEMMA CountMeansBurst ==
    ASSUME TypeOK, PastInv, CountInv, failures = 0, Count > 0
    PROVE  Burst(useRedis, blocked, Count, now)
<1> DEFINE l == Len(blocked)
<1>1. /\ now \in Nat /\ Window \in Nat
      /\ burst.count \in Nat /\ burst.expires \in Nat
      /\ \A j \in DOMAIN blocked : blocked[j] \in Nat
      /\ l \in Nat /\ DOMAIN blocked = 1 .. l
  BY NumberFacts, ConstantFacts DEF TypeOK
<1>2. Count = burst.count /\ now < burst.expires /\ burst.count > 0
  BY <1>1 DEF Count
<1>3. l - Count + 1 >= 1 /\ l \in DOMAIN blocked /\ blocked[l] <= now
  BY <1>1, <1>2 DEF CountInv, PastInv
<1>4. CASE useRedis
  <2>1. /\ now < blocked[l] + Window
        /\ \A j \in l - Count + 1 .. l - 1 : blocked[j + 1] < blocked[j] + Window
    BY <1>1, <1>2, <1>4 DEF CountInv
  <2>2. QED
    BY <1>3, <1>4, <2>1 DEF Burst
<1>5. CASE ~useRedis
  <2>1. \A j \in l - Count + 1 .. l : burst.expires <= blocked[j] + Window
    BY <1>2, <1>5 DEF CountInv
  <2>2. \A j \in l - Count + 1 .. l : now < blocked[j] + Window
    <3>1. SUFFICES ASSUME NEW j \in l - Count + 1 .. l
                   PROVE  now < blocked[j] + Window
      OBVIOUS
    <3>2. j \in DOMAIN blocked
      BY <1>1, <1>2, <1>3
    <3>3. burst.expires <= blocked[j] + Window
      BY <2>1
    <3>4. QED
      BY <1>1, <1>2, <3>2, <3>3
  <2>3. QED
    BY <1>3, <1>5, <2>2 DEF Burst
<1>6. QED
  BY <1>4, <1>5

\* The same of the counter that a block in memory leaves.
LEMMA BlockMeansBurst ==
    ASSUME TypeOK, PastInv, CountInv, failures = 0, NEW t \in Tasks, BlockInMemory(t),
           NEW total \in Nat, total = Count + 1, NEW at \in Nat, at = now
    PROVE  Burst(useRedis', blocked', total, at)
<1> DEFINE l == Len(blocked)
<1>1. /\ now \in Nat /\ Window \in Nat \ {0} /\ Count \in Nat
      /\ burst.count \in Nat /\ burst.expires \in Nat
      /\ \A j \in DOMAIN blocked : blocked[j] \in Nat
      /\ l \in Nat /\ DOMAIN blocked = 1 .. l
  BY NumberFacts, ConstantFacts DEF TypeOK
<1>2. /\ DOMAIN blocked' = 1 .. l + 1 /\ blocked'[l + 1] = now
      /\ \A j \in 1 .. l : blocked'[j] = blocked[j]
      /\ ~useRedis'
  <2>1. NoteBlock /\ ~useRedis'
    BY DEF BlockInMemory
  <2>2. QED
    BY <2>1, BlockedNext
<1>3. PICK last \in Nat : last = l + 1
  BY <1>1
<1>4. /\ last - total + 1 >= 1
      /\ \A j \in last - total + 1 .. last : at < blocked'[j] + Window
  <2>1. CASE Count = 0
    BY <1>1, <1>2, <1>3, <2>1
  <2>2. CASE Count # 0
    <3>1. Count = burst.count /\ now < burst.expires /\ burst.count > 0
      BY <1>1, <2>2 DEF Count
    <3>2. /\ l - Count + 1 >= 1
          /\ \A j \in l - Count + 1 .. l : burst.expires <= blocked[j] + Window
      BY <1>1, <3>1 DEF CountInv, BlockInMemory
    <3>3. ASSUME NEW j \in last - total + 1 .. last
          PROVE  at < blocked'[j] + Window
      <4>1. CASE j = l + 1
        BY <1>1, <1>2, <4>1
      <4>2. CASE j # l + 1
        <5>1. j \in l - Count + 1 .. l /\ j \in 1 .. l
          BY <1>1, <1>3, <3>2, <4>2
        <5>2. burst.expires <= blocked[j] + Window /\ blocked'[j] = blocked[j]
          BY <1>2, <3>2, <5>1
        <5>3. blocked[j] \in Nat /\ at < burst.expires
          BY <1>1, <3>1, <5>1
        <5>4. QED
          BY <1>1, <5>2, <5>3
      <4>3. QED
        BY <4>1, <4>2
    <3>4. QED
      BY <1>1, <1>3, <3>2, <3>3
  <2>3. QED
    BY <2>1, <2>2
<1>5. last \in DOMAIN blocked' /\ blocked'[last] <= at
  BY <1>1, <1>2, <1>3
<1>6. QED
  BY <1>2, <1>4, <1>5 DEF Burst

LEMMA ReadingStep ==
    ASSUME TypeOK, PastInv, CountInv, ReadingInv, [Next]_vars
    PROVE  ReadingInv'
<1> SUFFICES ASSUME failures' = 0, NEW t \in Tasks, pc'[t] \in {"claim", "send"}
             PROVE  /\ counts'[t].total >= Threshold
                    /\ Burst(useRedis', blocked', counts'[t].total, counts'[t].at)
  BY DEF ReadingInv
<1>1. failures = 0 /\ counts[t] \in Reading
  BY StepsWithoutFailure DEF TypeOK
<1>2. counts[t].total \in Nat
  BY <1>1 DEF Reading
<1>3. useRedis' = useRedis /\ (UNCHANGED blocked \/ NoteBlock)
  BY OtherSteps, TaskStep, BlockedSteps DEF CountBlock
<1>4. CASE /\ pc[t] \in {"claim", "send"}
           /\ counts'[t].total = counts[t].total /\ counts'[t].at = counts[t].at
  <2>1. counts[t].total >= Threshold /\ Burst(useRedis, blocked, counts[t].total, counts[t].at)
    BY <1>1, <1>4 DEF ReadingInv
  <2>2. QED
    BY <1>2, <1>3, <1>4, <2>1, BurstStays
<1>5. CASE UNCHANGED <<pc, counts>>
  BY <1>4, <1>5
<1>6. ASSUME NEW u \in Tasks, TaskNext(u),
             BlockInMemory(u) \/ Block(u) \/ ReadCounts(u) \/ Claim(u) \/ Send(u)
      PROVE  /\ counts'[t].total >= Threshold
             /\ Burst(useRedis', blocked', counts'[t].total, counts'[t].at)
  <2>1. CASE u # t
    BY <1>4, <1>6, <2>1, TaskStep
  <2>2. CASE u = t
    <3>1. CASE BlockInMemory(t)
      BY <1>5, <3>1 DEF BlockInMemory, taskVars
    <3>2. CASE Block(t) \/ Send(t)
      <4>1. pc'[t] \in {"read", "idle"}
        BY <3>2 DEF Block, Send, Return, Goto, TypeOK
      <4>2. QED
        BY <4>1
    <3>3. CASE Claim(t)
      BY <1>1, <1>4, <3>3 DEF Claim, Return, Goto, TypeOK, Reading
    <3>4. CASE ReadCounts(t)
      <4>1. Count >= Threshold /\ ~Return(t)
        <5>1. pc'[t] # "idle"
          BY <2>2
        <5>2. ~Return(t)
          BY <5>1, HandlerReturns
        <5>3. ~(Count < Threshold)
          BY <3>4, <5>2 DEF ReadCounts
        <5>4. QED
          BY <5>2, <5>3, NumberFacts, ConstantFacts
      <4>2. counts'[t] = [total |-> Count, at |-> now, claimed |-> 0]
        BY <3>4, <4>1 DEF ReadCounts, TypeOK
      <4>3. Count \in Nat /\ now \in Nat /\ Count > 0
        BY <4>1, NumberFacts, ConstantFacts
      <4>4. Burst(useRedis, blocked, Count, now)
        BY <1>1, <4>3, CountMeansBurst
      <4>5. PICK total \in Nat, at \in Nat : total = Count /\ at = now
        BY <4>3
      <4>6. Burst(useRedis', blocked', total, at)
        BY <1>3, <4>4, <4>5, BurstStays
      <4>7. QED
        BY <4>1, <4>2, <4>5, <4>6
    <3>5. QED
      BY <1>6, <2>2, <3>1, <3>2, <3>3, <3>4
  <2>3. QED
    BY <2>1, <2>2
<1>7. QED
  BY <1>5, <1>6, StepsWithoutFailure

LEMMA MeansStep ==
    ASSUME TypeOK, PastInv, CountInv, ReadingInv, AlertMeansBurst, [Next]_vars
    PROVE  AlertMeansBurst'
<1> DEFINE True(a) == a.total >= Threshold /\ Burst(useRedis', blocked', a.total, a.at)
<1> SUFFICES ASSUME failures' = 0
             PROVE  \A i \in DOMAIN alerts' : True(alerts'[i])
  BY DEF AlertMeansBurst
<1>1. failures = 0
  BY StepsWithoutFailure
<1>2. useRedis' = useRedis /\ (UNCHANGED blocked \/ NoteBlock)
  BY OtherSteps, TaskStep, BlockedSteps DEF CountBlock
<1>3. ASSUME NEW i \in DOMAIN alerts
      PROVE  True(alerts[i])
  <2>1. alerts[i] \in Alert
    BY DEF TypeOK
  <2>2. alerts[i].total \in Nat
    BY <2>1 DEF Alert
  <2>3. alerts[i].total >= Threshold /\ Burst(useRedis, blocked, alerts[i].total, alerts[i].at)
    BY <1>1 DEF AlertMeansBurst
  <2>4. QED
    BY <1>2, <2>2, <2>3, BurstStays
<1>4. CASE UNCHANGED alerts
  BY <1>3, <1>4
<1>5. ASSUME NEW i \in DOMAIN alerts, Post(i)
      PROVE  \A j \in DOMAIN alerts' : True(alerts'[j])
  BY <1>3, <1>5, AlertPosted
<1>6. ASSUME NEW count \in Reading, SendAlert(count), True(count)
      PROVE  \A i \in DOMAIN alerts' : True(alerts'[i])
  <2>1. ASSUME NEW i \in DOMAIN alerts'
        PROVE  True(alerts'[i])
    <3>1. \/ i \in DOMAIN alerts /\ alerts'[i] = alerts[i]
          \/ alerts'[i].total = count.total /\ alerts'[i].at = count.at
      BY <1>6, AlertSent
    <3>2. QED
      BY <1>3, <1>6, <3>1
  <2>2. QED
    BY <2>1
<1>7. ASSUME NEW t \in Tasks, Send(t)
      PROVE  \A i \in DOMAIN alerts' : True(alerts'[i])
  <2>1. SendAlert(counts[t]) /\ counts[t] \in Reading /\ pc[t] = "send"
    BY <1>7 DEF Send, TypeOK
  <2>2. counts[t].total >= Threshold /\ Burst(useRedis, blocked, counts[t].total, counts[t].at)
    BY <1>1, <2>1 DEF ReadingInv
  <2>3. counts[t].total \in Nat
    BY <2>1 DEF Reading
  <2>4. True(counts[t])
    BY <1>2, <2>2, <2>3, BurstStays
  <2>5. QED
    BY <1>6, <2>1, <2>4
<1>8. ASSUME NEW t \in Tasks, BlockInMemory(t)
      PROVE  \A i \in DOMAIN alerts' : True(alerts'[i])
  <2>1. CASE UNCHANGED alerts
    BY <1>4, <2>1
  <2>2. CASE ~UNCHANGED alerts
    <3>1. /\ Count + 1 >= Threshold
          /\ SendAlert([total |-> Count + 1, at |-> now, claimed |-> now])
      BY <1>8, <2>2 DEF BlockInMemory
    <3>2. PICK total \in Nat, at \in Times : total = Count + 1 /\ at = now
      BY NumberFacts
    <3>3. PICK count \in Reading : count = [total |-> total, at |-> at, claimed |-> at]
      BY DEF Reading
    <3>4. Burst(useRedis', blocked', total, at)
      BY <1>1, <1>8, <3>2, BlockMeansBurst, NumberFacts
    <3>5. count.total = total /\ count.at = at
      BY <3>3
    <3>6. True(count)
      BY <3>1, <3>2, <3>4, <3>5
    <3>7. QED
      BY <1>6, <3>1, <3>2, <3>3, <3>6
  <2>3. QED
    BY <2>1, <2>2
<1>9. QED
  BY <1>4, <1>5, <1>7, <1>8, StepsWithoutFailure DEF Block, ReadCounts, Claim

\* An alert says the truth, until something fails: as many blocks as it tells,
\* no fewer than the threshold, were in a window's stretch in memory, and in a
\* row without a gap of that length in Redis (record_block of both trackers).
THEOREM AlertTells == Spec => []AlertMeansBurst
<1>1. Init => PastInv /\ CountInv /\ ReadingInv /\ AlertMeansBurst
  BY DEF Init, PastInv, CountInv, ReadingInv, AlertMeansBurst
<1>2. TypeOK /\ PastInv /\ [Next]_vars => PastInv'
  BY PastStep
<1>3. TypeOK /\ PastInv /\ CountInv /\ [Next]_vars => CountInv'
  BY CountStep
<1>4. TypeOK /\ PastInv /\ CountInv /\ ReadingInv /\ [Next]_vars => ReadingInv'
  BY ReadingStep
<1>5. TypeOK /\ PastInv /\ CountInv /\ ReadingInv /\ AlertMeansBurst /\ [Next]_vars
          => AlertMeansBurst'
  BY MeansStep
<1>6. QED
  BY <1>1, <1>2, <1>3, <1>4, <1>5, TypeCorrect, PTL DEF Spec

=============================================================================
