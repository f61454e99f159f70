----------------------------- MODULE BlockAlerts -----------------------------
(***************************************************************************)
(* The alert of a burst of blocked requests of one API key                 *)
(* (app/auth/alerting.py): each block is counted; when there are enough in *)
(* a window, and none has been sent for a while, an alert is posted to a   *)
(* webhook by a background task, once and without retries.                 *)
(*                                                                         *)
(* The tracker is kept in memory, where record_block does not suspend, or  *)
(* in Redis, where it takes three steps, each of which can fail, be run    *)
(* twice by the client library, or be the replica's last.  The blocks of   *)
(* both guardrails count alike, and only their sum is kept here.           *)
(***************************************************************************)
EXTENDS Integers, Sequences, FiniteSets

CONSTANTS
    Tasks,          \* the handlers of this key's blocked requests
    Threshold,      \* _block_threshold()
    Window,         \* _window_seconds()
    Cooldown,       \* _cooldown_seconds()
    MaxTime,        \* bound: ticks
    MaxBlocks,      \* bound: blocked requests in a behaviour
    MaxFailures     \* bound: failures of Redis, or of a replica

ASSUME AlertsAssumption ==
    /\ IsFiniteSet(Tasks)
    /\ {Threshold, Window, Cooldown} \subseteq Nat \ {0}
    /\ {MaxTime, MaxBlocks, MaxFailures} \subseteq Nat

VARIABLES
    useRedis,
    now,
    burst,          \* the blocks counted, and when the counter is gone
    cooldown,       \* until when no other alert is sent
    pc,             \* where each handler is in record_block
    counts,         \* the count it has read, when, and when it has claimed the alert
    alerts,         \* the alerts sent
    blocked,        \* when each block has been counted
    failures

taskVars == <<pc, counts>>
vars == <<useRedis, now, burst, cooldown, taskVars, alerts, blocked, failures>>

Times == 0 .. MaxTime
Reading == [total : Nat, at : Times, claimed : Times]
NoReading == [total |-> 0, at |-> 0, claimed |-> 0]
Alert == [total : Nat, at : Times, claimed : Times,
          post : {"under way", "delivered", "failed"}]

TypeOK ==
    /\ useRedis \in BOOLEAN
    /\ now \in Times
    /\ burst \in [count : Nat, expires : Nat]
    /\ cooldown \in Nat
    /\ pc \in [Tasks -> {"idle", "read", "claim", "send"}]
    /\ counts \in [Tasks -> Reading]
    /\ alerts \in Seq(Alert)
    /\ blocked \in Seq(Times)
    /\ failures \in Nat

Init ==
    /\ useRedis \in BOOLEAN
    /\ now = 0
    /\ burst = [count |-> 0, expires |-> 0]
    /\ cooldown = 0
    /\ pc = [t \in Tasks |-> "idle"]
    /\ counts = [t \in Tasks |-> NoReading]
    /\ alerts = <<>>
    /\ blocked = <<>>
    /\ failures = 0

Count == IF now < burst.expires THEN burst.count ELSE 0
Cooling == now < cooldown

Fails == failures < MaxFailures /\ failures' = failures + 1
Goto(t, step) == pc' = [pc EXCEPT ![t] = step]
Return(t) == Goto(t, "idle") /\ counts' = [counts EXCEPT ![t] = NoReading]
NoteBlock == blocked' = Append(blocked, now)

Tick ==
    /\ now < MaxTime
    /\ now' = now + 1
    /\ UNCHANGED <<useRedis, burst, cooldown, taskVars, alerts, blocked, failures>>

\* send_alert creates the task that posts.
SendAlert(count) ==
    alerts' = Append(alerts, [total |-> count.total, at |-> count.at,
                              claimed |-> count.claimed, post |-> "under way"])

-----------------------------------------------------------------------------
(* AlertTracker *)

\* Mutant of BlockInMemory: every block prolongs the window.
BlockInMemorySliding(t) ==
    /\ ~useRedis
    /\ pc[t] = "idle"
    /\ Len(blocked) < MaxBlocks
    /\ burst' = [count |-> Count + 1, expires |-> now + Window]
    /\ IF Count + 1 >= Threshold /\ ~Cooling
       THEN /\ cooldown' = now + Cooldown
            /\ SendAlert([total |-> Count + 1, at |-> now, claimed |-> now])
       ELSE UNCHANGED <<cooldown, alerts>>
    /\ NoteBlock
    /\ UNCHANGED <<useRedis, now, taskVars, failures>>

BlockInMemory(t) ==
    /\ ~useRedis
    /\ pc[t] = "idle"
    /\ Len(blocked) < MaxBlocks
    /\ burst' = [count |-> Count + 1,
                 expires |-> IF Count = 0 THEN now + Window ELSE burst.expires]
    /\ IF Count + 1 >= Threshold /\ ~Cooling
       THEN /\ cooldown' = now + Cooldown
            /\ SendAlert([total |-> Count + 1, at |-> now, claimed |-> now])
       ELSE UNCHANGED <<cooldown, alerts>>
    /\ NoteBlock
    /\ UNCHANGED <<useRedis, now, taskVars, failures>>

-----------------------------------------------------------------------------
(* RedisAlertTracker *)

\* HINCRBY and EXPIRE in one transaction, applied n times: each block prolongs
\* the life of the counter.
CountBlock(n) ==
    /\ burst' = IF n = 0 THEN burst ELSE [count |-> Count + n, expires |-> now + Window]
    /\ IF n = 0 THEN UNCHANGED blocked ELSE NoteBlock

\* await pipe.execute()
Block(t) ==
    /\ useRedis
    /\ pc[t] = "idle"
    /\ Len(blocked) < MaxBlocks
    /\ \E n \in 1 .. 2 :
          /\ IF n = 1 THEN UNCHANGED failures ELSE Fails
          /\ CountBlock(n)
    /\ Goto(t, "read")
    /\ UNCHANGED <<useRedis, now, cooldown, counts, alerts>>

\* Mutant of ReadCounts: only what exceeds the threshold is a burst.
ReadCountsBeyond(t) ==
    /\ pc[t] = "read"
    /\ IF Count <= Threshold
       THEN Return(t)
       ELSE /\ Goto(t, "claim")
            /\ counts' = [counts EXCEPT ![t] = [total |-> Count, at |-> now, claimed |-> 0]]
    /\ UNCHANGED <<useRedis, now, burst, cooldown, alerts, blocked, failures>>

\* counts_raw = await self._client.hgetall(window_key)
ReadCounts(t) ==
    /\ pc[t] = "read"
    /\ IF Count < Threshold
       THEN Return(t)
       ELSE /\ Goto(t, "claim")
            /\ counts' = [counts EXCEPT ![t] = [total |-> Count, at |-> now, claimed |-> 0]]
    /\ UNCHANGED <<useRedis, now, burst, cooldown, alerts, blocked, failures>>

\* Mutant of Claim: SET without NX.
ClaimUnconditional(t) ==
    /\ pc[t] = "claim"
    /\ Goto(t, "send")
    /\ cooldown' = now + Cooldown
    /\ counts' = [counts EXCEPT ![t].claimed = now]
    /\ UNCHANGED <<useRedis, now, burst, alerts, blocked, failures>>

\* won = await self._client.set(..., nx=True, ex=self._cooldown_seconds)
Claim(t) ==
    /\ pc[t] = "claim"
    /\ IF Cooling
       THEN Return(t) /\ UNCHANGED cooldown
       ELSE /\ Goto(t, "send")
            /\ cooldown' = now + Cooldown
            /\ counts' = [counts EXCEPT ![t].claimed = now]
    /\ UNCHANGED <<useRedis, now, burst, alerts, blocked, failures>>

\* The key has been set and the answer lost: the second SET does not win.
ClaimTwice(t) ==
    /\ pc[t] = "claim"
    /\ Fails
    /\ cooldown' = IF Cooling THEN cooldown ELSE now + Cooldown
    /\ Return(t)
    /\ UNCHANGED <<useRedis, now, burst, alerts, blocked>>

\* The answer has come: send_alert(decision).
Send(t) ==
    /\ pc[t] = "send"
    /\ SendAlert(counts[t])
    /\ Return(t)
    /\ UNCHANGED <<useRedis, now, burst, cooldown, blocked, failures>>

\* A RedisError of any command, applied or not: no alert.
TrackerFails(t) ==
    /\ useRedis
    /\ Fails
    /\ \/ /\ pc[t] = "idle"
          /\ Len(blocked) < MaxBlocks
          /\ \E n \in 0 .. 2 : CountBlock(n)
          /\ UNCHANGED <<taskVars, cooldown>>
       \/ pc[t] = "read" /\ Return(t) /\ UNCHANGED <<burst, blocked, cooldown>>
       \/ /\ pc[t] = "claim"
          /\ cooldown' \in {cooldown, IF Cooling THEN cooldown ELSE now + Cooldown}
          /\ Return(t)
          /\ UNCHANGED <<burst, blocked>>
    /\ UNCHANGED <<useRedis, now, alerts>>

\* The replica dies, with its handler.
Die(t) ==
    /\ pc[t] # "idle"
    /\ Fails
    /\ Return(t)
    /\ UNCHANGED <<useRedis, now, burst, cooldown, alerts, blocked>>

-----------------------------------------------------------------------------
\* _post_webhook: one attempt.
Post(i) ==
    /\ alerts[i].post = "under way"
    /\ \E outcome \in {"delivered", "failed"} :
          alerts' = [alerts EXCEPT ![i].post = outcome]
    /\ UNCHANGED <<useRedis, now, burst, cooldown, taskVars, blocked, failures>>

TaskNext(t) ==
    \/ BlockInMemory(t)
    \/ Block(t) \/ ReadCounts(t) \/ Claim(t) \/ ClaimTwice(t) \/ Send(t)
    \/ TrackerFails(t) \/ Die(t)

Next == Tick \/ (\E t \in Tasks : TaskNext(t)) \/ (\E i \in DOMAIN alerts : Post(i))

Spec == Init /\ [][Next]_vars

-----------------------------------------------------------------------------
(* Properties *)

\* "makes exactly one replica's SET succeed, so only that one gets to return a
\* decision" (RedisAlertTracker): whatever fails, alerts are claimed a cooldown
\* apart, those that are still to be sent included.
OneAlertPerCooldown ==
    LET Apart(s, u) == s + Cooldown <= u \/ u + Cooldown <= s
        sending == {t \in Tasks : pc[t] = "send"}
    IN  /\ \A i, j \in DOMAIN alerts : i # j => Apart(alerts[i].claimed, alerts[j].claimed)
        /\ \A t \in sending :
              /\ \A i \in DOMAIN alerts : Apart(counts[t].claimed, alerts[i].claimed)
              /\ \A u \in sending : u # t => Apart(counts[t].claimed, counts[u].claimed)

\* "If blocks continue past the cooldown, the next one that crosses the
\* threshold ... fires a fresh alert" (AlertTracker): when as many blocks as the
\* threshold are counted and all handlers are done, an alert is sent whose
\* cooldown the last block fell into.  A lost answer can silence a burst.
BurstAlerted ==
    /\ failures = 0 /\ \A t \in Tasks : pc[t] = "idle"
    /\ Count >= Threshold
    => \E i \in DOMAIN alerts : \A j \in DOMAIN blocked :
          blocked[j] < alerts[i].claimed + Cooldown

\* So many blocks were there at a time: in memory, all in a stretch as long as
\* the window; in Redis, where each block prolongs the window although it is to
\* count "Same ... as AlertTracker", in a row without a gap of that length.
Burst(inRedis, blocks, total, at) ==
    \E last \in DOMAIN blocks :
        LET first == last - total + 1
        IN  /\ first >= 1
            /\ blocks[last] <= at
            /\ IF inRedis
               THEN /\ at < blocks[last] + Window
                    /\ \A j \in first .. last - 1 : blocks[j + 1] < blocks[j] + Window
               ELSE \A j \in first .. last : at < blocks[j] + Window

\* An alert says the truth: as many blocks as it tells, and at least the
\* threshold, were there when they were counted.
AlertMeansBurst ==
    failures = 0 => \A i \in DOMAIN alerts :
        /\ alerts[i].total >= Threshold
        /\ Burst(useRedis, blocked, alerts[i].total, alerts[i].at)

=============================================================================
