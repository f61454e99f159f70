--------------------------- MODULE AdminWriteLock ---------------------------
(***************************************************************************)
(* app/core/distributed_lock.py, admin_write_lock(name), for one name.     *)
(*                                                                         *)
(* Without REDIS_URL the lock is one asyncio.Lock per process: a holder    *)
(* and a FIFO of waiters in every replica.  With REDIS_URL it is one Redis *)
(* key, SET NX with a 10 s expiry and polled for at most 10 s; a Redis     *)
(* error or a poll that runs out raises AdminWriteLockUnavailableError.    *)
(* The release is a token-checked delete whose failure is only logged.     *)
(* A body that takes longer than the expiry goes on without its key.       *)
(***************************************************************************)
EXTENDS Naturals, FiniteSets, SequencesExt

CONSTANTS
    Tasks,      \* coroutines that execute `async with admin_write_lock(name)'
    NoTask,
    Replicas,   \* gateway processes
    ReplicaOf   \* the process each task runs in

ASSUME LockAssumption ==
    /\ NoTask \notin Tasks
    /\ ReplicaOf \in [Tasks -> Replicas]

VARIABLES
    useRedis,     \* is REDIS_URL set?
    phase,        \* where each task is in the `async with'
    redisKey,     \* the token under openbouncer:adminlock:<name>, or NoTask
    redisUp,      \* do Redis commands succeed?
    overrun,      \* the tasks in their body whose key has expired meanwhile
    localHolder,  \* per process: the task that holds the asyncio.Lock
    localQueue    \* per process: its waiters, oldest first

redisVars == <<redisKey, redisUp, overrun>>
localVars == <<localHolder, localQueue>>
vars == <<useRedis, phase, redisVars, localVars>>

Phases == {"idle", "waiting", "held", "unavailable"}

TypeOK ==
    /\ useRedis \in BOOLEAN
    /\ phase \in [Tasks -> Phases]
    /\ redisKey \in Tasks \cup {NoTask}
    /\ redisUp \in BOOLEAN
    /\ overrun \subseteq Tasks
    /\ localHolder \in [Replicas -> Tasks \cup {NoTask}]
    /\ localQueue \in [Replicas -> Seq(Tasks)]

Init ==
    /\ useRedis \in BOOLEAN
    /\ phase = [t \in Tasks |-> "idle"]
    /\ redisKey = NoTask
    /\ redisUp = TRUE
    /\ overrun = {}
    /\ localHolder = [r \in Replicas |-> NoTask]
    /\ localQueue = [r \in Replicas |-> <<>>]

-----------------------------------------------------------------------------
(* The in-process lock *)

\* Mutant of LocalAcquire: the holder is not looked at.
LocalAcquireUnchecked(t) ==
    /\ ~useRedis
    /\ phase[t] = "idle"
    /\ phase' = [phase EXCEPT ![t] = "held"]
    /\ localHolder' = [localHolder EXCEPT ![ReplicaOf[t]] = t]
    /\ UNCHANGED <<useRedis, redisVars, localQueue>>

\* Mutant of LocalAcquire: a newcomer barges in before the waiters.
LocalAcquireBarging(t) ==
    /\ localHolder[ReplicaOf[t]] = NoTask
    /\ LocalAcquireUnchecked(t)

\* asyncio.Lock.acquire: at once if the lock is free and nobody waits for it.
LocalAcquire(t) ==
    LET r == ReplicaOf[t] IN
    /\ ~useRedis
    /\ phase[t] = "idle"
    /\ localHolder[r] = NoTask
    /\ localQueue[r] = <<>>
    /\ phase' = [phase EXCEPT ![t] = "held"]
    /\ localHolder' = [localHolder EXCEPT ![r] = t]
    /\ UNCHANGED <<useRedis, redisVars, localQueue>>

\* asyncio.Lock.acquire: behind the holder and the waiters already there.
LocalWait(t) ==
    LET r == ReplicaOf[t] IN
    /\ ~useRedis
    /\ phase[t] = "idle"
    /\ localHolder[r] # NoTask \/ localQueue[r] # <<>>
    /\ phase' = [phase EXCEPT ![t] = "waiting"]
    /\ localQueue' = [localQueue EXCEPT ![r] = Append(@, t)]
    /\ UNCHANGED <<useRedis, redisVars, localHolder>>

\* The first waiter, woken by the release, runs and takes the lock.
LocalGrant(r) ==
    LET t == Head(localQueue[r]) IN
    /\ ~useRedis
    /\ localHolder[r] = NoTask
    /\ localQueue[r] # <<>>
    /\ phase' = [phase EXCEPT ![t] = "held"]
    /\ localHolder' = [localHolder EXCEPT ![r] = t]
    /\ localQueue' = [localQueue EXCEPT ![r] = Tail(@)]
    /\ UNCHANGED <<useRedis, redisVars>>

LocalRelease(t) ==
    /\ ~useRedis
    /\ phase[t] = "held"
    /\ phase' = [phase EXCEPT ![t] = "idle"]
    /\ localHolder' = [localHolder EXCEPT ![ReplicaOf[t]] = NoTask]
    /\ UNCHANGED <<useRedis, redisVars, localQueue>>

-----------------------------------------------------------------------------
(* The Redis lock *)

\* redis_lock.acquire() starts polling.
RedisWait(t) ==
    /\ useRedis
    /\ phase[t] = "idle"
    /\ phase' = [phase EXCEPT ![t] = "waiting"]
    /\ UNCHANGED <<useRedis, redisVars, localVars>>

\* Mutant of RedisAcquire: SET without NX.
RedisAcquireOverwriting(t) ==
    /\ phase[t] = "waiting"
    /\ useRedis
    /\ redisUp
    /\ redisKey' = t
    /\ phase' = [phase EXCEPT ![t] = "held"]
    /\ UNCHANGED <<useRedis, redisUp, overrun, localVars>>

\* One of the polls finds the key absent: SET NX succeeds.
RedisAcquire(t) ==
    /\ phase[t] = "waiting"
    /\ useRedis
    /\ redisUp
    /\ redisKey = NoTask
    /\ redisKey' = t
    /\ phase' = [phase EXCEPT ![t] = "held"]
    /\ UNCHANGED <<useRedis, redisUp, overrun, localVars>>

\* blocking_timeout ran out on a key somebody else holds: not acquired.
RedisTimeout(t) ==
    /\ phase[t] = "waiting"
    /\ useRedis
    /\ redisUp
    /\ redisKey # NoTask
    /\ phase' = [phase EXCEPT ![t] = "unavailable"]
    /\ UNCHANGED <<useRedis, redisVars, localVars>>

\* A RedisError out of acquire().  The connection may have broken after the
\* server applied the SET, so the key may carry the token all the same.
RedisAcquireError(t) ==
    /\ phase[t] = "waiting"
    /\ useRedis
    /\ ~redisUp
    /\ phase' = [phase EXCEPT ![t] = "unavailable"]
    /\ redisKey' \in {redisKey, IF redisKey = NoTask THEN t ELSE redisKey}
    /\ UNCHANGED <<useRedis, redisUp, overrun, localVars>>

\* The `finally': delete the key if it still carries this task's token.  A
\* RedisError or LockError is logged, and the stream of a client that went
\* away may be cancelled here: the delete may or may not have happened.
RedisRelease(t) ==
    /\ phase[t] = "held"
    /\ useRedis
    /\ phase' = [phase EXCEPT ![t] = "idle"]
    /\ redisKey' \in {redisKey, IF redisKey = t THEN NoTask ELSE redisKey}
    /\ overrun' = overrun \ {t}
    /\ UNCHANGED <<useRedis, redisUp, localVars>>

\* The key's 10 s run out, be its task still in the body or not.
RedisExpire ==
    /\ redisKey # NoTask
    /\ redisKey' = NoTask
    /\ overrun' = overrun \cup {t \in Tasks : t = redisKey /\ phase[t] = "held"}
    /\ UNCHANGED <<useRedis, phase, redisUp, localVars>>

RedisFails ==
    /\ useRedis
    /\ redisUp
    /\ redisUp' = FALSE
    /\ UNCHANGED <<useRedis, phase, redisKey, overrun, localVars>>

RedisRecovers ==
    /\ ~redisUp
    /\ redisUp' = TRUE
    /\ UNCHANGED <<useRedis, phase, redisKey, overrun, localVars>>

-----------------------------------------------------------------------------
\* AdminWriteLockUnavailableError reaches the route handler, which answers 503.
GiveUp(t) ==
    /\ phase[t] = "unavailable"
    /\ phase' = [phase EXCEPT ![t] = "idle"]
    /\ UNCHANGED <<useRedis, redisVars, localVars>>

\* A waiting task is cancelled (Starlette cancels a stream whose client went
\* away, and the guardrail-event log is appended to from inside the stream).
\* CancelledError is no RedisError: it propagates, and a SET that was under
\* way may have been applied.
Cancel(t) ==
    /\ phase[t] = "waiting"
    /\ phase' = [phase EXCEPT ![t] = "idle"]
    /\ IF useRedis
       THEN /\ redisKey' \in {redisKey, IF redisKey = NoTask THEN t ELSE redisKey}
            /\ UNCHANGED localQueue
       ELSE /\ \E i \in DOMAIN localQueue[ReplicaOf[t]] :
                  /\ localQueue[ReplicaOf[t]][i] = t
                  /\ localQueue' = [localQueue EXCEPT ![ReplicaOf[t]] = RemoveAt(@, i)]
            /\ UNCHANGED redisKey
    /\ UNCHANGED <<useRedis, redisUp, overrun, localHolder>>

\* A process dies and is started again: its coroutines and its asyncio.Lock
\* are gone, the Redis key is not.
Crash(r) ==
    /\ \E t \in Tasks : ReplicaOf[t] = r /\ phase[t] # "idle"
    /\ phase' = [t \in Tasks |-> IF ReplicaOf[t] = r THEN "idle" ELSE phase[t]]
    /\ localHolder' = [localHolder EXCEPT ![r] = NoTask]
    /\ localQueue' = [localQueue EXCEPT ![r] = <<>>]
    /\ overrun' = {t \in overrun : ReplicaOf[t] # r}
    /\ UNCHANGED <<useRedis, redisKey, redisUp>>

TaskNext(t) ==
    \/ LocalAcquire(t) \/ LocalWait(t) \/ LocalRelease(t)
    \/ RedisWait(t) \/ RedisAcquire(t) \/ RedisTimeout(t)
    \/ RedisAcquireError(t) \/ RedisRelease(t)
    \/ GiveUp(t) \/ Cancel(t)

Next ==
    \/ \E t \in Tasks : TaskNext(t)
    \/ \E r \in Replicas : LocalGrant(r) \/ Crash(r)
    \/ RedisExpire \/ RedisFails \/ RedisRecovers

Spec == Init /\ [][Next]_vars

\* redis_lock.acquire() returns, or raises, within its blocking_timeout.
RedisAnswers(t) == RedisAcquire(t) \/ RedisTimeout(t) \/ RedisAcquireError(t)

\* The body of every `async with' ends, an acquisition is answered, and the event
\* loop runs a woken waiter.
Fairness ==
    /\ \A t \in Tasks : /\ WF_vars(LocalRelease(t)) /\ WF_vars(RedisRelease(t))
                         /\ WF_vars(RedisAnswers(t))
    /\ \A r \in Replicas : WF_vars(LocalGrant(r))

FairSpec == Spec /\ Fairness

-----------------------------------------------------------------------------
(* Properties *)

Held == {t \in Tasks : phase[t] = "held"}

\* The lock as the tasks of replica r see it: without Redis it is their own.
Owner(r) == IF useRedis THEN redisKey ELSE localHolder[r]
Inside(r) == {t \in Held : useRedis \/ ReplicaOf[t] = r}

\* Whoever is in the body of the `async with' owns the lock, whatever
\* acquisitions time out, fail, are cancelled or lose their answer and whatever
\* replicas crash: the "real cross-replica mutual exclusion" of the module's
\* docstring.  Only a task whose own key has expired is there without it.
MutualExclusion == \A t \in Held \ overrun : Owner(ReplicaOf[t]) = t

\* admin_write_lock implements WriteMutex: an acquisition that failed with an
\* error may leave the key behind but never lets its task in, and a release
\* frees only the lock its own token is on.
Mutex(r) == INSTANCE WriteMutex WITH
    owner <- Owner(r), inside <- Inside(r), MayLapse <- TRUE
ImplementsMutex ==
    /\ \A r \in Replicas : Mutex(r)!Init
    /\ [][\A r \in Replicas : [Mutex(r)!Next]_(Mutex(r)!vars)]_vars

\* Nobody waits for ever: in one process every waiter's turn comes, whatever
\* newcomers do; with Redis a task gets the lock or an error.
WaiterServed ==
    \A t \in Tasks : (phase[t] = "waiting") ~> (phase[t] # "waiting")

=============================================================================
