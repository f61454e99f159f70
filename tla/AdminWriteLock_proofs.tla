------------------------ MODULE AdminWriteLock_proofs -------------------------
(***************************************************************************)
(* Proofs about AdminWriteLock, for any number of tasks and replicas:      *)
(* whoever is in the body of the `async with' owns the lock, and the code  *)
(* implements WriteMutex.                                                  *)
(*                                                                         *)
(* With Redis the first is inductive as it stands.  In one process it      *)
(* needs to be known of the asyncio.Lock as well that its holder is in the *)
(* body, that its waiters wait, each once, and that both are tasks of that *)
(* process.                                                                *)
(***************************************************************************)
EXTENDS AdminWriteLock, SequenceTheorems, TLAPS

\* With Redis: who is in the body has its token on the key, unless that expired.
RedisInv == useRedis => \A t \in Held \ overrun : redisKey = t

\* The waiters of an asyncio.Lock.
QueueInv(r) ==
    LET q == localQueue[r] IN
    /\ \A i \in 1 .. Len(q) : phase[q[i]] = "waiting" /\ ReplicaOf[q[i]] = r
    /\ \A i, j \in 1 .. Len(q) : q[i] = q[j] => i = j

LocalInv ==
    ~useRedis =>
        /\ redisKey = NoTask
        /\ overrun = {}
        /\ \A t \in Held : localHolder[ReplicaOf[t]] = t
        /\ \A r \in Replicas : localHolder[r] # NoTask =>
              localHolder[r] \in Held /\ ReplicaOf[localHolder[r]] = r
        /\ \A r \in Replicas : QueueInv(r)

Inv == TypeOK /\ RedisInv /\ LocalInv

-----------------------------------------------------------------------------
(* Sequences *)

\* A waiter that gives up leaves the others in the queue.
LEMMA RemoveAtFacts ==
    ASSUME NEW S, NEW q \in Seq(S), NEW i \in 1 .. Len(q)
    PROVE  /\ RemoveAt(q, i) \in Seq(S)
           /\ Len(RemoveAt(q, i)) = Len(q) - 1
           /\ \A j \in 1 .. Len(q) - 1 : RemoveAt(q, i)[j] = IF j < i THEN q[j] ELSE q[j + 1]
<1> DEFINE front == SubSeq(q, 1, i - 1)
           back == SubSeq(q, i + 1, Len(q))
<1>0. Len(q) \in Nat
  BY LenProperties
<1>1. /\ front \in Seq(S) /\ Len(front) = i - 1
      /\ \A j \in 1 .. i - 1 : front[j] = q[j]
  BY <1>0, SMTT(30)
<1>2. /\ back \in Seq(S) /\ Len(back) = Len(q) - i
      /\ \A j \in 1 .. Len(q) - i : back[j] = q[j + i]
  BY <1>0, SMTT(30)
<1>3. RemoveAt(q, i) = front \o back
  BY DEF RemoveAt
<1> HIDE DEF front, back
<1>4. /\ front \o back \in Seq(S)
      /\ Len(front \o back) = Len(front) + Len(back)
      /\ \A j \in 1 .. Len(front) + Len(back) :
            (front \o back)[j] = IF j <= Len(front) THEN front[j] ELSE back[j - Len(front)]
  BY <1>1, <1>2, ConcatProperties
<1>5. Len(front) + Len(back) = Len(q) - 1
  BY <1>0, <1>1, <1>2
<1>6. ASSUME NEW j \in 1 .. Len(q) - 1
      PROVE  RemoveAt(q, i)[j] = IF j < i THEN q[j] ELSE q[j + 1]
  <2>1. RemoveAt(q, i)[j] = IF j <= Len(front) THEN front[j] ELSE back[j - Len(front)]
    BY <1>3, <1>4, <1>5
  <2>2. CASE j < i
    BY <1>0, <1>1, <2>1, <2>2
  <2>3. CASE ~(j < i)
    <3>1. j - (i - 1) \in 1 .. Len(q) - i /\ j - (i - 1) + i = j + 1
      BY <1>0, <2>3
    <3>2. back[j - (i - 1)] = q[j + 1]
      BY <1>2, <3>1
    <3>3. QED
      BY <1>0, <1>1, <2>1, <2>3, <3>2
  <2>4. QED
    BY <2>2, <2>3
<1>7. QED
  BY <1>3, <1>4, <1>5, <1>6

-----------------------------------------------------------------------------
(* Types *)

LEMMA TypeStep ==
    ASSUME TypeOK, [Next]_vars
    PROVE  TypeOK'
<1> USE DEF TypeOK, Phases
<1>1. CASE UNCHANGED vars
  BY <1>1 DEF vars, redisVars, localVars
<1>2. ASSUME NEW t \in Tasks, TaskNext(t)
      PROVE  TypeOK'
  <2>1. ReplicaOf[t] \in Replicas
    BY LockAssumption
  <2>2. CASE LocalAcquire(t)
    BY <2>1, <2>2 DEF LocalAcquire, redisVars
  <2>3. CASE LocalWait(t)
    <3>1. Append(localQueue[ReplicaOf[t]], t) \in Seq(Tasks)
      BY <2>1
    <3>2. QED
      BY <2>1, <2>3, <3>1 DEF LocalWait, redisVars
  <2>4. CASE LocalRelease(t)
    BY <2>1, <2>4 DEF LocalRelease, redisVars
  <2>5. CASE RedisWait(t) \/ RedisAcquire(t) \/ RedisTimeout(t) \/ RedisAcquireError(t)
    BY <2>5 DEF RedisWait, RedisAcquire, RedisTimeout, RedisAcquireError, redisVars, localVars
  <2>6. CASE RedisRelease(t) \/ GiveUp(t)
    BY <2>6 DEF RedisRelease, GiveUp, redisVars, localVars
  <2>7. CASE Cancel(t)
    <3>1. /\ useRedis' = useRedis /\ redisUp' = redisUp /\ overrun' = overrun
          /\ localHolder' = localHolder
          /\ phase' = [phase EXCEPT ![t] = "idle"]
          /\ redisKey' \in Tasks \cup {NoTask}
      BY <2>7 DEF Cancel
    <3>2. localQueue' \in [Replicas -> Seq(Tasks)]
      <4>1. CASE useRedis
        BY <2>7, <4>1 DEF Cancel
      <4>2. CASE ~useRedis
        <5>1. PICK i \in DOMAIN localQueue[ReplicaOf[t]] :
                localQueue' = [localQueue EXCEPT ![ReplicaOf[t]] = RemoveAt(@, i)]
          BY <2>7, <4>2 DEF Cancel
        <5>2. localQueue[ReplicaOf[t]] \in Seq(Tasks) /\ i \in 1 .. Len(localQueue[ReplicaOf[t]])
          BY <2>1
        <5>3. RemoveAt(localQueue[ReplicaOf[t]], i) \in Seq(Tasks)
          BY <5>2, RemoveAtFacts
        <5>4. QED
          BY <5>1, <5>3
      <4>3. QED
        BY <4>1, <4>2
    <3>3. QED
      BY <3>1, <3>2
  <2>8. QED
    BY <1>2, <2>2, <2>3, <2>4, <2>5, <2>6, <2>7 DEF TaskNext
<1>3. ASSUME NEW r \in Replicas, LocalGrant(r)
      PROVE  TypeOK'
  <2>1. localQueue[r] \in Seq(Tasks) /\ localQueue[r] # <<>>
    BY <1>3 DEF LocalGrant
  <2>2. Head(localQueue[r]) \in Tasks /\ Tail(localQueue[r]) \in Seq(Tasks)
    BY <2>1
  <2>3. QED
    BY <1>3, <2>2 DEF LocalGrant, redisVars
<1>4. ASSUME NEW r \in Replicas, Crash(r)
      PROVE  TypeOK'
  <2>1. <<>> \in Seq(Tasks)
    BY EmptySeq
  <2>2. QED
    BY <1>4, <2>1 DEF Crash
<1>5. CASE RedisExpire \/ RedisFails \/ RedisRecovers
  BY <1>5 DEF RedisExpire, RedisFails, RedisRecovers, localVars
<1>6. QED
  BY <1>1, <1>2, <1>3, <1>4, <1>5 DEF Next

-----------------------------------------------------------------------------
(* The asyncio.Lock *)

\* A queue that does not change, and whose tasks go on waiting.
LEMMA QueueKept ==
    ASSUME TypeOK, NEW r \in Replicas, QueueInv(r), localQueue'[r] = localQueue[r],
           \A u \in Tasks : phase[u] = "waiting" /\ ReplicaOf[u] = r => phase'[u] = "waiting"
    PROVE  QueueInv(r)'
<1> DEFINE q == localQueue[r]
<1>1. q \in Seq(Tasks)
  BY DEF TypeOK
<1>2. \A i \in 1 .. Len(q) : q[i] \in Tasks
  BY <1>1, ElementOfSeq
<1>3. QED
  BY <1>2 DEF QueueInv

LEMMA QueueStep ==
    ASSUME TypeOK, LocalInv, ~useRedis, [Next]_vars, NEW r \in Replicas
    PROVE  QueueInv(r)'
<1> DEFINE q == localQueue[r]
<1>1. QueueInv(r) /\ q \in Seq(Tasks)
  BY DEF LocalInv, TypeOK
<1>2. Len(q) \in Nat /\ \A i \in 1 .. Len(q) : q[i] \in Tasks
  BY <1>1, LenProperties, ElementOfSeq
<1>3. CASE UNCHANGED vars \/ RedisExpire \/ RedisFails \/ RedisRecovers
  BY <1>1, <1>3, QueueKept DEF vars, redisVars, localVars, RedisExpire, RedisFails, RedisRecovers
<1>4. ASSUME NEW t \in Tasks, TaskNext(t)
      PROVE  QueueInv(r)'
  <2>1. ReplicaOf[t] \in Replicas
    BY LockAssumption
  <2>2. CASE LocalAcquire(t) \/ LocalRelease(t) \/ GiveUp(t)
    <3>1. phase[t] # "waiting" /\ localQueue' = localQueue
      BY <2>2 DEF LocalAcquire, LocalRelease, GiveUp, localVars
    <3>2. \A u \in Tasks : u # t => phase'[u] = phase[u]
      BY <2>2 DEF LocalAcquire, LocalRelease, GiveUp, TypeOK
    <3>3. QED
      BY <1>1, <3>1, <3>2, QueueKept
  <2>3. CASE LocalWait(t)
    <3>1. phase[t] = "idle" /\ phase' = [phase EXCEPT ![t] = "waiting"]
      BY <2>3 DEF LocalWait
    <3>2. CASE r # ReplicaOf[t]
      <4>1. localQueue'[r] = localQueue[r]
        BY <2>3, <3>2 DEF LocalWait, TypeOK
      <4>2. QED
        BY <1>1, <3>1, <4>1, QueueKept DEF TypeOK
    <3>3. CASE r = ReplicaOf[t]
      <4>1. localQueue'[r] = Append(q, t)
        BY <2>3, <3>3 DEF LocalWait, TypeOK
      <4>2. /\ Len(localQueue'[r]) = Len(q) + 1
            /\ localQueue'[r][Len(q) + 1] = t
            /\ \A i \in 1 .. Len(q) : localQueue'[r][i] = q[i]
        BY <1>1, <4>1, AppendProperties
      <4>3. \A i \in 1 .. Len(q) : /\ q[i] # t
                                   /\ phase'[q[i]] = "waiting" /\ ReplicaOf[q[i]] = r
        BY <1>1, <1>2, <3>1 DEF QueueInv, TypeOK
      <4>4. phase'[t] = "waiting"
        BY <3>1 DEF TypeOK
      <4>5. \A i \in 1 .. Len(q) + 1 : i \in 1 .. Len(q) \/ i = Len(q) + 1
        BY <1>2
      <4>6. QED
        <5> DEFINE q2 == localQueue'[r]
        <5>1. \A i \in 1 .. Len(q) + 1 : phase'[q2[i]] = "waiting" /\ ReplicaOf[q2[i]] = r
          <6> TAKE i \in 1 .. Len(q) + 1
          <6>1. CASE i \in 1 .. Len(q)
            BY <4>2, <4>3, <6>1
          <6>2. CASE i = Len(q) + 1
            <7>1. q2[i] = t
              BY <4>2, <6>2
            <7>2. QED
              BY <3>3, <4>4, <7>1
          <6>3. QED
            BY <4>5, <6>1, <6>2
        <5>2. \A i, j \in 1 .. Len(q) : q[i] = q[j] => i = j
          BY <1>1 DEF QueueInv
        <5>3. \A i, j \in 1 .. Len(q) + 1 : q2[i] = q2[j] => i = j
          BY <4>2, <4>3, <4>5, <5>2
        <5>4. QED
          BY <4>2, <5>1, <5>3 DEF QueueInv
    <3>4. QED
      BY <3>2, <3>3
  <2>4. CASE Cancel(t)
    <3>1. phase' = [phase EXCEPT ![t] = "idle"]
      BY <2>4 DEF Cancel
    <3>2. PICK i \in DOMAIN localQueue[ReplicaOf[t]] :
              /\ localQueue[ReplicaOf[t]][i] = t
              /\ localQueue' = [localQueue EXCEPT ![ReplicaOf[t]] = RemoveAt(@, i)]
      BY <2>4 DEF Cancel
    <3>3. CASE r # ReplicaOf[t]
      <4>1. localQueue'[r] = localQueue[r]
        BY <3>2, <3>3 DEF TypeOK
      <4>2. QED
        BY <1>1, <3>1, <3>3, <4>1, QueueKept DEF TypeOK
    <3>4. CASE r = ReplicaOf[t]
      <4>1. i \in 1 .. Len(q) /\ q[i] = t /\ localQueue'[r] = RemoveAt(q, i)
        BY <1>1, <3>2, <3>4 DEF TypeOK
      <4>2. /\ Len(localQueue'[r]) = Len(q) - 1
            /\ \A j \in 1 .. Len(q) - 1 :
                  localQueue'[r][j] = IF j < i THEN q[j] ELSE q[j + 1]
        BY <1>1, <4>1, RemoveAtFacts
      <4> DEFINE place(j) == IF j < i THEN j ELSE j + 1
      <4>3. \A j \in 1 .. Len(q) - 1 : /\ place(j) \in 1 .. Len(q) /\ place(j) # i
                                       /\ localQueue'[r][j] = q[place(j)]
        BY <1>2, <4>1, <4>2
      <4>4. \A j, k \in 1 .. Len(q) - 1 : place(j) = place(k) => j = k
        BY <1>2, <4>1
      <4> HIDE DEF place
      <4>5. \A j \in 1 .. Len(q) - 1 : q[place(j)] # t
        BY <1>1, <4>1, <4>3 DEF QueueInv
      <4>6. \A j \in 1 .. Len(q) - 1 :
               phase'[localQueue'[r][j]] = "waiting" /\ ReplicaOf[localQueue'[r][j]] = r
        <5>1. \A k \in 1 .. Len(q) : q[k] # t => phase'[q[k]] = "waiting" /\ ReplicaOf[q[k]] = r
          BY <1>1, <1>2, <3>1 DEF QueueInv, TypeOK
        <5>2. QED
          BY <4>3, <4>5, <5>1
      <4>7. \A j, k \in 1 .. Len(q) - 1 : localQueue'[r][j] = localQueue'[r][k] => j = k
        <5>1. \A j, k \in 1 .. Len(q) : q[j] = q[k] => j = k
          BY <1>1 DEF QueueInv
        <5>2. QED
          BY <4>3, <4>4, <5>1
      <4>8. QED
        BY <4>2, <4>6, <4>7 DEF QueueInv
    <3>5. QED
      BY <3>3, <3>4
  <2>5. QED
    BY <1>4, <2>2, <2>3, <2>4 DEF TaskNext, RedisWait, RedisAcquire, RedisTimeout,
       RedisAcquireError, RedisRelease
<1>5. ASSUME NEW s \in Replicas, LocalGrant(s)
      PROVE  QueueInv(r)'
  <2> DEFINE t == Head(localQueue[s])
  <2>1. /\ phase' = [phase EXCEPT ![t] = "held"]
        /\ localQueue' = [localQueue EXCEPT ![s] = Tail(@)]
        /\ localQueue[s] # <<>>
    BY <1>5 DEF LocalGrant
  <2>2. localQueue[s] \in Seq(Tasks) /\ QueueInv(s)
    BY DEF TypeOK, LocalInv
  <2>3. 1 \in 1 .. Len(localQueue[s]) /\ t = localQueue[s][1] /\ t \in Tasks
    BY <2>1, <2>2
  <2>4. ReplicaOf[t] = s
    BY <2>2, <2>3 DEF QueueInv
  <2> HIDE DEF t
  <2>5. CASE r # s
    <3>1. localQueue'[r] = localQueue[r]
      BY <2>1, <2>5 DEF TypeOK
    <3>2. QED
      BY <1>1, <2>1, <2>4, <2>5, <3>1, QueueKept DEF TypeOK
  <2>6. CASE r = s
    <3>1. localQueue'[r] = Tail(q) /\ q # <<>>
      BY <2>1, <2>6 DEF TypeOK
    <3>2. /\ Len(localQueue'[r]) = Len(q) - 1
          /\ \A i \in 1 .. Len(q) - 1 : localQueue'[r][i] = q[i + 1]
      BY <1>1, <3>1, HeadTailProperties
    <3>3. \A i \in 1 .. Len(q) - 1 : i + 1 \in 1 .. Len(q) /\ i + 1 # 1
      BY <1>2
    <3>4. \A i \in 1 .. Len(q) - 1 : q[i + 1] # t
      BY <1>1, <2>3, <2>6, <3>3 DEF QueueInv
    <3>5. \A i \in 1 .. Len(q) - 1 :
             phase'[localQueue'[r][i]] = "waiting" /\ ReplicaOf[localQueue'[r][i]] = r
      BY <1>1, <1>2, <2>1, <3>2, <3>3, <3>4 DEF QueueInv, TypeOK
    <3>6. ASSUME NEW i \in 1 .. Len(q) - 1, NEW j \in 1 .. Len(q) - 1,
                 localQueue'[r][i] = localQueue'[r][j]
          PROVE  i = j
      <4>1. i + 1 = j + 1
        BY <1>1, <3>2, <3>3, <3>6 DEF QueueInv
      <4>2. QED
        BY <4>1
    <3>7. QED
      BY <3>2, <3>5, <3>6 DEF QueueInv
  <2>7. QED
    BY <2>5, <2>6
<1>6. ASSUME NEW s \in Replicas, Crash(s)
      PROVE  QueueInv(r)'
  <2>1. CASE r = s
    <3>1. localQueue'[r] = <<>>
      BY <1>6, <2>1 DEF Crash, TypeOK
    <3>2. Len(localQueue'[r]) = 0
      BY <3>1
    <3>3. QED
      BY <3>2 DEF QueueInv
  <2>2. CASE r # s
    <3>1. localQueue'[r] = localQueue[r]
      BY <1>6, <2>2 DEF Crash, TypeOK
    <3>2. \A u \in Tasks : ReplicaOf[u] = r => phase'[u] = phase[u]
      BY <1>6, <2>2 DEF Crash
    <3>3. QED
      BY <1>1, <3>1, <3>2, QueueKept
  <2>3. QED
    BY <2>1, <2>2
<1>7. QED
  BY <1>3, <1>4, <1>5, <1>6 DEF Next

\* The next in the queue.
LEMMA HeadWaits ==
    ASSUME TypeOK, LocalInv, ~useRedis, NEW r \in Replicas, localQueue[r] # <<>>
    PROVE  /\ Head(localQueue[r]) \in Tasks
           /\ phase[Head(localQueue[r])] = "waiting"
           /\ ReplicaOf[Head(localQueue[r])] = r
<1>1. localQueue[r] \in Seq(Tasks) /\ QueueInv(r)
  BY DEF TypeOK, LocalInv
<1>2. 1 \in 1 .. Len(localQueue[r]) /\ Head(localQueue[r]) = localQueue[r][1]
  BY <1>1
<1>3. QED
  BY <1>1, <1>2, ElementOfSeq DEF QueueInv

\* The holder of an asyncio.Lock is in the body, and nobody else of its process.
HolderInv ==
    /\ redisKey = NoTask
    /\ overrun = {}
    /\ \A t \in Held : localHolder[ReplicaOf[t]] = t
    /\ \A r \in Replicas : localHolder[r] # NoTask =>
          localHolder[r] \in Held /\ ReplicaOf[localHolder[r]] = r

LEMMA HolderStep ==
    ASSUME TypeOK, LocalInv, ~useRedis, [Next]_vars
    PROVE  HolderInv'
<1>0. HolderInv
  BY DEF LocalInv, HolderInv
<1> USE DEF HolderInv, Held
<1>1. CASE UNCHANGED vars \/ RedisExpire \/ RedisFails \/ RedisRecovers
  BY <1>0, <1>1 DEF vars, redisVars, localVars, RedisExpire, RedisFails, RedisRecovers
<1>2. ASSUME NEW t \in Tasks, TaskNext(t)
      PROVE  HolderInv'
  <2>1. ReplicaOf[t] \in Replicas /\ t # NoTask
    BY LockAssumption
  <2>2. CASE LocalAcquire(t)
    <3>1. /\ phase' = [phase EXCEPT ![t] = "held"]
          /\ localHolder' = [localHolder EXCEPT ![ReplicaOf[t]] = t]
          /\ localHolder[ReplicaOf[t]] = NoTask
          /\ UNCHANGED redisVars
      BY <2>2 DEF LocalAcquire
    <3>2. QED
      BY <1>0, <2>1, <3>1, LockAssumption DEF redisVars, TypeOK
  <2>3. CASE LocalRelease(t)
    <3>1. /\ phase' = [phase EXCEPT ![t] = "idle"]
          /\ localHolder' = [localHolder EXCEPT ![ReplicaOf[t]] = NoTask]
          /\ phase[t] = "held"
          /\ UNCHANGED redisVars
      BY <2>3 DEF LocalRelease
    <3>2. QED
      BY <1>0, <2>1, <3>1, LockAssumption DEF redisVars, TypeOK
  <2>4. CASE LocalWait(t) \/ GiveUp(t) \/ Cancel(t)
    <3>1. /\ phase' \in {[phase EXCEPT ![t] = "idle"], [phase EXCEPT ![t] = "waiting"]}
          /\ phase[t] # "held"
          /\ localHolder' = localHolder
          /\ redisKey' = redisKey /\ overrun' = overrun
      BY <2>4 DEF LocalWait, GiveUp, Cancel, redisVars, localVars
    <3>2. QED
      BY <1>0, <3>1 DEF TypeOK
  <2>5. QED
    BY <1>2, <2>2, <2>3, <2>4 DEF TaskNext, RedisWait, RedisAcquire, RedisTimeout,
       RedisAcquireError, RedisRelease
<1>3. ASSUME NEW r \in Replicas, LocalGrant(r)
      PROVE  HolderInv'
  <2> DEFINE t == Head(localQueue[r])
  <2>1. t \in Tasks /\ phase[t] = "waiting" /\ ReplicaOf[t] = r /\ t # NoTask
    BY <1>3, HeadWaits, LockAssumption DEF LocalGrant
  <2>2. /\ phase' = [phase EXCEPT ![t] = "held"]
        /\ localHolder' = [localHolder EXCEPT ![r] = t]
        /\ localHolder[r] = NoTask
        /\ UNCHANGED redisVars
    BY <1>3 DEF LocalGrant
  <2> HIDE DEF t
  <2>3. QED
    BY <1>0, <2>1, <2>2, LockAssumption DEF redisVars, TypeOK
<1>4. ASSUME NEW r \in Replicas, Crash(r)
      PROVE  HolderInv'
  <2>1. /\ phase' = [t \in Tasks |-> IF ReplicaOf[t] = r THEN "idle" ELSE phase[t]]
        /\ localHolder' = [localHolder EXCEPT ![r] = NoTask]
        /\ redisKey' = redisKey /\ overrun' \subseteq overrun
    BY <1>4 DEF Crash
  <2>2. \A t \in Tasks : phase'[t] = "held" <=> phase[t] = "held" /\ ReplicaOf[t] # r
    BY <2>1
  <2>3. \A s \in Replicas : localHolder'[s] = IF s = r THEN NoTask ELSE localHolder[s]
    BY <2>1 DEF TypeOK
  <2>4. QED
    BY <1>0, <2>1, <2>2, <2>3, LockAssumption
<1>5. QED
  BY <1>1, <1>2, <1>3, <1>4 DEF Next

LEMMA ModeFixed ==
    ASSUME [Next]_vars
    PROVE  useRedis' = useRedis
BY DEF Next, vars, redisVars, localVars, TaskNext, LocalAcquire, LocalWait, LocalRelease, RedisWait,
   RedisAcquire, RedisTimeout, RedisAcquireError, RedisRelease, GiveUp, Cancel, LocalGrant, Crash,
   RedisExpire, RedisFails, RedisRecovers

LEMMA LocalStep ==
    ASSUME TypeOK, LocalInv, [Next]_vars
    PROVE  LocalInv'
BY HolderStep, QueueStep, ModeFixed DEF LocalInv, HolderInv

-----------------------------------------------------------------------------
(* The Redis lock *)

LEMMA RedisStep ==
    ASSUME TypeOK, RedisInv, [Next]_vars
    PROVE  RedisInv'
<1> SUFFICES ASSUME useRedis
             PROVE  \A t \in (Held \ overrun)' : redisKey' = t
  BY ModeFixed DEF RedisInv
<1>0. \A t \in Tasks : phase[t] = "held" /\ t \notin overrun => redisKey = t
  BY DEF RedisInv, Held
<1> USE DEF Held
<1>1. CASE UNCHANGED vars \/ RedisFails \/ RedisRecovers
  BY <1>0, <1>1 DEF vars, redisVars, RedisFails, RedisRecovers
<1>2. CASE RedisExpire
  BY <1>0, <1>2 DEF RedisExpire
<1>3. ASSUME NEW t \in Tasks, TaskNext(t)
      PROVE  \A u \in (Held \ overrun)' : redisKey' = u
  <2>0. t # NoTask
    BY LockAssumption
  <2>1. CASE RedisAcquire(t)
    <3>1. /\ redisKey = NoTask /\ redisKey' = t /\ overrun' = overrun
          /\ phase' = [phase EXCEPT ![t] = "held"]
      BY <2>1 DEF RedisAcquire
    <3>2. \A u \in Tasks : phase[u] = "held" => u \in overrun
      BY <1>0, <3>1, LockAssumption
    <3>3. QED
      BY <3>1, <3>2 DEF TypeOK
  <2>2. CASE RedisRelease(t)
    <3>1. /\ phase[t] = "held" /\ overrun' = overrun \ {t}
          /\ phase' = [phase EXCEPT ![t] = "idle"]
          /\ redisKey' \in {redisKey, IF redisKey = t THEN NoTask ELSE redisKey}
      BY <2>2 DEF RedisRelease
    <3>2. \A u \in (Held \ overrun)' : u \in Tasks /\ u # t /\ phase[u] = "held" /\ u \notin overrun
      BY <3>1 DEF TypeOK
    <3>3. \A u \in (Held \ overrun)' : redisKey = u /\ u # t
      BY <1>0, <3>2
    <3>4. QED
      BY <3>1, <3>3
  <2>3. CASE RedisWait(t) \/ RedisTimeout(t) \/ RedisAcquireError(t) \/ GiveUp(t) \/ Cancel(t)
    <3>1. /\ phase[t] # "held" /\ overrun' = overrun
          /\ \E step \in Phases \ {"held"} : phase' = [phase EXCEPT ![t] = step]
      BY <2>3 DEF RedisWait, RedisTimeout, RedisAcquireError, GiveUp, Cancel, redisVars, Phases
    <3>2. redisKey' \in {redisKey, IF redisKey = NoTask THEN t ELSE redisKey}
      BY <2>3 DEF RedisWait, RedisTimeout, RedisAcquireError, GiveUp, Cancel, redisVars
    <3>3. \A u \in (Held \ overrun)' : u \in Tasks /\ phase[u] = "held" /\ u \notin overrun
      BY <3>1 DEF TypeOK, Phases
    <3>4. \A u \in (Held \ overrun)' : redisKey = u /\ redisKey # NoTask
      BY <1>0, <3>3, LockAssumption
    <3>5. QED
      BY <3>2, <3>4
  <2>4. QED
    BY <1>3, <2>1, <2>2, <2>3 DEF TaskNext, LocalAcquire, LocalWait, LocalRelease
<1>4. ASSUME NEW r \in Replicas, LocalGrant(r) \/ Crash(r)
      PROVE  \A u \in (Held \ overrun)' : redisKey' = u
  <2>1. CASE LocalGrant(r)
    BY <2>1 DEF LocalGrant
  <2>2. CASE Crash(r)
    <3>1. /\ phase' = [t \in Tasks |-> IF ReplicaOf[t] = r THEN "idle" ELSE phase[t]]
          /\ redisKey' = redisKey
          /\ overrun' = {t \in overrun : ReplicaOf[t] # r}
      BY <2>2 DEF Crash
    <3>2. \A u \in (Held \ overrun)' : u \in Tasks /\ phase[u] = "held" /\ u \notin overrun
      BY <3>1
    <3>3. QED
      BY <1>0, <3>1, <3>2
  <2>3. QED
    BY <1>4, <2>1, <2>2
<1>5. QED
  BY <1>1, <1>2, <1>3, <1>4 DEF Next

LEMMA InvInit ==
    ASSUME Init
    PROVE  Inv
<1>1. TypeOK
  BY EmptySeq DEF Init, TypeOK, Phases
<1>2. RedisInv
  BY DEF Init, RedisInv, Held
<1>3. LocalInv
  <2>1. Len(<<>>) = 0
    OBVIOUS
  <2>2. \A r \in Replicas : QueueInv(r)
    BY <2>1 DEF Init, QueueInv
  <2>3. QED
    BY <2>2 DEF Init, LocalInv, Held
<1>4. QED
  BY <1>1, <1>2, <1>3 DEF Inv

LEMMA Invariance == Spec => []Inv
<1>1. Inv /\ [Next]_vars => Inv'
  BY TypeStep, RedisStep, LocalStep DEF Inv
<1>2. QED
  BY <1>1, InvInit, PTL DEF Spec

\* The lock is held, waited for and released by tasks only, each where it is
\* meant to be in the `async with'.
THEOREM TypeCorrect == Spec => []TypeOK
BY Invariance, PTL DEF Inv

\* Whoever is in the body of the `async with' owns the lock, unless its own key
\* has expired: a release never frees somebody else's lock, and no lost answer,
\* cancellation or crash lets two tasks in.
THEOREM Exclusive == Spec => []MutualExclusion
<1>1. Inv => MutualExclusion
  BY LockAssumption DEF Inv, RedisInv, LocalInv, MutualExclusion, Owner
<1>2. QED
  BY <1>1, Invariance, PTL

-----------------------------------------------------------------------------
(* The lock of each replica implements WriteMutex *)

\* Some tasks leave the body.
LEMMA LeaveStep ==
    ASSUME NEW r \in Replicas, NEW T, T \subseteq Inside(r), T # {},
           Inside(r)' = Inside(r) \ T,
           \/ Owner(r)' = Owner(r)
           \/ Owner(r) \in T /\ Owner(r)' = NoTask
    PROVE  Mutex(r)!Next
<1>1. Mutex(r)!Leave(T)
  BY DEF Mutex!Leave
<1>2. QED
  BY <1>1 DEF Mutex!Next

\* A task that is not in the body takes the lock, and goes in or does not know.
LEMMA TakeStep ==
    ASSUME NEW r \in Replicas, NEW t \in Tasks, t \notin Inside(r),
           Owner(r) = NoTask, Owner(r)' = t,
           Inside(r)' = Inside(r) \cup {t} \/ Inside(r)' = Inside(r)
    PROVE  Mutex(r)!Next
<1>1. Mutex(r)!Enter(t) \/ Mutex(r)!Orphan(t)
  BY DEF Mutex!Enter, Mutex!Orphan
<1>2. QED
  BY <1>1 DEF Mutex!Next

LEMMA StillStep ==
    ASSUME NEW r \in Replicas, Owner(r)' = Owner(r), Inside(r)' = Inside(r)
    PROVE  UNCHANGED Mutex(r)!vars
BY DEF Mutex!vars

\* With Redis all replicas see one lock.
LEMMA RedisImplements ==
    ASSUME Inv, useRedis, [Next]_vars, NEW r \in Replicas
    PROVE  [Mutex(r)!Next]_(Mutex(r)!vars)
<1>0. /\ useRedis' = useRedis
      /\ Owner(r) = redisKey /\ Inside(r) = {t \in Tasks : phase[t] = "held"}
      /\ Owner(r)' = redisKey' /\ Inside(r)' = {t \in Tasks : phase'[t] = "held"}
  BY ModeFixed DEF Owner, Inside, Held
<1>1. CASE UNCHANGED vars \/ RedisFails \/ RedisRecovers
  BY <1>0, <1>1, StillStep DEF vars, redisVars, RedisFails, RedisRecovers
<1>2. CASE RedisExpire
  <2>1. Mutex(r)!Lapse
    BY <1>0, <1>2 DEF RedisExpire, Mutex!Lapse
  <2>2. QED
    BY <2>1 DEF Mutex!Next
<1>3. ASSUME NEW t \in Tasks, TaskNext(t)
      PROVE  [Mutex(r)!Next]_(Mutex(r)!vars)
  <2>1. CASE RedisAcquire(t)
    <3>1. /\ phase[t] = "waiting" /\ redisKey = NoTask /\ redisKey' = t
          /\ phase' = [phase EXCEPT ![t] = "held"]
      BY <2>1 DEF RedisAcquire
    <3>2. t \notin Inside(r) /\ Inside(r)' = Inside(r) \cup {t}
      BY <1>0, <3>1 DEF Inv, TypeOK
    <3>3. QED
      BY <1>0, <3>1, <3>2, TakeStep
  <2>2. CASE RedisRelease(t)
    <3>1. /\ phase[t] = "held" /\ phase' = [phase EXCEPT ![t] = "idle"]
          /\ redisKey' \in {redisKey, IF redisKey = t THEN NoTask ELSE redisKey}
      BY <2>2 DEF RedisRelease
    <3>2. {t} \subseteq Inside(r) /\ {t} # {} /\ Inside(r)' = Inside(r) \ {t}
      BY <1>0, <3>1 DEF Inv, TypeOK
    <3>3. Owner(r)' = Owner(r) \/ (Owner(r) \in {t} /\ Owner(r)' = NoTask)
      BY <1>0, <3>1
    <3>4. QED
      BY <3>2, <3>3, LeaveStep
  <2>3. CASE RedisWait(t) \/ RedisTimeout(t) \/ RedisAcquireError(t) \/ GiveUp(t) \/ Cancel(t)
    <3>1. /\ phase[t] # "held"
          /\ \E step \in Phases \ {"held"} : phase' = [phase EXCEPT ![t] = step]
      BY <2>3 DEF RedisWait, RedisTimeout, RedisAcquireError, GiveUp, Cancel, Phases
    <3>2. redisKey' = redisKey \/ (redisKey = NoTask /\ redisKey' = t)
      BY <1>0, <2>3 DEF RedisWait, RedisTimeout, RedisAcquireError, GiveUp, Cancel, redisVars
    <3>3. t \notin Inside(r) /\ Inside(r)' = Inside(r)
      BY <1>0, <3>1 DEF Inv, TypeOK, Phases
    <3>4. QED
      BY <1>0, <3>2, <3>3, TakeStep, StillStep
  <2>4. QED
    BY <1>3, <2>1, <2>2, <2>3 DEF TaskNext, LocalAcquire, LocalWait, LocalRelease
<1>4. ASSUME NEW s \in Replicas, Crash(s)
      PROVE  [Mutex(r)!Next]_(Mutex(r)!vars)
  <2> DEFINE T == {t \in Tasks : phase[t] = "held" /\ ReplicaOf[t] = s}
  <2>1. /\ phase' = [t \in Tasks |-> IF ReplicaOf[t] = s THEN "idle" ELSE phase[t]]
        /\ redisKey' = redisKey
    BY <1>4 DEF Crash
  <2>2. Inside(r)' = Inside(r) \ T /\ T \subseteq Inside(r) /\ Owner(r)' = Owner(r)
    BY <1>0, <2>1
  <2>3. CASE T = {}
    BY <2>2, <2>3, StillStep
  <2>4. CASE T # {}
    BY <2>2, <2>4, LeaveStep
  <2>5. QED
    BY <2>3, <2>4
<1>5. QED
  BY <1>1, <1>2, <1>3, <1>4 DEF Next, LocalGrant

\* Without Redis each replica has a lock of its own.
LEMMA LocalImplements ==
    ASSUME Inv, ~useRedis, [Next]_vars, NEW r \in Replicas
    PROVE  [Mutex(r)!Next]_(Mutex(r)!vars)
<1>0. /\ useRedis' = useRedis
      /\ Owner(r) = localHolder[r]
      /\ Inside(r) = {t \in Tasks : phase[t] = "held" /\ ReplicaOf[t] = r}
      /\ Owner(r)' = localHolder'[r]
      /\ Inside(r)' = {t \in Tasks : phase'[t] = "held" /\ ReplicaOf[t] = r}
  BY ModeFixed DEF Owner, Inside, Held
<1>1. redisKey = NoTask
  BY DEF Inv, LocalInv
<1>2. CASE UNCHANGED vars \/ RedisExpire \/ RedisFails \/ RedisRecovers
  BY <1>0, <1>1, <1>2, StillStep DEF vars, localVars, RedisExpire, RedisFails, RedisRecovers
<1>3. ASSUME NEW t \in Tasks, TaskNext(t)
      PROVE  [Mutex(r)!Next]_(Mutex(r)!vars)
  <2>0. ReplicaOf[t] \in Replicas
    BY LockAssumption
  <2>1. CASE LocalAcquire(t)
    <3>1. /\ phase[t] = "idle" /\ phase' = [phase EXCEPT ![t] = "held"]
          /\ localHolder[ReplicaOf[t]] = NoTask
          /\ localHolder' = [localHolder EXCEPT ![ReplicaOf[t]] = t]
      BY <2>1 DEF LocalAcquire
    <3>2. CASE ReplicaOf[t] = r
      <4>1. t \notin Inside(r) /\ Inside(r)' = Inside(r) \cup {t}
        BY <1>0, <3>1, <3>2 DEF Inv, TypeOK
      <4>2. Owner(r) = NoTask /\ Owner(r)' = t
        BY <1>0, <2>0, <3>1, <3>2 DEF Inv, TypeOK
      <4>3. QED
        BY <4>1, <4>2, TakeStep
    <3>3. CASE ReplicaOf[t] # r
      <4>1. Inside(r)' = Inside(r) /\ Owner(r)' = Owner(r)
        BY <1>0, <3>1, <3>3 DEF Inv, TypeOK
      <4>2. QED
        BY <4>1, StillStep
    <3>4. QED
      BY <3>2, <3>3
  <2>2. CASE LocalRelease(t)
    <3>1. /\ phase[t] = "held" /\ phase' = [phase EXCEPT ![t] = "idle"]
          /\ localHolder' = [localHolder EXCEPT ![ReplicaOf[t]] = NoTask]
      BY <2>2 DEF LocalRelease
    <3>2. CASE ReplicaOf[t] = r
      <4>1. {t} \subseteq Inside(r) /\ {t} # {} /\ Inside(r)' = Inside(r) \ {t}
        BY <1>0, <3>1, <3>2 DEF Inv, TypeOK
      <4>2. localHolder[r] = t
        BY <3>1, <3>2 DEF Inv, LocalInv, Held
      <4>3. Owner(r) \in {t} /\ Owner(r)' = NoTask
        BY <1>0, <2>0, <3>1, <3>2, <4>2 DEF Inv, TypeOK
      <4>4. QED
        BY <4>1, <4>3, LeaveStep
    <3>3. CASE ReplicaOf[t] # r
      <4>1. Inside(r)' = Inside(r) /\ Owner(r)' = Owner(r)
        BY <1>0, <3>1, <3>3 DEF Inv, TypeOK
      <4>2. QED
        BY <4>1, StillStep
    <3>4. QED
      BY <3>2, <3>3
  <2>3. CASE LocalWait(t) \/ GiveUp(t) \/ Cancel(t)
    <3>1. /\ phase' \in {[phase EXCEPT ![t] = "idle"], [phase EXCEPT ![t] = "waiting"]}
          /\ phase[t] # "held" /\ localHolder' = localHolder
      BY <2>3 DEF LocalWait, GiveUp, Cancel, localVars
    <3>2. Inside(r)' = Inside(r) /\ Owner(r)' = Owner(r)
      BY <1>0, <3>1 DEF Inv, TypeOK
    <3>3. QED
      BY <3>2, StillStep
  <2>4. QED
    BY <1>3, <2>1, <2>2, <2>3 DEF TaskNext, RedisWait, RedisAcquire, RedisTimeout,
       RedisAcquireError, RedisRelease
<1>4. ASSUME NEW s \in Replicas, LocalGrant(s)
      PROVE  [Mutex(r)!Next]_(Mutex(r)!vars)
  <2> DEFINE t == Head(localQueue[s])
  <2>1. t \in Tasks /\ phase[t] = "waiting" /\ ReplicaOf[t] = s
    BY <1>4, HeadWaits DEF LocalGrant, Inv
  <2>2. /\ phase' = [phase EXCEPT ![t] = "held"]
        /\ localHolder' = [localHolder EXCEPT ![s] = t]
        /\ localHolder[s] = NoTask
    BY <1>4 DEF LocalGrant
  <2> HIDE DEF t
  <2>3. CASE s = r
    <3>1. t \notin Inside(r) /\ Inside(r)' = Inside(r) \cup {t}
      BY <1>0, <2>1, <2>2, <2>3 DEF Inv, TypeOK
    <3>2. Owner(r) = NoTask /\ Owner(r)' = t
      BY <1>0, <2>2, <2>3 DEF Inv, TypeOK
    <3>3. QED
      BY <2>1, <3>1, <3>2, TakeStep
  <2>4. CASE s # r
    <3>1. Inside(r)' = Inside(r) /\ Owner(r)' = Owner(r)
      BY <1>0, <2>1, <2>2, <2>4 DEF Inv, TypeOK
    <3>2. QED
      BY <3>1, StillStep
  <2>5. QED
    BY <2>3, <2>4
<1>5. ASSUME NEW s \in Replicas, Crash(s)
      PROVE  [Mutex(r)!Next]_(Mutex(r)!vars)
  <2>1. /\ phase' = [t \in Tasks |-> IF ReplicaOf[t] = s THEN "idle" ELSE phase[t]]
        /\ localHolder' = [localHolder EXCEPT ![s] = NoTask]
    BY <1>5 DEF Crash
  <2>2. CASE s # r
    <3>1. Inside(r)' = Inside(r) /\ Owner(r)' = Owner(r)
      BY <1>0, <2>1, <2>2 DEF Inv, TypeOK
    <3>2. QED
      BY <3>1, StillStep
  <2>3. CASE s = r
    <3>1. Inside(r)' = {} /\ Owner(r)' = NoTask
      BY <1>0, <2>1, <2>3 DEF Inv, TypeOK
    <3>2. Owner(r) # NoTask => Owner(r) \in Inside(r)
      BY <1>0 DEF Inv, LocalInv, Held
    <3>3. CASE Inside(r) = {}
      BY <3>1, <3>2, <3>3, StillStep
    <3>4. CASE Inside(r) # {}
      <4>1. Inside(r)' = Inside(r) \ Inside(r)
        BY <3>1
      <4>2. Owner(r)' = Owner(r) \/ (Owner(r) \in Inside(r) /\ Owner(r)' = NoTask)
        BY <3>1, <3>2
      <4>3. QED
        BY <3>4, <4>1, <4>2, LeaveStep
    <3>5. QED
      BY <3>3, <3>4
  <2>4. QED
    BY <2>2, <2>3
<1>6. QED
  BY <1>2, <1>3, <1>4, <1>5 DEF Next

\* admin_write_lock keeps the promise the code that uses it relies on, with
\* Redis and without, through time-outs, errors, cancellations and crashes.
THEOREM Refinement == Spec => ImplementsMutex
<1>1. Init => \A r \in Replicas : Mutex(r)!Init
  BY DEF Init, Mutex!Init, Owner, Inside, Held
<1>2. Inv /\ [Next]_vars => [\A r \in Replicas : [Mutex(r)!Next]_(Mutex(r)!vars)]_vars
  BY RedisImplements, LocalImplements
<1>3. QED
  BY <1>1, <1>2, Invariance, PTL DEF Spec, ImplementsMutex

=============================================================================
