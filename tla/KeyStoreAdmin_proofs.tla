------------------------ MODULE KeyStoreAdmin_proofs ------------------------
(***************************************************************************)
(* Proofs about KeyStoreAdmin, for any number of replicas, requests,       *)
(* worker threads and keys.                                                *)
(*                                                                         *)
(* NeverStranded is not inductive.  What keeps it is that the file a       *)
(* request has checked is still the file when it writes: a request that is *)
(* reading or writing the file still owns the lock, though one that waits  *)
(* to record its write may have lost it (LockInv); what it is about to     *)
(* write was derived from the present file (WriteInv); and every text that *)
(* can come back by a revert was the file once (PastInv), so it had a key  *)
(* with keys:write.                                                        *)
(***************************************************************************)
EXTENDS KeyStoreAdmin, SequenceTheorems, TLAPS

InLock == {"load", "persist", "audit", "clear", "release", "reverted"}

\* The lock: the steps of the body are inside; whoever is about to read or to
\* write the file owns the lock.
LockInv ==
    \A t \in Tasks :
        /\ pc[t] \in InLock <=> t \in inside
        /\ pc[t] \in {"load", "persist"} => owner = t

\* A request under way has a job; one that is going to write has a write.
JobInv ==
    \A t \in Tasks :
        /\ pc[t] # "idle" => job[t] \in Job
        /\ pc[t] \in {"persist", "audit"} => write[t] \in Write

\* The file is the last of its contents, and all of them were manageable.
HistoryInv ==
    /\ Len(history) > 0
    /\ history[Len(history)] = file
    /\ \A i \in 1 .. Len(history) : Manageable(history[i])

Past == {history[i] : i \in DOMAIN history}

\* What a revert can bring back was the file once.
PastInv ==
    /\ \A i \in 1 .. Len(audit) : audit[i].before \in Past
    /\ \A t \in Tasks : job[t] \in RevertJob => job[t].original \in Past

\* The file with at most one key changed, or an earlier file.
Allowed(new) ==
    \/ new \in Past
    \/ \E k \in Keys : \A j \in Keys \ {k} : new[j] = file[j]

\* w is a write of the file that was made at some time.
Happened(w) ==
    \E j \in 2 .. Len(history) : w.before = history[j - 1] /\ w.after = history[j]

\* What a request inside the lock knows of the file.
WriteInv ==
    \A t \in Tasks :
        /\ pc[t] = "persist" =>
              /\ write[t].before = file
              /\ Manageable(write[t].after)
              /\ Allowed(write[t].after)
        /\ pc[t] = "audit" => Happened(write[t])

IInv ==
    /\ TypeOK
    /\ LockInv
    /\ JobInv
    /\ HistoryInv
    /\ PastInv
    /\ WriteInv
    /\ EntriesAreWrites

-----------------------------------------------------------------------------
(* Edits *)

\* An edit that is not refused yields a file, changes one key, and leaves
\* somebody who can manage keys.
LEMMA EditedProperties ==
    ASSUME NEW f \in Files, NEW j \in EditJob, ~Refused(f, j)
    PROVE  /\ Edited(f, j) \in Files
           /\ \A k \in Keys \ {j.key} : Edited(f, j)[k] = f[k]
           /\ Manageable(f) => Manageable(Edited(f, j))
<1> DEFINE e == Edited(f, j)
<1>0. /\ j.key \in Keys /\ j.keys_write \in BOOLEAN /\ j.key_hash \in Nat
      /\ j.op \in Edits
      /\ j.op # "create" => f[j.key] \in APIKeyRecord
  BY DEF EditJob, Refused, Files
<1> HIDE DEF e
<1>1. \E r \in APIKeyRecord \cup {NoKey} : e = [f EXCEPT ![j.key] = r]
  <2>1. CASE j.op = "create"
    <3>1. e = [f EXCEPT ![j.key] = [key_hash |-> j.key_hash, keys_write |-> j.keys_write]]
      BY <2>1 DEF Edited, e
    <3>2. [key_hash |-> j.key_hash, keys_write |-> j.keys_write] \in APIKeyRecord
      BY <1>0 DEF APIKeyRecord
    <3>3. QED
      BY <3>1, <3>2
  <2>2. CASE j.op = "update"
    <3>1. e = [f EXCEPT ![j.key] = [f[j.key] EXCEPT !.keys_write = j.keys_write]]
      BY <2>2 DEF Edited, e
    <3>2. [f[j.key] EXCEPT !.keys_write = j.keys_write] \in APIKeyRecord
      BY <1>0, <2>2 DEF APIKeyRecord
    <3>3. QED
      BY <3>1, <3>2
  <2>3. CASE j.op = "rotate"
    <3>1. e = [f EXCEPT ![j.key] = [f[j.key] EXCEPT !.key_hash = j.key_hash]]
      BY <2>3 DEF Edited, e
    <3>2. [f[j.key] EXCEPT !.key_hash = j.key_hash] \in APIKeyRecord
      BY <1>0, <2>3 DEF APIKeyRecord
    <3>3. QED
      BY <3>1, <3>2
  <2>4. CASE j.op = "delete"
    <3>1. e = [f EXCEPT ![j.key] = NoKey]
      BY <2>4 DEF Edited, e
    <3>2. QED
      BY <3>1
  <2>5. QED
    BY <1>0, <2>1, <2>2, <2>3, <2>4 DEF Edits
<1>2. e \in Files /\ \A k \in Keys \ {j.key} : e[k] = f[k]
  BY <1>0, <1>1 DEF Files
<1>3. ASSUME Manageable(f)
      PROVE  Manageable(e)
  <2>1. PICK k \in Keys : HasKeysWrite(f, k)
    BY <1>3 DEF Manageable
  <2>2. CASE k # j.key
    BY <1>2, <2>1, <2>2 DEF Manageable, HasKeysWrite
  <2>3. CASE k = j.key
    <3>1. f[j.key] # NoKey
      BY <2>1, <2>3 DEF HasKeysWrite
    <3>2. ~Strands(f, j.key, e)
      BY <3>1 DEF Refused, e
    <3>3. HasKeysWrite(e, j.key) \/ \E i \in Keys \ {j.key} : HasKeysWrite(f, i)
      BY <2>1, <2>3, <3>2 DEF Strands
    <3>4. QED
      BY <1>0, <1>2, <3>3 DEF Manageable, HasKeysWrite
  <2>4. QED
    BY <2>2, <2>3
<1>4. QED
  BY <1>2, <1>3 DEF e

-----------------------------------------------------------------------------
(* Types *)

LEMMA PastType ==
    ASSUME TypeOK
    PROVE  Past \subseteq Files
BY DEF Past, TypeOK

\* The jobs a request can have.
LEMMA JobTypes ==
    /\ \A op \in Edits, k \in Keys, grant \in BOOLEAN, h \in Nat :
          /\ [op |-> op, key |-> k, keys_write |-> grant, key_hash |-> h] \in Job
          /\ [op |-> op, key |-> k, keys_write |-> grant, key_hash |-> h] \notin RevertJob
    /\ \A f \in Files : [op |-> "revert", original |-> f] \in RevertJob
    /\ \A j \in Job : /\ j.op = "revert" => j \in RevertJob
                      /\ j.op # "revert" => j \in EditJob
    /\ RevertJob \subseteq Job
    /\ Nothing \notin Job /\ Nothing \notin RevertJob
<1>1. \A op \in Edits, k \in Keys, grant \in BOOLEAN, h \in Nat :
          [op |-> op, key |-> k, keys_write |-> grant, key_hash |-> h] \in EditJob
  BY DEF EditJob
<1>2. \A j \in EditJob : j.op \in Edits
  BY DEF EditJob
<1>3. \A j \in RevertJob : j.op = "revert"
  BY DEF RevertJob
<1>4. \A f \in Files : [op |-> "revert", original |-> f] \in RevertJob
  BY DEF RevertJob
<1>5. "revert" \notin Edits
  BY DEF Edits
<1>6. QED
  BY <1>1, <1>2, <1>3, <1>4, <1>5, KeyStoreAssumption DEF Job

\* What a request is going to write.
LEMMA WriteType ==
    ASSUME TypeOK, JobInv, NEW t \in Tasks, Load(t)
    PROVE  /\ write'[t] \in Write
           /\ write'[t].before = file
           /\ \/ job[t] \in RevertJob /\ write'[t].after = job[t].original
              \/ /\ job[t] \in EditJob
                 /\ ~Refused(file, job[t])
                 /\ write'[t].after = Edited(file, job[t])
<1>1. job[t] \in Job /\ file \in Files
  BY DEF Load, JobInv, TypeOK
<1>2. write'[t] = [before |-> file,
                   after |-> IF job[t].op = "revert" THEN job[t].original
                                                     ELSE Edited(file, job[t])]
  BY DEF Load, TypeOK
<1>3. CASE job[t].op = "revert"
  <2>1. job[t] \in RevertJob
    BY <1>1, <1>3, JobTypes
  <2>2. job[t].original \in Files
    BY <2>1 DEF RevertJob
  <2>3. QED
    BY <1>1, <1>2, <1>3, <2>1, <2>2 DEF Write
<1>4. CASE job[t].op # "revert"
  <2>1. job[t] \in EditJob
    BY <1>1, <1>4, JobTypes
  <2>2. ~Refused(file, job[t])
    BY <2>1 DEF Load, EditJob
  <2>3. Edited(file, job[t]) \in Files
    BY <1>1, <2>1, <2>2, EditedProperties
  <2>4. QED
    BY <1>1, <1>2, <1>4, <2>1, <2>2, <2>3 DEF Write
<1>5. QED
  BY <1>3, <1>4

LEMMA MutexType ==
    ASSUME TypeOK, [Next]_vars
    PROVE  Mutex!TypeOK'
BY KeyStoreAssumption
   DEF TypeOK, Mutex!TypeOK, Next, vars, TaskNext, ThreadNext, RequestEdit, RequestRevert,
       Request, Acquire, LockUnavailable, RefuseEdit, Load, Persist, RecordEntry,
       RecordFails, ClearCache, Release, LoadKeyStore, CacheKeyStore, Crash, Expire,
       mutexVars, Mutex!Enter, GiveBack, Mutex!Leave, Mutex!Lapse

\* Everything a request keeps has its type.
LEMMA RequestType ==
    ASSUME TypeOK, JobInv, [Next]_vars
    PROVE  /\ pc' \in [Tasks -> Steps]
           /\ job' \in [Tasks -> Job \cup {Nothing}]
           /\ write' \in [Tasks -> Write \cup {Nothing}]
           /\ started' \in Nat
<1> USE DEF TypeOK
<1>1. ASSUME NEW t \in Tasks, NEW j \in Job, Request(t, j)
      PROVE  /\ pc' \in [Tasks -> Steps]
             /\ job' \in [Tasks -> Job \cup {Nothing}]
             /\ write' \in [Tasks -> Write \cup {Nothing}]
             /\ started' \in Nat
  BY <1>1 DEF Request, Steps
<1>2. ASSUME NEW t \in Tasks, TaskNext(t)
      PROVE  /\ pc' \in [Tasks -> Steps]
             /\ job' \in [Tasks -> Job \cup {Nothing}]
             /\ write' \in [Tasks -> Write \cup {Nothing}]
             /\ started' \in Nat
  <2>1. ASSUME NEW op \in Edits, NEW k \in Keys, NEW grant \in BOOLEAN,
               RequestEdit(t, op, k, grant)
        PROVE  /\ pc' \in [Tasks -> Steps]
               /\ job' \in [Tasks -> Job \cup {Nothing}]
               /\ write' \in [Tasks -> Write \cup {Nothing}]
               /\ started' \in Nat
    BY <1>1, <2>1, JobTypes DEF RequestEdit
  <2>2. ASSUME NEW i \in DOMAIN audit, RequestRevert(t, i)
        PROVE  /\ pc' \in [Tasks -> Steps]
               /\ job' \in [Tasks -> Job \cup {Nothing}]
               /\ write' \in [Tasks -> Write \cup {Nothing}]
               /\ started' \in Nat
    <3>1. audit[i] \in Write
      BY LenProperties, ElementOfSeq
    <3>2. audit[i].before \in Files
      BY <3>1 DEF Write
    <3>3. QED
      BY <1>1, <2>2, <3>2, JobTypes DEF RequestRevert
  <2>3. CASE Load(t)
    <3>1. write'[t] \in Write
      BY <2>3, WriteType
    <3>2. QED
      BY <2>3, <3>1 DEF Load, Steps
  <2>4. CASE \/ Acquire(t) \/ LockUnavailable(t) \/ RefuseEdit(t) \/ Persist(t)
             \/ RecordEntry(t) \/ RecordFails(t) \/ ClearCache(t) \/ Release(t)
    BY <2>4 DEF Acquire, LockUnavailable, RefuseEdit, Persist, RecordEntry,
       RecordFails, ClearCache, Release, Goto, Finish, Steps
  <2>5. QED
    BY <1>2, <2>1, <2>2, <2>3, <2>4 DEF TaskNext
<1>3. ASSUME NEW r \in Replicas, Crash(r)
      PROVE  /\ pc' \in [Tasks -> Steps]
             /\ job' \in [Tasks -> Job \cup {Nothing}]
             /\ write' \in [Tasks -> Write \cup {Nothing}]
             /\ started' \in Nat
  BY <1>3 DEF Crash, Steps
<1>4. CASE Expire \/ (\E th \in Threads : ThreadNext(th)) \/ UNCHANGED vars
  BY <1>4 DEF Expire, ThreadNext, LoadKeyStore, CacheKeyStore, requestVars, vars
<1>5. QED
  BY <1>2, <1>3, <1>4 DEF Next

\* The file and its history change together.
LEMMA FileStep ==
    ASSUME TypeOK, JobInv, [Next]_vars
    PROVE  \/ UNCHANGED <<file, history>>
           \/ \E t \in Tasks : /\ Persist(t)
                               /\ write[t] \in Write
                               /\ file' = write[t].after
                               /\ history' = Append(history, write[t].after)
BY DEF Next, vars, TaskNext, ThreadNext, RequestEdit, RequestRevert, Request, Acquire,
       LockUnavailable, RefuseEdit, Load, Persist, RecordEntry, RecordFails, ClearCache,
       Release, LoadKeyStore, CacheKeyStore, Crash, Expire, JobInv

\* And so does the audit log.
LEMMA AuditStep ==
    ASSUME TypeOK, JobInv, [Next]_vars
    PROVE  \/ UNCHANGED audit
           \/ \E t \in Tasks : /\ RecordEntry(t)
                               /\ write[t] \in Write
                               /\ audit' = Append(audit, write[t])
BY DEF Next, vars, TaskNext, ThreadNext, RequestEdit, RequestRevert, Request, Acquire,
       LockUnavailable, RefuseEdit, Load, Persist, RecordEntry, RecordFails, ClearCache,
       Release, LoadKeyStore, CacheKeyStore, Crash, Expire, JobInv

LEMMA FileType ==
    ASSUME TypeOK, JobInv, [Next]_vars
    PROVE  file' \in Files /\ history' \in Seq(Files) /\ audit' \in Seq(Write)
<1>1. file' \in Files /\ history' \in Seq(Files)
  <2>1. CASE UNCHANGED <<file, history>>
    BY <2>1 DEF TypeOK
  <2>2. ASSUME NEW t \in Tasks, write[t] \in Write, file' = write[t].after,
               history' = Append(history, write[t].after)
        PROVE  file' \in Files /\ history' \in Seq(Files)
    <3>1. write[t].after \in Files
      BY <2>2 DEF Write
    <3>2. QED
      BY <2>2, <3>1, AppendProperties DEF TypeOK
  <2>3. QED
    BY <2>1, <2>2, FileStep
<1>2. audit' \in Seq(Write)
  <2>1. CASE UNCHANGED audit
    BY <2>1 DEF TypeOK
  <2>2. ASSUME NEW t \in Tasks, write[t] \in Write, audit' = Append(audit, write[t])
        PROVE  audit' \in Seq(Write)
    BY <2>2, AppendProperties DEF TypeOK
  <2>3. QED
    BY <2>1, <2>2, AuditStep
<1>3. QED
  BY <1>1, <1>2

LEMMA CacheType ==
    ASSUME TypeOK, [Next]_vars
    PROVE  /\ cache' \in [Replicas -> Files \cup {Nothing}]
           /\ loading' \in [Threads -> Files \cup {Nothing}]
           /\ raced' \in [Replicas -> BOOLEAN]
<1> USE DEF TypeOK
<1>1. ASSUME NEW th \in Threads, ThreadNext(th)
      PROVE  /\ cache' \in [Replicas -> Files \cup {Nothing}]
             /\ loading' \in [Threads -> Files \cup {Nothing}]
             /\ raced' \in [Replicas -> BOOLEAN]
  <2>1. Home[th] \in Replicas /\ UNCHANGED raced
    BY <1>1, KeyStoreAssumption DEF ThreadNext, LoadKeyStore, CacheKeyStore
  <2>2. /\ \/ UNCHANGED cache
           \/ cache' = [cache EXCEPT ![Home[th]] = file]
           \/ /\ cache' = [cache EXCEPT ![Home[th]] = loading[th]]
              /\ loading[th] # Nothing
        /\ \/ UNCHANGED loading
           \/ loading' = [loading EXCEPT ![th] = file]
           \/ loading' = [loading EXCEPT ![th] = Nothing]
    BY <1>1 DEF ThreadNext, LoadKeyStore, CacheKeyStore
  <2>3. cache' \in [Replicas -> Files \cup {Nothing}]
    BY <2>1, <2>2
  <2>4. loading' \in [Threads -> Files \cup {Nothing}]
    BY <2>2
  <2>5. QED
    BY <2>1, <2>3, <2>4
<1>2. ASSUME NEW t \in Tasks, Persist(t)
      PROVE  /\ cache' \in [Replicas -> Files \cup {Nothing}]
             /\ loading' \in [Threads -> Files \cup {Nothing}]
             /\ raced' \in [Replicas -> BOOLEAN]
  <2>1. raced' = [r \in Replicas |-> raced[r] \/ IsLoading(r)]
    BY <1>2 DEF Persist
  <2>2. \A r \in Replicas : (raced[r] \/ IsLoading(r)) \in BOOLEAN
    BY Zenon
  <2>3. raced' \in [Replicas -> BOOLEAN]
    BY <2>1, <2>2, Zenon
  <2>4. QED
    BY <1>2, <2>3 DEF Persist
<1>3. ASSUME NEW t \in Tasks, ClearCache(t)
      PROVE  /\ cache' \in [Replicas -> Files \cup {Nothing}]
             /\ loading' \in [Threads -> Files \cup {Nothing}]
             /\ raced' \in [Replicas -> BOOLEAN]
  <2>1. /\ raced' = [raced EXCEPT ![Home[t]] = raced[Home[t]] /\ IsLoading(Home[t])]
        /\ cache' = [cache EXCEPT ![Home[t]] = Nothing]
        /\ UNCHANGED loading
    BY <1>3 DEF ClearCache
  <2>2. (raced[Home[t]] /\ IsLoading(Home[t])) \in BOOLEAN
    BY Zenon
  <2>3. raced' \in [Replicas -> BOOLEAN]
    BY <2>1, <2>2, Zenon
  <2>4. QED
    BY <2>1, <2>3
<1>4. ASSUME NEW r \in Replicas, Crash(r)
      PROVE  /\ cache' \in [Replicas -> Files \cup {Nothing}]
             /\ loading' \in [Threads -> Files \cup {Nothing}]
             /\ raced' \in [Replicas -> BOOLEAN]
  BY <1>4 DEF Crash
<1>5. ASSUME UNCHANGED cacheVars
      PROVE  /\ cache' \in [Replicas -> Files \cup {Nothing}]
             /\ loading' \in [Threads -> Files \cup {Nothing}]
             /\ raced' \in [Replicas -> BOOLEAN]
  BY <1>5 DEF cacheVars
<1>6. \/ \E th \in Threads : ThreadNext(th)
      \/ \E t \in Tasks : Persist(t) \/ ClearCache(t)
      \/ \E r \in Replicas : Crash(r)
      \/ UNCHANGED cacheVars
  BY DEF Next, vars, TaskNext, RequestEdit, RequestRevert, Request, Acquire,
     LockUnavailable, RefuseEdit, Load, RecordEntry, RecordFails, Release, Expire
<1>7. QED
  BY <1>1, <1>2, <1>3, <1>4, <1>5, <1>6

LEMMA TypeStep ==
    ASSUME TypeOK, JobInv, [Next]_vars
    PROVE  TypeOK'
BY MutexType, RequestType, FileType, CacheType DEF TypeOK

-----------------------------------------------------------------------------
(* The lock *)

LEMMA LockStep ==
    ASSUME TypeOK, LockInv, [Next]_vars
    PROVE  LockInv'
<1> USE KeyStoreAssumption DEF TypeOK, Mutex!TypeOK, LockInv, InLock, mutexVars
<1>1. ASSUME NEW t \in Tasks, Acquire(t)
      PROVE  LockInv'
  BY <1>1 DEF Acquire, Mutex!Enter, Goto
<1>2. ASSUME NEW t \in Tasks, Release(t)
      PROVE  LockInv'
  <2>1. /\ pc[t] \in InLock
        /\ pc' = [pc EXCEPT ![t] = "idle"] \/ pc' = [pc EXCEPT ![t] = "clear_after"]
        /\ inside' = inside \ {t}
    BY <1>2 DEF Release, GiveBack, Mutex!Leave, Goto, Finish
  <2>2. owner' \in {owner, IF owner = t THEN NoTask ELSE owner}
    BY <1>2 DEF Release, GiveBack, Mutex!Leave
  <2>3. \A u \in Tasks : u # t => /\ pc'[u] = pc[u]
                                  /\ u \in inside' <=> u \in inside
                                  /\ owner = u => owner' = u
    BY <2>1, <2>2
  <2>4. pc'[t] \notin InLock /\ t \notin inside'
    BY <2>1
  <2>5. QED
    BY <2>3, <2>4
<1>3. ASSUME NEW t \in Tasks,
             \/ RefuseEdit(t) \/ Load(t) \/ Persist(t) \/ RecordEntry(t)
             \/ RecordFails(t)
             \/ ClearCache(t) /\ pc[t] = "clear"
      PROVE  LockInv'
  <2>1. /\ pc[t] \in InLock
        /\ \E step \in InLock :
              /\ step \in {"load", "persist"} => pc[t] \in {"load", "persist"}
              /\ pc' = [pc EXCEPT ![t] = step]
        /\ UNCHANGED <<owner, inside>>
    BY <1>3 DEF RefuseEdit, Load, Persist, RecordEntry, RecordFails, ClearCache, Goto
  <2>2. QED
    BY <2>1
<1>4. ASSUME NEW t \in Tasks,
             \/ LockUnavailable(t)
             \/ ClearCache(t) /\ pc[t] = "clear_after"
             \/ \E j : Request(t, j)
      PROVE  LockInv'
  <2>1. /\ pc[t] \notin InLock
        /\ \E step \in {"idle", "wait"} : pc' = [pc EXCEPT ![t] = step]
        /\ UNCHANGED <<owner, inside>>
    BY <1>4 DEF LockUnavailable, ClearCache, Request, Finish, Goto
  <2>2. QED
    BY <2>1
<1>5. ASSUME NEW r \in Replicas, Crash(r)
      PROVE  LockInv'
  <2> DEFINE dead == {t \in Tasks : Home[t] = r}
  <2>1. /\ pc' = [t \in Tasks |-> IF t \in dead THEN "idle" ELSE pc[t]]
        /\ inside' = inside \ dead
        /\ owner' \in {owner, IF owner \in dead \cap inside THEN NoTask ELSE owner}
    BY <1>5 DEF Crash, GiveBack, Mutex!Leave
  <2>2. \A t \in Tasks : pc'[t] \in {"load", "persist"} => owner' = t
    BY <2>1
  <2>3. \A t \in Tasks : pc'[t] \in InLock <=> t \in inside'
    BY <2>1
  <2>4. QED
    BY <2>2, <2>3
<1>6. CASE (\E th \in Threads : ThreadNext(th)) \/ UNCHANGED vars
  BY <1>6 DEF ThreadNext, LoadKeyStore, CacheKeyStore, requestVars, vars
<1>7. CASE Expire
  \* A lock expires under its holder only when that one has written the file.
  <2>1. \A t \in Tasks : pc[t] \in {"load", "persist"} => owner # t
    BY <1>7 DEF Expire
  <2>2. UNCHANGED <<pc, inside>>
    BY <1>7 DEF Expire, Mutex!Lapse, requestVars
  <2>3. QED
    BY <2>1, <2>2
<1>8. QED
  <2>1. ASSUME NEW t \in Tasks, TaskNext(t)
        PROVE  LockInv'
    <3>1. CASE ClearCache(t)
      BY <1>3, <1>4, <3>1 DEF ClearCache
    <3>2. CASE Acquire(t) \/ Release(t)
      BY <1>1, <1>2, <3>2
    <3>3. CASE RefuseEdit(t) \/ Load(t) \/ Persist(t) \/ RecordEntry(t) \/ RecordFails(t)
      BY <1>3, <3>3
    <3>4. CASE LockUnavailable(t)
      BY <1>4, <3>4
    <3>5. CASE \E op \in Edits, k \in Keys, grant \in BOOLEAN : RequestEdit(t, op, k, grant)
      <4>1. \E j : Request(t, j)
        BY <3>5, Zenon DEF RequestEdit
      <4>2. QED
        BY <1>4, <4>1, Zenon
    <3>6. CASE \E i \in DOMAIN audit : RequestRevert(t, i)
      <4>1. \E j : Request(t, j)
        BY <3>6, Zenon DEF RequestRevert
      <4>2. QED
        BY <1>4, <4>1, Zenon
    <3>7. QED
      BY <2>1, <3>1, <3>2, <3>3, <3>4, <3>5, <3>6, Zenon DEF TaskNext
  <2>2. QED
    BY <1>5, <1>6, <1>7, <2>1, Zenon DEF Next

-----------------------------------------------------------------------------
(* What the requests know *)

LEMMA JobStep ==
    ASSUME TypeOK, JobInv, [Next]_vars
    PROVE  JobInv'
<1> USE DEF TypeOK, JobInv
<1>1. ASSUME NEW t \in Tasks, NEW j \in Job, Request(t, j)
      PROVE  JobInv'
  BY <1>1 DEF Request
<1>2. ASSUME NEW t \in Tasks, Load(t)
      PROVE  JobInv'
  <2>1. write'[t] \in Write
    BY <1>2, WriteType
  <2>2. QED
    BY <1>2, <2>1 DEF Load
<1>3. ASSUME NEW t \in Tasks,
             \/ Acquire(t) \/ LockUnavailable(t) \/ RefuseEdit(t) \/ Persist(t)
             \/ RecordEntry(t) \/ RecordFails(t) \/ ClearCache(t) \/ Release(t)
      PROVE  JobInv'
  BY <1>3 DEF Acquire, LockUnavailable, RefuseEdit, Persist, RecordEntry, RecordFails,
     ClearCache, Release, Goto, Finish
<1>4. ASSUME NEW r \in Replicas, Crash(r)
      PROVE  JobInv'
  BY <1>4 DEF Crash
<1>5. CASE Expire \/ (\E th \in Threads : ThreadNext(th)) \/ UNCHANGED vars
  BY <1>5 DEF Expire, ThreadNext, LoadKeyStore, CacheKeyStore, requestVars, vars
<1>6. ASSUME NEW t \in Tasks, TaskNext(t)
      PROVE  JobInv'
  <2>1. ASSUME NEW op \in Edits, NEW k \in Keys, NEW grant \in BOOLEAN,
               RequestEdit(t, op, k, grant)
        PROVE  JobInv'
    BY <1>1, <2>1, JobTypes DEF RequestEdit
  <2>2. ASSUME NEW i \in DOMAIN audit, RequestRevert(t, i)
        PROVE  JobInv'
    <3>1. audit[i] \in Write
      BY LenProperties, ElementOfSeq
    <3>2. audit[i].before \in Files
      BY <3>1 DEF Write
    <3>3. QED
      BY <1>1, <2>2, <3>2, JobTypes DEF RequestRevert
  <2>3. QED
    BY <1>2, <1>3, <1>6, <2>1, <2>2 DEF TaskNext
<1>7. QED
  BY <1>4, <1>5, <1>6 DEF Next

\* How a write extends the history.
LEMMA HistoryGrows ==
    ASSUME TypeOK, NEW f \in Files, history' = Append(history, f)
    PROVE  /\ Len(history) \in Nat
           /\ Len(history') = Len(history) + 1
           /\ history'[Len(history')] = f
           /\ \A i \in 1 .. Len(history) : history'[i] = history[i]
           /\ Past' = Past \cup {f}
<1>1. /\ Len(history) \in Nat
      /\ Len(history') = Len(history) + 1
      /\ history'[Len(history')] = f
      /\ \A i \in 1 .. Len(history) : history'[i] = history[i]
      /\ DOMAIN history = 1 .. Len(history)
      /\ DOMAIN history' = 1 .. Len(history')
  BY AppendProperties, LenProperties DEF TypeOK
<1>2. Past' = Past \cup {f}
  BY <1>1 DEF Past
<1>3. QED
  BY <1>1, <1>2

LEMMA HistoryStep ==
    ASSUME TypeOK, JobInv, HistoryInv, WriteInv, [Next]_vars
    PROVE  HistoryInv' /\ Past \subseteq Past'
<1>1. CASE UNCHANGED <<file, history>>
  BY <1>1 DEF HistoryInv, Past, Manageable, HasKeysWrite
<1>2. ASSUME NEW t \in Tasks, Persist(t), write[t] \in Write, file' = write[t].after,
             history' = Append(history, write[t].after)
      PROVE  HistoryInv' /\ Past \subseteq Past'
  <2>1. write[t].after \in Files /\ Manageable(write[t].after)
    BY <1>2 DEF Persist, WriteInv, Write
  <2>2. /\ Len(history) \in Nat
        /\ Len(history') = Len(history) + 1
        /\ history'[Len(history')] = write[t].after
        /\ \A i \in 1 .. Len(history) : history'[i] = history[i]
        /\ Past' = Past \cup {write[t].after}
    BY <1>2, <2>1, HistoryGrows
  <2>3. \A i \in 1 .. Len(history') : Manageable(history'[i])
    BY <2>1, <2>2 DEF HistoryInv
  <2>4. QED
    BY <1>2, <2>2, <2>3 DEF HistoryInv, Manageable, HasKeysWrite
<1>3. QED
  BY <1>1, <1>2, FileStep

\* A write that was made remains one that was made; both its sides were the file.
LEMMA HappenedStep ==
    ASSUME IInv, [Next]_vars, NEW w, Happened(w)
    PROVE  Happened(w)' /\ w.before \in Past
<1>1. PICK j \in 2 .. Len(history) : w.before = history[j - 1] /\ w.after = history[j]
  BY DEF Happened
<1>2. Len(history) \in Nat /\ DOMAIN history = 1 .. Len(history)
  BY LenProperties DEF IInv, TypeOK
<1>3. w.before \in Past
  <2>1. j - 1 \in DOMAIN history
    BY <1>2
  <2>2. QED
    BY <1>1, <2>1 DEF Past
<1>4. CASE UNCHANGED history
  BY <1>1, <1>3, <1>4 DEF Happened
<1>5. ASSUME NEW f \in Files, history' = Append(history, f)
      PROVE  Happened(w)'
  <2>1. /\ Len(history') = Len(history) + 1
        /\ \A i \in 1 .. Len(history) : history'[i] = history[i]
    BY <1>5, HistoryGrows DEF IInv
  <2>2. /\ j \in 2 .. Len(history')
        /\ history'[j - 1] = history[j - 1] /\ history'[j] = history[j]
    BY <1>2, <2>1
  <2>3. QED
    BY <1>1, <2>2 DEF Happened
<1>6. QED
  BY <1>3, <1>4, <1>5, FileStep DEF IInv, Write

LEMMA PastStep ==
    ASSUME IInv, [Next]_vars
    PROVE  PastInv'
<1> USE DEF IInv
<1>0. Past \subseteq Past'
  BY HistoryStep
<1>1. \A i \in 1 .. Len(audit') : audit'[i].before \in Past'
  <2>1. CASE UNCHANGED audit
    BY <1>0, <2>1 DEF PastInv
  <2>2. ASSUME NEW t \in Tasks, RecordEntry(t), write[t] \in Write,
               audit' = Append(audit, write[t])
        PROVE  \A i \in 1 .. Len(audit') : audit'[i].before \in Past'
    <3>1. /\ Len(audit) \in Nat
          /\ Len(audit') = Len(audit) + 1
          /\ audit'[Len(audit) + 1] = write[t]
          /\ \A i \in 1 .. Len(audit) : audit'[i] = audit[i]
      BY <2>2, AppendProperties, LenProperties DEF TypeOK
    <3>2. write[t].before \in Past
      <4>1. Happened(write[t])
        BY <2>2 DEF RecordEntry, WriteInv
      <4>2. QED
        BY <4>1, HappenedStep
    <3>3. QED
      BY <1>0, <3>1, <3>2 DEF PastInv
  <2>3. QED
    BY <2>1, <2>2, AuditStep
<1>2. ASSUME NEW t \in Tasks, job'[t] \in RevertJob
      PROVE  job'[t].original \in Past
  <2>1. CASE job'[t] = job[t]
    BY <1>2, <2>1 DEF PastInv
  <2>2. CASE job'[t] = Nothing
    BY <1>2, <2>2, JobTypes
  <2>3. ASSUME NEW op \in Edits, NEW k \in Keys, NEW grant \in BOOLEAN,
               job'[t] = [op |-> op, key |-> k, keys_write |-> grant,
                          key_hash |-> started + 1]
        PROVE  FALSE
    BY <1>2, <2>3, JobTypes DEF TypeOK
  <2>4. ASSUME NEW i \in DOMAIN audit,
               job'[t] = [op |-> "revert", original |-> audit[i].before]
        PROVE  job'[t].original \in Past
    BY <2>4, LenProperties DEF PastInv, TypeOK
  <2>5. \/ job'[t] = job[t]
        \/ job'[t] = Nothing
        \/ \E op \in Edits, k \in Keys, grant \in BOOLEAN :
              job'[t] = [op |-> op, key |-> k, keys_write |-> grant,
                         key_hash |-> started + 1]
        \/ \E i \in DOMAIN audit :
              job'[t] = [op |-> "revert", original |-> audit[i].before]
    <3>1. ASSUME NEW u \in Tasks, NEW op \in Edits, NEW k \in Keys, NEW grant \in BOOLEAN,
                 RequestEdit(u, op, k, grant)
          PROVE  \/ job'[t] = job[t]
                 \/ job'[t] = [op |-> op, key |-> k, keys_write |-> grant,
                               key_hash |-> started + 1]
      BY <3>1 DEF RequestEdit, Request, TypeOK
    <3>2. ASSUME NEW u \in Tasks, NEW i \in DOMAIN audit, RequestRevert(u, i)
          PROVE  \/ job'[t] = job[t]
                 \/ job'[t] = [op |-> "revert", original |-> audit[i].before]
      BY <3>2 DEF RequestRevert, Request, TypeOK
    <3>3. ASSUME NEW u \in Tasks,
                 \/ Acquire(u) \/ LockUnavailable(u) \/ RefuseEdit(u) \/ Load(u)
                 \/ Persist(u) \/ RecordEntry(u) \/ RecordFails(u) \/ ClearCache(u)
                 \/ Release(u)
          PROVE  job'[t] = job[t] \/ job'[t] = Nothing
      BY <3>3 DEF Acquire, LockUnavailable, RefuseEdit, Load, Persist, RecordEntry,
         RecordFails, ClearCache, Release, Goto, Finish, TypeOK
    <3>4. CASE \/ \E r \in Replicas : Crash(r)
               \/ Expire
               \/ \E th \in Threads : ThreadNext(th)
               \/ UNCHANGED vars
      <4>1. CASE \E r \in Replicas : Crash(r)
        BY <4>1 DEF Crash
      <4>2. CASE Expire \/ (\E th \in Threads : ThreadNext(th)) \/ UNCHANGED vars
        BY <4>2 DEF Expire, ThreadNext, LoadKeyStore, CacheKeyStore, requestVars, vars
      <4>3. QED
        BY <3>4, <4>1, <4>2
    <3>5. ASSUME NEW u \in Tasks, TaskNext(u)
          PROVE  \/ job'[t] = job[t]
                 \/ job'[t] = Nothing
                 \/ \E op \in Edits, k \in Keys, grant \in BOOLEAN :
                       job'[t] = [op |-> op, key |-> k, keys_write |-> grant,
                                  key_hash |-> started + 1]
                 \/ \E i \in DOMAIN audit :
                       job'[t] = [op |-> "revert", original |-> audit[i].before]
      <4>1. CASE \E op \in Edits, k \in Keys, grant \in BOOLEAN : RequestEdit(u, op, k, grant)
        BY <3>1, <4>1, Zenon
      <4>2. CASE \E i \in DOMAIN audit : RequestRevert(u, i)
        BY <3>2, <4>2, Zenon
      <4>3. CASE \/ Acquire(u) \/ LockUnavailable(u) \/ RefuseEdit(u) \/ Load(u)
                 \/ Persist(u) \/ RecordEntry(u) \/ RecordFails(u) \/ ClearCache(u)
                 \/ Release(u)
        BY <3>3, <4>3, Zenon
      <4>4. QED
        BY <3>5, <4>1, <4>2, <4>3, Zenon DEF TaskNext
    <3>6. QED
      <4>1. CASE \E u \in Tasks : TaskNext(u)
        BY <3>5, <4>1, Zenon
      <4>2. QED
        BY <3>4, <4>1, Zenon DEF Next
  <2>6. QED
    BY <2>1, <2>2, <2>3, <2>4, <2>5
<1>3. QED
  BY <1>0, <1>1, <1>2 DEF PastInv

\* A request that has just read the file may write what it has prepared.
LEMMA LoadAllowed ==
    ASSUME IInv, NEW t \in Tasks, Load(t)
    PROVE  Manageable(write'[t].after) /\ Allowed(write'[t].after)
<1> USE DEF IInv
<1>0. Manageable(file)
  BY LenProperties DEF HistoryInv, TypeOK
<1>1. CASE job[t] \in RevertJob /\ write'[t].after = job[t].original
  <2>1. job[t].original \in Past
    BY <1>1 DEF PastInv
  <2>2. Manageable(job[t].original)
    BY <2>1, LenProperties DEF Past, HistoryInv, TypeOK
  <2>3. QED
    BY <1>1, <2>1, <2>2 DEF Allowed
<1>2. CASE /\ job[t] \in EditJob
           /\ ~Refused(file, job[t])
           /\ write'[t].after = Edited(file, job[t])
  <2>1. job[t].key \in Keys /\ file \in Files
    BY <1>2 DEF EditJob, TypeOK
  <2>2. /\ \A k \in Keys \ {job[t].key} : write'[t].after[k] = file[k]
        /\ Manageable(write'[t].after)
    BY <1>0, <1>2, <2>1, EditedProperties
  <2>3. QED
    BY <2>1, <2>2 DEF Allowed
<1>3. QED
  BY <1>1, <1>2, WriteType

LEMMA WriteStep ==
    ASSUME IInv, [Next]_vars
    PROVE  WriteInv'
<1> USE DEF IInv
<1>1. SUFFICES ASSUME NEW t \in Tasks
               PROVE  /\ pc'[t] = "persist" =>
                            /\ write'[t].before = file'
                            /\ Manageable(write'[t].after)
                            /\ Allowed(write[t].after)'
                      /\ pc'[t] = "audit" => Happened(write[t])'
  BY DEF WriteInv, Manageable, HasKeysWrite, Allowed, Happened
\* The request inside the lock takes a step.
<1>2. CASE Load(t)
  <2>1. /\ pc'[t] = "persist"
        /\ UNCHANGED <<file, history>>
    BY <1>2 DEF Load, TypeOK
  <2>2. /\ write'[t].before = file
        /\ Manageable(write'[t].after)
        /\ Allowed(write'[t].after)
    BY <1>2, WriteType, LoadAllowed
  <2>3. Allowed(write[t].after)'
    BY <2>1, <2>2 DEF Allowed, Past
  <2>4. QED
    BY <2>1, <2>2, <2>3
<1>3. CASE Persist(t)
  <2>1. /\ pc'[t] = "audit"
        /\ write'[t] = write[t]
        /\ pc[t] = "persist"
        /\ history' = Append(history, write[t].after)
        /\ write[t].after \in Files
    BY <1>3 DEF Persist, Goto, TypeOK, JobInv, Write
  <2>2. /\ Len(history) \in Nat
        /\ Len(history') = Len(history) + 1
        /\ history'[Len(history')] = write[t].after
        /\ \A i \in 1 .. Len(history) : history'[i] = history[i]
    BY <2>1, HistoryGrows
  <2>3. /\ Len(history) > 0
        /\ history[Len(history)] = write[t].before
    BY <2>1 DEF HistoryInv, WriteInv
  <2>4. /\ Len(history') \in 2 .. Len(history')
        /\ history'[Len(history') - 1] = write[t].before
    BY <2>2, <2>3
  <2>5. Happened(write[t])'
    BY <2>1, <2>2, <2>4 DEF Happened
  <2>6. QED
    BY <2>1, <2>5
\* Anything else neither brings t there nor changes what it has prepared.  Only
\* the request inside the lock writes the file.
<1>4. CASE ~Load(t) /\ ~Persist(t)
  <2>1. ASSUME pc'[t] \in {"persist", "audit"}
        PROVE  pc[t] = pc'[t] /\ write'[t] = write[t]
    <3>1. CASE \E u \in Tasks : TaskNext(u) /\ u # t
      BY <3>1 DEF TypeOK, TaskNext, RequestEdit, RequestRevert, Request, Acquire,
         LockUnavailable, RefuseEdit, Load, Persist, RecordEntry, RecordFails,
         ClearCache, Release, Goto, Finish
    <3>2. CASE TaskNext(t)
      BY <1>4, <2>1, <3>2
         DEF TypeOK, TaskNext, RequestEdit, RequestRevert, Request, Acquire,
             LockUnavailable, RefuseEdit, RecordEntry, RecordFails, ClearCache,
             Release, Goto, Finish
    <3>3. CASE \E r \in Replicas : Crash(r)
      BY <2>1, <3>3 DEF Crash
    <3>4. CASE Expire \/ (\E th \in Threads : ThreadNext(th)) \/ UNCHANGED vars
      BY <3>4 DEF Expire, ThreadNext, LoadKeyStore, CacheKeyStore, requestVars, vars
    <3>5. QED
      BY <3>1, <3>2, <3>3, <3>4 DEF Next
  <2>2. ASSUME pc[t] = "persist"
        PROVE  UNCHANGED <<file, history>>
    <3>1. ASSUME NEW u \in Tasks, Persist(u)
          PROVE  FALSE
      <4>1. owner = u /\ owner = t
        BY <2>2, <3>1 DEF LockInv, Persist
      <4>2. QED
        BY <1>4, <3>1, <4>1
    <3>2. QED
      BY <3>1, FileStep
  <2>3. CASE pc'[t] = "persist"
    <3>1. UNCHANGED <<file, history>> /\ pc[t] = "persist" /\ write'[t] = write[t]
      BY <2>1, <2>2, <2>3
    <3>2. Allowed(write[t].after)'
      BY <3>1 DEF WriteInv, Allowed, Past
    <3>3. QED
      BY <2>3, <3>1, <3>2 DEF WriteInv
  <2>4. CASE pc'[t] = "audit"
    <3>1. pc[t] = "audit" /\ write'[t] = write[t]
      BY <2>1, <2>4
    <3>2. Happened(write[t])'
      BY <3>1, HappenedStep DEF WriteInv
    <3>3. QED
      BY <2>4, <3>1, <3>2 DEF Happened
  <2>5. QED
    BY <2>3, <2>4
<1>5. QED
  BY <1>2, <1>3, <1>4

\* What is recorded is a write that was made, and it remains one.
LEMMA EntriesStep ==
    ASSUME IInv, [Next]_vars
    PROVE  EntriesAreWrites'
<1>1. \A i \in DOMAIN audit : Happened(audit[i])
  BY DEF IInv, EntriesAreWrites, Happened
<1>2. \A i \in DOMAIN audit' : Happened(audit'[i])
  <2>1. CASE UNCHANGED audit
    BY <1>1, <2>1
  <2>2. ASSUME NEW t \in Tasks, RecordEntry(t), audit' = Append(audit, write[t])
        PROVE  \A i \in DOMAIN audit' : Happened(audit'[i])
    <3>1. Happened(write[t])
      BY <2>2 DEF IInv, WriteInv, RecordEntry
    <3>2. \A i \in DOMAIN audit' : \/ i \in DOMAIN audit /\ audit'[i] = audit[i]
                                   \/ audit'[i] = write[t]
      BY <2>2, AppendProperties, LenProperties DEF IInv, TypeOK
    <3>3. QED
      BY <1>1, <3>1, <3>2
  <2>3. QED
    BY <2>1, <2>2, AuditStep DEF IInv
<1>3. SUFFICES ASSUME NEW i \in DOMAIN audit'
               PROVE  \E j \in 2 .. Len(history') :
                         /\ audit'[i].before = history'[j - 1]
                         /\ audit'[i].after = history'[j]
  BY DEF EntriesAreWrites
<1>4. PICK w : w = audit'[i]
  OBVIOUS
<1>5. Happened(w)'
  BY <1>2, <1>4, HappenedStep
<1>6. QED
  BY <1>4, <1>5 DEF Happened

LEMMA InitialInvariant ==
    ASSUME Init
    PROVE  IInv
<1>1. file \in Files /\ Manageable(file)
  BY DEF Init, Files, APIKeyRecord
<1>2. history = <<file>> /\ audit = <<>>
  BY DEF Init
<1>3. /\ history \in Seq(Files)
      /\ Len(history) = 1
      /\ history[1] = file
      /\ audit \in Seq(Write)
      /\ Len(audit) = 0
  BY <1>1, <1>2
<1>4. TypeOK
  <2>1. Mutex!TypeOK
    BY DEF Init, Mutex!Init, Mutex!TypeOK
  <2>2. raced \in [Replicas -> BOOLEAN]
    <3>1. raced = [r \in Replicas |-> FALSE]
      BY DEF Init
    <3>2. QED
      BY <3>1
  <2>3. /\ pc \in [Tasks -> Steps]
        /\ job \in [Tasks -> Job \cup {Nothing}]
        /\ write \in [Tasks -> Write \cup {Nothing}]
        /\ started \in Nat
    BY DEF Init, Steps
  <2>4. /\ cache \in [Replicas -> Files \cup {Nothing}]
        /\ loading \in [Threads -> Files \cup {Nothing}]
    BY DEF Init
  <2>5. QED
    BY <1>1, <1>3, <2>1, <2>2, <2>3, <2>4 DEF TypeOK
<1>5. \A t \in Tasks : pc[t] = "idle" /\ job[t] = Nothing
  BY DEF Init
<1>6. LockInv
  BY <1>5 DEF LockInv, InLock, Init, Mutex!Init
<1>7. JobInv /\ WriteInv
  BY <1>5 DEF JobInv, WriteInv
<1>8. HistoryInv
  BY <1>1, <1>3 DEF HistoryInv
<1>9. PastInv
  BY <1>3, <1>5, JobTypes DEF PastInv
<1>10. EntriesAreWrites
  BY <1>2 DEF EntriesAreWrites
<1>11. QED
  BY <1>4, <1>6, <1>7, <1>8, <1>9, <1>10 DEF IInv

-----------------------------------------------------------------------------
(* Theorems *)

\* The inductive invariant.
THEOREM InductiveInvariant == Spec => []IInv
<1>1. Init => IInv
  BY InitialInvariant
<1>2. IInv /\ [Next]_vars => IInv'
  BY TypeStep, LockStep, JobStep, HistoryStep, PastStep, WriteStep, EntriesStep DEF IInv
<1>3. QED
  BY <1>1, <1>2, PTL DEF Spec

\* Every variable keeps its type.
THEOREM TypeCorrect == Spec => []TypeOK
<1>1. IInv => TypeOK
  BY DEF IInv
<1>2. QED
  BY <1>1, InductiveInvariant, PTL

\* No sequence of concurrent edits, reverts, failures and crashes leaves the
\* deployment without a key that can manage keys.
THEOREM AlwaysManageable == Spec => []NeverStranded
<1>1. IInv => NeverStranded
  <2> SUFFICES ASSUME IInv
               PROVE  NeverStranded
    OBVIOUS
  <2>1. \A f \in Past : Manageable(f)
    BY LenProperties DEF IInv, HistoryInv, Past, TypeOK
  <2>2. Manageable(file)
    BY LenProperties DEF IInv, HistoryInv, TypeOK
  <2>3. \A i \in DOMAIN audit : audit[i].before \in Past
    BY LenProperties DEF IInv, PastInv, TypeOK
  <2>4. QED
    BY <2>1, <2>2, <2>3 DEF NeverStranded
<1>2. QED
  BY <1>1, InductiveInvariant, PTL

\* Every entry of the audit log is a write of the file that was really made,
\* with exactly the text it replaced.
THEOREM AuditDescribesWrites == Spec => []EntriesAreWrites
<1>1. IInv => EntriesAreWrites
  BY DEF IInv
<1>2. QED
  BY <1>1, InductiveInvariant, PTL

\* KeyStoreAdmin implements KeyRegistry: keys change one at a time, and no
\* update of another key is lost.
THEOREM RegistryRefinement == Spec => ImplementsRegistry
<1>1. Init => Registry!Init
  <2> SUFFICES ASSUME Init
               PROVE  Registry!Init
    OBVIOUS
  <2>1. file \in Files /\ Manageable(file)
    BY DEF Init, Files, APIKeyRecord
  <2>2. history = <<file>>
    BY DEF Init
  <2>3. Past = {file}
    BY <2>2 DEF Past
  <2>4. QED
    BY <2>1, <2>3 DEF Registry!Init, Past, Registry!Files, Registry!APIKeyRecord, Files,
       APIKeyRecord, Registry!Manageable, Registry!HasKeysWrite, Manageable, HasKeysWrite
<1>2. IInv /\ [Next]_vars => [Registry!Next]_<<file, Past>>
  <2> SUFFICES ASSUME IInv, [Next]_vars
               PROVE  [Registry!Next]_<<file, Past>>
    OBVIOUS
  <2>1. CASE UNCHANGED <<file, history>>
    BY <2>1 DEF Past
  <2>2. ASSUME NEW t \in Tasks, Persist(t), write[t] \in Write,
               file' = write[t].after, history' = Append(history, write[t].after)
        PROVE  Registry!Next
    <3>1. /\ write[t].after \in Files
          /\ Manageable(write[t].after)
          /\ Allowed(write[t].after)
      BY <2>2 DEF IInv, WriteInv, Persist, Write
    <3>2. Past' = Past \cup {file'}
      BY <2>2, <3>1, HistoryGrows DEF IInv
    <3>3. Registry!Becomes
      BY <2>2, <3>1, <3>2 DEF Registry!Becomes, Past, Registry!Files,
         Registry!APIKeyRecord, Files, APIKeyRecord, Registry!Manageable,
         Registry!HasKeysWrite, Manageable, HasKeysWrite
    <3>4. CASE file' \in Past
      BY <3>3, <3>4 DEF Registry!Next, Registry!Restore, Past
    <3>5. CASE \E k \in Keys : \A j \in Keys \ {k} : file'[j] = file[j]
      BY <3>3, <3>5 DEF Registry!Next, Registry!Change
    <3>6. QED
      BY <2>2, <3>1, <3>4, <3>5 DEF Allowed
  <2>3. QED
    BY <2>1, <2>2, FileStep DEF IInv
<1>3. QED
  BY <1>1, <1>2, InductiveInvariant, PTL
     DEF Spec, ImplementsRegistry, Registry!Spec, Past

-----------------------------------------------------------------------------
(* What is recorded when nothing fails *)

\* Request t has written the file and has not recorded that.
Unrecorded(t) ==
    /\ Len(history) = Len(audit) + 2
    /\ write[t].before = history[Len(audit) + 1]
    /\ write[t].after = history[Len(audit) + 2]

\* The entries are the writes, one by one; only the one request inside the lock
\* can be about to add the last.
RecordInv ==
    /\ inside \subseteq {owner}
    /\ \A i \in 1 .. Len(audit) : /\ audit[i].before = history[i]
                                  /\ audit[i].after = history[i + 1]
    /\ (\A t \in Tasks : pc[t] # "audit") => Len(history) = Len(audit) + 1
    /\ \A t \in Tasks : pc[t] = "audit" => Unrecorded(t)

\* While the lock does not lapse under its holder, it is alone inside.
LEMMA SoleOwnerStep ==
    ASSUME ~MayLapse, ~MayCrash, TypeOK, inside \subseteq {owner}, [Next]_vars
    PROVE  inside' \subseteq {owner'}
<1> USE KeyStoreAssumption DEF TypeOK, Mutex!TypeOK, mutexVars
<1>1. ASSUME NEW t \in Tasks, Acquire(t)
      PROVE  inside' \subseteq {owner'}
  BY <1>1 DEF Acquire, Mutex!Enter
<1>2. ASSUME NEW t \in Tasks, Release(t)
      PROVE  inside' \subseteq {owner'}
  BY <1>2 DEF Release, GiveBack, Mutex!Leave
<1>3. CASE Expire
  BY <1>3 DEF Expire, Mutex!Lapse
<1>4. CASE UNCHANGED mutexVars
  BY <1>4
<1>5. QED
  <2>1. \/ UNCHANGED mutexVars \/ Expire \/ \E t \in Tasks : Acquire(t) \/ Release(t)
    BY Zenon DEF Next, vars, TaskNext, ThreadNext, RequestEdit, RequestRevert, Request,
       LockUnavailable, RefuseEdit, Load, Persist, RecordEntry, RecordFails, ClearCache,
       LoadKeyStore, CacheKeyStore, Crash
  <2>2. QED
    BY <1>1, <1>2, <1>3, <1>4, <2>1

\* Only Persist and RecordEntry, of the request inside, touch the file or its log.
LEMMA RecordSteps ==
    ASSUME ~MayFail, ~MayCrash, TypeOK, [Next]_vars
    PROVE  \/ \E t \in Tasks : Persist(t) \/ RecordEntry(t)
           \/ /\ UNCHANGED <<file, history, audit>>
              /\ \A t \in Tasks : /\ pc'[t] = "audit" <=> pc[t] = "audit"
                                  /\ pc[t] = "audit" => write'[t] = write[t]
<1> DEFINE Quietly == /\ UNCHANGED <<file, history, audit>>
                      /\ \A t \in Tasks : /\ pc'[t] = "audit" <=> pc[t] = "audit"
                                          /\ pc[t] = "audit" => write'[t] = write[t]
<1> USE DEF TypeOK
<1>1. CASE UNCHANGED vars \/ (\E th \in Threads : ThreadNext(th)) \/ Expire
  BY <1>1 DEF vars, requestVars, ThreadNext, LoadKeyStore, CacheKeyStore, Expire
<1>2. ASSUME NEW t \in Tasks, TaskNext(t)
      PROVE  Persist(t) \/ RecordEntry(t) \/ Quietly
  <2>1. CASE \E op \in Edits, k \in Keys, grant \in BOOLEAN : RequestEdit(t, op, k, grant)
    <3>1. \E j : Request(t, j)
      BY <2>1, Zenon DEF RequestEdit
    <3>2. QED
      BY <3>1 DEF Request
  <2>2. CASE \E i \in DOMAIN audit : RequestRevert(t, i)
    <3>1. \E j : Request(t, j)
      BY <2>2, Zenon DEF RequestRevert
    <3>2. QED
      BY <3>1 DEF Request
  <2>3. CASE Acquire(t) \/ RefuseEdit(t)
    BY <2>3 DEF Acquire, RefuseEdit, Goto
  <2>4. CASE Load(t) \/ LockUnavailable(t)
    BY <2>4 DEF Load, LockUnavailable, Finish
  <2>5. CASE ClearCache(t) \/ Release(t)
    <3>1. /\ pc[t] # "audit" /\ UNCHANGED <<file, history, audit>>
          /\ Goto(t, "release") \/ Goto(t, "clear_after") \/ Finish(t)
      BY <2>5 DEF ClearCache, Release
    <3>2. QED
      BY <3>1 DEF Goto, Finish
  <2>6. QED
    BY <1>2, <2>1, <2>2, <2>3, <2>4, <2>5, Zenon DEF TaskNext, RecordFails
<1>3. QED
  BY <1>1, <1>2, Zenon DEF Next, Crash

LEMMA RecordStep ==
    ASSUME ~MayLapse, ~MayFail, ~MayCrash, IInv, RecordInv, [Next]_vars
    PROVE  RecordInv'
<1>0. inside' \subseteq {owner'}
  BY SoleOwnerStep DEF IInv, RecordInv
<1>1. /\ Len(history) \in Nat /\ Len(audit) \in Nat
      /\ \A t, u \in Tasks : pc[t] \in InLock /\ pc[u] \in InLock => t = u
  BY LenProperties DEF IInv, TypeOK, LockInv, RecordInv
<1>2. CASE /\ UNCHANGED <<file, history, audit>>
           /\ \A t \in Tasks : /\ pc'[t] = "audit" <=> pc[t] = "audit"
                               /\ pc[t] = "audit" => write'[t] = write[t]
  BY <1>0, <1>2 DEF RecordInv, Unrecorded
<1>3. ASSUME NEW t \in Tasks, Persist(t)
      PROVE  RecordInv'
  <2>1. /\ pc[t] = "persist" /\ pc' = [pc EXCEPT ![t] = "audit"] /\ write' = write
        /\ audit' = audit /\ history' = Append(history, write[t].after)
    BY <1>3 DEF Persist, Goto
  <2>2. \A u \in Tasks : pc[u] # "audit"
    BY <1>1, <2>1 DEF InLock
  <2>3. Len(history) = Len(audit) + 1
    BY <2>2 DEF RecordInv
  <2>4. write[t].after \in Files /\ write[t].before = history[Len(history)]
    BY <2>1 DEF IInv, JobInv, Write, WriteInv, HistoryInv
  <2>5. /\ Len(history') = Len(history) + 1
        /\ history'[Len(history')] = write[t].after
        /\ \A i \in 1 .. Len(history) : history'[i] = history[i]
    BY <2>1, <2>4, HistoryGrows DEF IInv
  <2>6. \A i \in 1 .. Len(audit) : i \in 1 .. Len(history) /\ i + 1 \in 1 .. Len(history)
    BY <1>1, <2>3
  <2>7. \A i \in 1 .. Len(audit') : /\ audit'[i].before = history'[i]
                                    /\ audit'[i].after = history'[i + 1]
    BY <2>1, <2>5, <2>6 DEF RecordInv
  <2>8. Unrecorded(t)'
    <3>1. Len(history) \in 1 .. Len(history)
      BY <1>1, <2>3
    <3>2. history'[Len(audit) + 1] = history[Len(history)]
      BY <2>3, <2>5, <3>1
    <3>3. Len(history') = Len(audit) + 2
      BY <1>1, <2>3, <2>5
    <3>4. QED
      BY <2>1, <2>4, <2>5, <3>2, <3>3 DEF Unrecorded
  <2>9. \A u \in Tasks : pc'[u] = "audit" <=> u = t
    BY <2>1, <2>2 DEF IInv, TypeOK
  <2>10. QED
    BY <1>0, <2>7, <2>8, <2>9 DEF RecordInv
<1>4. ASSUME NEW t \in Tasks, RecordEntry(t)
      PROVE  RecordInv'
  <2>1. /\ pc[t] = "audit" /\ write' = write
        /\ pc' = [pc EXCEPT ![t] = "reverted"] \/ pc' = [pc EXCEPT ![t] = "clear"]
        /\ audit' = Append(audit, write[t]) /\ history' = history
    BY <1>4 DEF RecordEntry, Goto
  <2>2. Unrecorded(t)
    BY <2>1 DEF RecordInv
  <2>3. write[t] \in Write /\ audit \in Seq(Write)
    BY <2>1 DEF IInv, JobInv, TypeOK
  <2>4. /\ Len(audit') = Len(audit) + 1
        /\ \A i \in 1 .. Len(audit) : audit'[i] = audit[i]
        /\ audit'[Len(audit) + 1] = write[t]
    BY <2>1, <2>3, AppendProperties
  <2>5. \A i \in 1 .. Len(audit) + 1 : i \in 1 .. Len(audit) \/ i = Len(audit) + 1
    BY <1>1
  <2>6. Len(audit) + 1 + 1 = Len(audit) + 2
    BY <1>1
  <2>7. \A i \in 1 .. Len(audit') : /\ audit'[i].before = history'[i]
                                    /\ audit'[i].after = history'[i + 1]
    BY <2>1, <2>2, <2>4, <2>5, <2>6 DEF RecordInv, Unrecorded
  <2>8. Len(history') = Len(audit') + 1
    BY <1>1, <2>1, <2>2, <2>4 DEF Unrecorded
  <2>9. \A u \in Tasks : pc'[u] # "audit"
    BY <1>1, <2>1 DEF IInv, TypeOK, InLock
  <2>10. QED
    BY <1>0, <2>7, <2>8, <2>9 DEF RecordInv
<1>5. QED
  BY <1>2, <1>3, <1>4, RecordSteps DEF IInv

\* When no record_entry fails, no replica dies and no lock lapses, the audit log
\* leads from the first content of the file to the present one without a gap.
THEOREM WritesRecorded ==
    ASSUME ~MayLapse, ~MayFail, ~MayCrash
    PROVE  Spec => []EveryWriteRecorded
<1>1. Init => RecordInv
  <2> SUFFICES ASSUME Init
               PROVE  RecordInv
    OBVIOUS
  <2>1. Len(history) = 1 /\ Len(audit) = 0 /\ inside = {}
    BY DEF Init, Mutex!Init
  <2>2. QED
    BY <2>1 DEF Init, RecordInv
<1>2. IInv /\ RecordInv /\ [Next]_vars => RecordInv'
  BY RecordStep
<1>3. IInv /\ RecordInv => EveryWriteRecorded
  <2> SUFFICES ASSUME IInv, RecordInv, inside = {}
               PROVE  /\ AuditInOrder
                      /\ Len(history) = Len(audit) + 1
                      /\ audit # <<>> => /\ audit[1].before = history[1]
                                         /\ audit[Len(audit)].after = file
    BY DEF EveryWriteRecorded
  <2>1. Len(history) = Len(audit) + 1
    BY DEF IInv, LockInv, RecordInv, InLock
  <2>2. Len(audit) \in Nat /\ (audit # <<>> => Len(audit) > 0)
    BY LenProperties, EmptySeq DEF IInv, TypeOK
  <2>3. AuditInOrder
    <3>1. ASSUME NEW i \in 2 .. Len(audit)
          PROVE  audit[i].before = audit[i - 1].after
      <4>1. i \in 1 .. Len(audit) /\ i - 1 \in 1 .. Len(audit) /\ i - 1 + 1 = i
        BY <2>2
      <4>2. QED
        BY <4>1 DEF RecordInv
    <3>2. QED
      BY <3>1 DEF AuditInOrder
  <2>4. ASSUME audit # <<>>
        PROVE  audit[1].before = history[1] /\ audit[Len(audit)].after = file
    <3>1. 1 \in 1 .. Len(audit) /\ Len(audit) \in 1 .. Len(audit)
      BY <2>2, <2>4
    <3>2. QED
      BY <2>1, <3>1 DEF RecordInv, IInv, HistoryInv
  <2>5. QED
    BY <2>1, <2>3, <2>4
<1>4. QED
  BY <1>1, <1>2, <1>3, InductiveInvariant, PTL DEF Spec

-----------------------------------------------------------------------------
(* What is cached *)

\* A request has written the file and will clear the cache.
ToClear == {"audit", "clear", "reverted", "clear_after"}

\* What is cached, or about to be, is the file, unless a load was under way when
\* it was written, or the cache is still to be cleared.
FreshInv ==
    /\ \A r \in Replicas : \/ cache[r] \in {Nothing, file}
                           \/ raced[r]
                           \/ \E t \in Tasks : pc[t] \in ToClear
    /\ \A th \in Threads : loading[th] \in {Nothing, file} \/ raced[Home[th]]

\* The steps that touch neither the file nor a cache.
LEMMA FreshStill ==
    ASSUME FreshInv, UNCHANGED <<file, cacheVars>>,
           \A t \in Tasks : pc[t] \in ToClear => pc'[t] \in ToClear
    PROVE  FreshInv'
BY DEF FreshInv, cacheVars

LEMMA FreshTask ==
    ASSUME \A r, s \in Replicas : r = s, ~MayFail, TypeOK, FreshInv,
           NEW t \in Tasks, TaskNext(t)
    PROVE  FreshInv'
<1> USE DEF TypeOK
<1>0. Home[t] \in Replicas /\ \A th \in Threads : Home[th] \in Replicas
  BY KeyStoreAssumption
<1>1. CASE \E op \in Edits, k \in Keys, grant \in BOOLEAN : RequestEdit(t, op, k, grant)
  <2>1. \E j : Request(t, j)
    BY <1>1, Zenon DEF RequestEdit
  <2>2. QED
    BY <2>1, FreshStill DEF Request, ToClear
<1>2. CASE \E i \in DOMAIN audit : RequestRevert(t, i)
  <2>1. \E j : Request(t, j)
    BY <1>2, Zenon DEF RequestRevert
  <2>2. QED
    BY <2>1, FreshStill DEF Request, ToClear
<1>3. CASE Acquire(t) \/ RefuseEdit(t) \/ Load(t) \/ LockUnavailable(t)
  <2>1. /\ pc[t] \in {"wait", "load"}
        /\ \E step \in Steps : pc' = [pc EXCEPT ![t] = step]
        /\ UNCHANGED <<file, cacheVars>>
    BY <1>3 DEF Acquire, RefuseEdit, Load, LockUnavailable, Goto, Finish, Steps
  <2>2. QED
    BY <2>1, FreshStill DEF ToClear
<1>4. CASE Persist(t)
  <2>1. /\ pc'[t] = "audit"
        /\ cache' = cache /\ loading' = loading
        /\ raced' = [r \in Replicas |-> raced[r] \/ IsLoading(r)]
    BY <1>4 DEF Persist, Goto
  <2>2. ASSUME NEW th \in Threads, loading[th] # Nothing
        PROVE  raced'[Home[th]]
    <3>1. IsLoading(Home[th])
      BY <2>2 DEF IsLoading
    <3>2. QED
      BY <1>0, <2>1, <3>1
  <2>3. QED
    BY <2>1, <2>2 DEF FreshInv, ToClear
<1>5. CASE RecordEntry(t)
  <2>1. /\ pc' = [pc EXCEPT ![t] = "reverted"] \/ pc' = [pc EXCEPT ![t] = "clear"]
        /\ UNCHANGED <<file, cacheVars>>
    BY <1>5 DEF RecordEntry, Goto
  <2>2. QED
    BY <2>1, FreshStill DEF ToClear
<1>6. CASE Release(t)
  <2>1. /\ \/ pc[t] = "release" /\ pc' = [pc EXCEPT ![t] = "idle"]
           \/ pc[t] = "reverted" /\ pc' = [pc EXCEPT ![t] = "clear_after"]
        /\ UNCHANGED <<file, cacheVars>>
    BY <1>6 DEF Release, Goto, Finish
  <2>2. QED
    BY <2>1, FreshStill DEF ToClear
<1>7. CASE ClearCache(t)
  <2>1. /\ cache' = [cache EXCEPT ![Home[t]] = Nothing]
        /\ raced' = [raced EXCEPT ![Home[t]] = raced[Home[t]] /\ IsLoading(Home[t])]
        /\ loading' = loading /\ file' = file
    BY <1>7 DEF ClearCache
  <2>2. \A r \in Replicas : cache'[r] = Nothing
    BY <1>0, <2>1
  <2>3. ASSUME NEW th \in Threads, loading[th] \notin {Nothing, file}
        PROVE  raced'[Home[th]]
    <3>1. IsLoading(Home[th]) /\ raced[Home[th]]
      BY <2>3 DEF IsLoading, FreshInv
    <3>2. Home[th] = Home[t]
      BY <1>0
    <3>3. raced' = [raced EXCEPT ![Home[t]] = TRUE]
      BY <2>1, <3>1, <3>2, Zenon
    <3>4. QED
      BY <1>0, <3>2, <3>3, Zenon
  <2>4. QED
    BY <2>1, <2>2, <2>3 DEF FreshInv
<1>8. QED
  BY <1>1, <1>2, <1>3, <1>4, <1>5, <1>6, <1>7, Zenon DEF TaskNext, RecordFails

LEMMA FreshStep ==
    ASSUME \A r, s \in Replicas : r = s, ~MayFail, TypeOK, FreshInv, [Next]_vars
    PROVE  FreshInv'
<1> USE DEF TypeOK
<1>0. \A th \in Threads : Home[th] \in Replicas
  BY KeyStoreAssumption
<1>1. CASE UNCHANGED vars \/ Expire
  <2>1. UNCHANGED <<file, cacheVars, pc>>
    BY <1>1 DEF vars, requestVars, Expire
  <2>2. QED
    BY <2>1, FreshStill
<1>2. ASSUME NEW th \in Threads, LoadKeyStore(th)
      PROVE  FreshInv'
  <2>1. /\ UNCHANGED <<file, raced, pc>>
        /\ \/ loading' = [loading EXCEPT ![th] = file] /\ cache' = cache
           \/ cache' = [cache EXCEPT ![Home[th]] = file] /\ loading' = loading
    BY <1>2 DEF LoadKeyStore, requestVars
  <2>2. QED
    BY <1>0, <2>1 DEF FreshInv
<1>3. ASSUME NEW th \in Threads, CacheKeyStore(th)
      PROVE  FreshInv'
  <2>1. /\ UNCHANGED <<file, raced, pc>>
        /\ cache' = cache \/ cache' = [cache EXCEPT ![Home[th]] = loading[th]]
        /\ loading' = [loading EXCEPT ![th] = Nothing]
    BY <1>3 DEF CacheKeyStore, requestVars
  <2>2. QED
    BY <1>0, <2>1 DEF FreshInv
<1>4. ASSUME NEW r \in Replicas, Crash(r)
      PROVE  FreshInv'
  <2>1. /\ cache' = [cache EXCEPT ![r] = Nothing]
        /\ loading' = [th \in Threads |-> IF Home[th] = r THEN Nothing ELSE loading[th]]
    BY <1>4 DEF Crash
  <2>2. (\A s \in Replicas : cache'[s] = Nothing) /\ (\A th \in Threads : loading'[th] = Nothing)
    BY <1>0, <2>1
  <2>3. QED
    BY <2>2 DEF FreshInv
<1>5. QED
  BY <1>1, <1>2, <1>3, <1>4, FreshTask, Zenon DEF Next, ThreadNext

\* On a gateway of one replica, an old key store stays cached only when a thread
\* was loading it while the file was written (get_key_store, cache_clear), be
\* locks lost and the replica restarted as they may; unless a record_entry
\* fails, after which the cache is not cleared.
THEOREM StaleOnlyRaced ==
    ASSUME \A r, s \in Replicas : r = s, ~MayFail
    PROVE  Spec => []StaleOnlyIfRaced
<1>1. Init => FreshInv
  BY DEF Init, FreshInv
<1>2. TypeOK /\ FreshInv /\ [Next]_vars => FreshInv'
  BY FreshStep
<1>3. FreshInv => StaleOnlyIfRaced
  BY DEF FreshInv, StaleOnlyIfRaced, Quiet, ToClear
<1>4. QED
  BY <1>1, <1>2, <1>3, TypeCorrect, PTL DEF Spec

=============================================================================
