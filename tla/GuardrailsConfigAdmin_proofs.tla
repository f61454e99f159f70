--------------------- MODULE GuardrailsConfigAdmin_proofs ---------------------
(***************************************************************************)
(* Proofs about GuardrailsConfigAdmin, for any number of replicas, admin   *)
(* requests, readers, parts and values.                                    *)
(*                                                                         *)
(* Everything rests on this: a request that is before its audit entry owns *)
(* the lock (LockInv), so that the file is the one it has read, or the one *)
(* it has written (WriteInv).  Then what it rolls back to, and what a      *)
(* revert can bring back, has loaded (GoodInv); and what a replica has     *)
(* cached or is loading is the file, or a write has passed it by, or the   *)
(* request that wrote has yet to empty the cache (CacheInv).               *)
(***************************************************************************)
EXTENDS GuardrailsConfigAdmin, SequenceTheorems, TLAPS

Phases == {"idle", "wait", "read", "write", "check", "audit", "invalidate",
           "release", "reverted", "invalidate_after"}
InLock == {"read", "write", "check", "audit", "invalidate", "release", "reverted"}

\* The steps of the body are inside; until its entry is due a request owns the
\* lock.
LockInv ==
    \A t \in Tasks :
        /\ pc[t] \in InLock <=> t \in inside
        /\ pc[t] \in {"read", "write", "check"} => owner = t

\* What a request has, and what it knows of the file.
Knows(t) ==
    /\ pc[t] \in {"wait", "read", "write", "check", "audit"} => job[t] \in Job
    /\ pc[t] \in {"write", "check", "audit"} => write[t] \in Write
    /\ pc[t] = "write" =>
          /\ write[t].before = file
          /\ write[t].after = IF job[t].op = "revert" THEN job[t].original
                                                      ELSE Merged(file, job[t].set)
    /\ pc[t] = "check" => file = write[t].after
    /\ resource = "policy" /\ job[t] \in EditJob =>
          \A p \in DOMAIN job[t].set : job[t].set[p] \in Values

WriteInv == \A t \in Tasks : Knows(t)

\* What a request returns to loads; what it writes does, if nothing checks it.
Harmless(t) ==
    /\ job[t] \in RevertJob => Loads(job[t].original)
    /\ pc[t] \in {"write", "check", "audit"} => Loads(write[t].before)
    /\ pc[t] = "write" /\ ~(resource = "preset" /\ job[t].op = "edit") => Loads(write[t].after)
    /\ pc[t] = "audit" => Loads(write[t].after)

\* Unless a replica has died during a check, what is or can become the file for
\* longer than a check loads.
GoodInv ==
    ~cutOff =>
        /\ (\E t \in Tasks : pc[t] = "check") \/ Loads(file)
        /\ \A i \in 1 .. Len(audit) : Loads(audit[i].before) /\ Loads(audit[i].after)
        /\ \A t \in Tasks : Harmless(t)

\* The request has written the file, and has yet to empty its replica's cache, or
\* to find that the preset does not load, and what is cached is what was there.
Pending(t) ==
    \/ pc[t] \in {"audit", "invalidate", "reverted", "invalidate_after"}
    \/ pc[t] = "check" /\ cache[Home[t]] = write[t].before

\* What is cached, or being loaded, is the file; or a write has passed it by.
FreshCache(r) ==
    \/ cache[r] \in {Nothing, file}
    \/ unaware[r]
    \/ \E t \in Tasks : Home[t] = r /\ Pending(t)

FreshLoad(l) == loading[l] \in {Nothing, file} \/ unaware[Home[l]]

CacheInv ==
    /\ \A r \in Replicas : cache[r] # Nothing => Loads(cache[r])
    /\ \A l \in Readers : FreshLoad(l)
    /\ \A r \in Replicas : FreshCache(r)

Inv == TypeOK /\ LockInv /\ WriteInv

-----------------------------------------------------------------------------
(* Data *)

LEMMA EditIsJob ==
    ASSUME NEW set \in Edits
    PROVE  [op |-> "edit", set |-> set] \in EditJob
<1>1. CASE set \in [Parts -> Values] \cup {[p \in Parts |-> Bad]}
  <2>1. set \in [Parts -> Values \cup {Bad}]
    BY <1>1
  <2>2. Parts \in SUBSET Parts
    OBVIOUS
  <2>3. QED
    BY <2>1, <2>2 DEF EditJob
<1>2. ASSUME NEW p \in Parts, set \in [{p} -> Values]
      PROVE  [op |-> "edit", set |-> set] \in EditJob
  <2>1. set \in [{p} -> Values \cup {Bad}]
    BY <1>2
  <2>2. {p} \in SUBSET Parts
    OBVIOUS
  <2>3. QED
    BY <2>1, <2>2 DEF EditJob
<1>3. QED
  BY <1>1, <1>2 DEF Edits

\* An edit of a policy sets no part to what does not load.
LEMMA PolicyEditLoads ==
    ASSUME NEW set \in Edits, resource = "policy"
    PROVE  \A p \in DOMAIN set : set[p] \in Values
<1>1. PICK q \in Parts : set \in [{q} -> Values]
  BY DEF Edits
<1>2. QED
  BY <1>1

LEMMA JobTypes ==
    /\ Job = EditJob \cup RevertJob
    /\ \A j \in EditJob : j.op = "edit"
    /\ \A j \in RevertJob : j.op = "revert" /\ j.original \in Files
    /\ \A f \in Files : [op |-> "revert", original |-> f] \in RevertJob
    /\ Nothing \notin Job
BY ConfigAssumption DEF Job, EditJob, RevertJob

LEMMA MergedType ==
    ASSUME NEW f \in Files, NEW j \in EditJob
    PROVE  Merged(f, j.set) \in Files
<1>1. PICK S \in SUBSET Parts : j.set \in [S -> Values \cup {Bad}]
  BY DEF EditJob
<1>2. \A p \in Parts : (IF p \in DOMAIN j.set THEN j.set[p] ELSE f[p]) \in Values \cup {Bad}
  BY <1>1 DEF Files
<1>3. QED
  BY <1>2 DEF Merged, Files

LEMMA MergedLoads ==
    ASSUME NEW f \in Files, NEW j \in EditJob, Loads(f),
           \A p \in DOMAIN j.set : j.set[p] \in Values
    PROVE  Loads(Merged(f, j.set))
BY ConfigAssumption DEF Merged, Loads

\* What a request is going to write.
LEMMA ReadWrites ==
    ASSUME Inv, NEW t \in Tasks, Read(t)
    PROVE  /\ write' = [write EXCEPT ![t] = write'[t]]
           /\ write'[t] \in Write
           /\ write'[t].before = file
           /\ write'[t].after = IF job[t].op = "revert" THEN job[t].original
                                                        ELSE Merged(file, job[t].set)
<1> DEFINE after == IF job[t].op = "revert" THEN job[t].original
                                           ELSE Merged(file, job[t].set)
<1>1. job[t] \in Job /\ file \in Files /\ write \in [Tasks -> Write \cup {Nothing}]
  BY DEF Inv, WriteInv, Knows, TypeOK, Read
<1>2. after \in Files
  <2>1. CASE job[t] \in RevertJob
    BY <2>1, JobTypes
  <2>2. CASE job[t] \in EditJob
    BY <1>1, <2>2, JobTypes, MergedType
  <2>3. QED
    BY <1>1, <2>1, <2>2, JobTypes
<1> HIDE DEF after
<1>3. write' = [write EXCEPT ![t] = [before |-> file, after |-> after]]
  BY DEF Read, after
<1>4. write'[t] = [before |-> file, after |-> after]
  BY <1>1, <1>3
<1>5. QED
  BY <1>1, <1>2, <1>3, <1>4 DEF Write, after

-----------------------------------------------------------------------------
(* Types *)

LEMMA MutexType ==
    ASSUME TypeOK, [Next]_vars
    PROVE  Mutex!TypeOK'
BY ConfigAssumption
   DEF TypeOK, Mutex!TypeOK, Next, vars, TaskNext, ReaderNext, RequestEdit, RequestRevert,
       Request, Acquire, LockUnavailable, RefuseEdit, Read, WriteFile, CheckPasses, CheckFails,
       RecordEntry, RecordFails, Invalidate, Release, AwaitLoad, Found, StartLoad, EndLoad,
       Loaded, LoadFails, Crash, Expire, mutexVars, Mutex!Enter, Mutex!Leave, Mutex!Lapse

RequestTypes ==
    /\ pc \in [Tasks -> Phases]
    /\ job \in [Tasks -> Job \cup {Nothing}]
    /\ write \in [Tasks -> Write \cup {Nothing}]
    /\ started \in Nat

\* The entries of the audit log are writes.
LEMMA AuditEntry ==
    ASSUME TypeOK, NEW i \in DOMAIN audit
    PROVE  /\ i \in 1 .. Len(audit) /\ audit[i] \in Write
           /\ audit[i].before \in Files /\ audit[i].after \in Files
<1>1. i \in 1 .. Len(audit) /\ audit[i] \in Write
  BY LenProperties, ElementOfSeq DEF TypeOK
<1>2. QED
  BY <1>1 DEF Write

\* A request that begins has a job.
LEMMA RequestJob ==
    ASSUME TypeOK, NEW t \in Tasks, RequestEdit(t) \/ RequestRevert(t)
    PROVE  \E j \in Job :
              /\ Request(t, j)
              /\ \/ j \in EditJob /\ (resource = "policy" => \A p \in DOMAIN j.set : j.set[p] \in Values)
                 \/ j \in RevertJob /\ \E i \in 1 .. Len(audit) : j.original = audit[i].before
<1>1. CASE RequestEdit(t)
  <2>1. PICK set \in Edits : Request(t, [op |-> "edit", set |-> set])
    BY <1>1 DEF RequestEdit
  <2>2. [op |-> "edit", set |-> set] \in EditJob
    BY EditIsJob
  <2>3. resource = "policy" => \A p \in DOMAIN set : set[p] \in Values
    BY PolicyEditLoads
  <2>4. QED
    BY <2>1, <2>2, <2>3, JobTypes
<1>2. CASE RequestRevert(t)
  <2>1. PICK i \in DOMAIN audit : Request(t, [op |-> "revert", original |-> audit[i].before])
    BY <1>2 DEF RequestRevert
  <2>2. i \in 1 .. Len(audit) /\ audit[i].before \in Files
    BY AuditEntry
  <2>3. [op |-> "revert", original |-> audit[i].before] \in RevertJob
    BY <2>2, JobTypes
  <2>4. QED
    BY <2>1, <2>2, <2>3, JobTypes
<1>3. QED
  BY <1>1, <1>2

LEMMA RequestType ==
    ASSUME Inv, [Next]_vars
    PROVE  RequestTypes'
<1> USE DEF Inv, TypeOK, RequestTypes, Phases
<1>1. ASSUME NEW t \in Tasks, RequestEdit(t) \/ RequestRevert(t)
      PROVE  RequestTypes'
  <2>1. PICK j \in Job : Request(t, j)
    BY <1>1, RequestJob
  <2>2. QED
    BY <2>1 DEF Request
<1>2. ASSUME NEW t \in Tasks, Read(t)
      PROVE  RequestTypes'
  <2>1. write' \in [Tasks -> Write \cup {Nothing}]
    BY <1>2, ReadWrites
  <2>2. QED
    BY <1>2, <2>1 DEF Read
<1>3. ASSUME NEW t \in Tasks,
             \/ Acquire(t) \/ LockUnavailable(t) \/ RefuseEdit(t) \/ WriteFile(t)
             \/ CheckPasses(t) \/ CheckFails(t) \/ RecordEntry(t) \/ RecordFails(t)
             \/ Invalidate(t) \/ Release(t)
      PROVE  RequestTypes'
  BY <1>3 DEF Acquire, LockUnavailable, RefuseEdit, WriteFile, CheckPasses, CheckFails,
     RecordEntry, RecordFails, Invalidate, Release, Goto, GotoEnd, Finish
<1>4. ASSUME NEW r \in Replicas, Crash(r)
      PROVE  RequestTypes'
  BY <1>4 DEF Crash
<1>5. CASE Expire \/ (\E l \in Readers : ReaderNext(l)) \/ UNCHANGED vars
  BY <1>5 DEF Expire, ReaderNext, AwaitLoad, Found, StartLoad, EndLoad, Loaded, LoadFails,
     requestVars, vars
<1>6. QED
  BY <1>1, <1>2, <1>3, <1>4, <1>5 DEF Next, TaskNext

\* How the file, the audit log and the caches change.
LEMMA FileStep ==
    ASSUME Inv, [Next]_vars
    PROVE  \/ UNCHANGED file
           \/ \E t \in Tasks :
                 /\ write[t] \in Write
                 /\ \/ WriteFile(t) /\ file' = write[t].after
                    \/ CheckFails(t) /\ file' = write[t].before
BY DEF Inv, WriteInv, Knows, Next, vars, TaskNext, ReaderNext, RequestEdit, RequestRevert, Request,
       Acquire, LockUnavailable, RefuseEdit, Read, WriteFile, WriteText, CheckPasses, CheckFails,
       RecordEntry, RecordFails, Invalidate, Release, AwaitLoad, Found, StartLoad, EndLoad,
       Loaded, LoadFails, Crash, Expire

LEMMA AuditStep ==
    ASSUME Inv, [Next]_vars
    PROVE  \/ UNCHANGED audit
           \/ \E t \in Tasks :
                 /\ RecordEntry(t)
                 /\ write[t] \in Write
                 /\ audit' = Append(audit, write[t])
BY DEF Inv, WriteInv, Knows, Next, vars, TaskNext, ReaderNext, RequestEdit, RequestRevert, Request,
       Acquire, LockUnavailable, RefuseEdit, Read, WriteFile, WriteText, CheckPasses, CheckFails,
       RecordEntry, RecordFails, Invalidate, Release, AwaitLoad, Found, StartLoad, EndLoad,
       Loaded, LoadFails, Crash, Expire

LEMMA FileType ==
    ASSUME Inv, [Next]_vars
    PROVE  file' \in Files /\ audit' \in Seq(Write)
<1>1. file' \in Files
  BY FileStep DEF Inv, TypeOK, Write
<1>2. audit' \in Seq(Write)
  <2>1. CASE UNCHANGED audit
    BY <2>1 DEF Inv, TypeOK
  <2>2. ASSUME NEW t \in Tasks, write[t] \in Write, audit' = Append(audit, write[t])
        PROVE  audit' \in Seq(Write)
    BY <2>2, AppendProperties DEF Inv, TypeOK
  <2>3. QED
    BY <2>1, <2>2, AuditStep
<1>3. QED
  BY <1>1, <1>2

CacheTypes ==
    /\ cache \in [Replicas -> Files \cup {Nothing}]
    /\ reading \in [Readers -> {"idle", "waiting", "loading"}]
    /\ loading \in [Readers -> Files \cup {Nothing}]
    /\ unaware \in [Replicas -> BOOLEAN]
    /\ cutOff \in BOOLEAN
    /\ resource \in {"preset", "policy"}

LEMMA CacheType ==
    ASSUME Inv, [Next]_vars
    PROVE  CacheTypes'
<1> USE DEF Inv, TypeOK, CacheTypes
<1>1. ASSUME NEW l \in Readers, ReaderNext(l)
      PROVE  CacheTypes'
  <2>1. UNCHANGED <<unaware, cutOff, resource>>
    BY <1>1 DEF ReaderNext, AwaitLoad, Found, StartLoad, EndLoad, Loaded, LoadFails
  <2>2. \/ UNCHANGED cache
        \/ cache' = [cache EXCEPT ![Home[l]] = loading[l]]
    BY <1>1 DEF ReaderNext, AwaitLoad, Found, StartLoad, EndLoad, Loaded, LoadFails
  <2>3. /\ \E step \in {"idle", "waiting", "loading"} : reading' = [reading EXCEPT ![l] = step]
        /\ \/ UNCHANGED loading
           \/ \E f \in {file, Nothing} : loading' = [loading EXCEPT ![l] = f]
    BY <1>1 DEF ReaderNext, AwaitLoad, Found, StartLoad, EndLoad, Loaded, LoadFails
  <2>4. QED
    BY <2>1, <2>2, <2>3
<1>2. ASSUME NEW t \in Tasks, NEW text, WriteText(t, text)
      PROVE  unaware' \in [Replicas -> BOOLEAN]
  <2>1. unaware' = [r \in Replicas |-> unaware[r] \/ r # Home[t] \/ IsLoading(r)]
    BY <1>2 DEF WriteText
  <2>2. \A r \in Replicas : (unaware[r] \/ r # Home[t] \/ IsLoading(r)) \in BOOLEAN
    BY Zenon
  <2>3. QED
    BY <2>1, <2>2, Zenon
<1>3. ASSUME NEW t \in Tasks, WriteFile(t) \/ CheckFails(t)
      PROVE  CacheTypes'
  <2>1. \E text : WriteText(t, text)
    BY <1>3 DEF WriteFile, CheckFails
  <2>2. UNCHANGED <<cache, reading, loading, cutOff, resource>>
    BY <1>3 DEF WriteFile, CheckFails, cacheVars
  <2>3. QED
    BY <1>2, <2>1, <2>2
<1>4. ASSUME NEW t \in Tasks, Invalidate(t)
      PROVE  CacheTypes'
  <2>1. /\ unaware' = [unaware EXCEPT ![Home[t]] = unaware[Home[t]] /\ IsLoading(Home[t])]
        /\ cache' = [cache EXCEPT ![Home[t]] = Nothing]
        /\ UNCHANGED <<reading, loading, cutOff, resource>>
    BY <1>4 DEF Invalidate
  <2>2. (unaware[Home[t]] /\ IsLoading(Home[t])) \in BOOLEAN
    BY Zenon
  <2>3. unaware' \in [Replicas -> BOOLEAN]
    BY <2>1, <2>2, Zenon
  <2>4. QED
    BY <2>1, <2>3
<1>5. ASSUME NEW t \in Tasks, RecordFails(t)
      PROVE  CacheTypes'
  BY <1>5 DEF RecordFails, cacheVars
<1>6. ASSUME NEW r \in Replicas, Crash(r)
      PROVE  CacheTypes'
  <2>1. cutOff' \in BOOLEAN
    <3> DEFINE dies == \E t \in Tasks : Home[t] = r /\ pc[t] = "check"
    <3>1. cutOff' = (cutOff \/ dies)
      BY <1>6, Zenon DEF Crash
    <3>2. (cutOff \/ dies) \in BOOLEAN
      BY Zenon
    <3>3. QED
      BY <3>1, <3>2, Zenon
  <2>2. QED
    BY <1>6, <2>1 DEF Crash
<1>7. ASSUME UNCHANGED <<cacheVars, unaware, cutOff, resource>>
      PROVE  CacheTypes'
  BY <1>7 DEF cacheVars
<1>8. \/ \E l \in Readers : ReaderNext(l)
      \/ \E t \in Tasks : WriteFile(t) \/ CheckFails(t) \/ Invalidate(t) \/ RecordFails(t)
      \/ \E r \in Replicas : Crash(r)
      \/ UNCHANGED <<cacheVars, unaware, cutOff, resource>>
  BY DEF Next, vars, TaskNext, RequestEdit, RequestRevert, Request, Acquire,
     LockUnavailable, RefuseEdit, Read, CheckPasses, RecordEntry, Release, Expire
<1>9. QED
  BY <1>1, <1>3, <1>4, <1>5, <1>6, <1>7, <1>8

LEMMA TypeStep ==
    ASSUME Inv, [Next]_vars
    PROVE  TypeOK'
BY MutexType, RequestType, FileType, CacheType
   DEF Inv, TypeOK, RequestTypes, Phases, CacheTypes

-----------------------------------------------------------------------------
(* The lock *)

LEMMA LockStep ==
    ASSUME Inv, [Next]_vars
    PROVE  LockInv'
<1> USE ConfigAssumption DEF Inv, TypeOK, Mutex!TypeOK, LockInv, InLock, mutexVars
<1>1. ASSUME NEW t \in Tasks, Acquire(t)
      PROVE  LockInv'
  BY <1>1 DEF Acquire, Mutex!Enter, Goto
<1>2. ASSUME NEW t \in Tasks, Release(t)
      PROVE  LockInv'
  <2>1. /\ pc[t] \in InLock
        /\ pc' = [pc EXCEPT ![t] = "idle"] \/ pc' = [pc EXCEPT ![t] = "invalidate_after"]
        /\ inside' = inside \ {t}
    BY <1>2 DEF Release, Mutex!Leave, Goto, GotoEnd, Finish
  <2>2. owner' \in {owner, IF owner = t THEN NoTask ELSE owner}
    BY <1>2 DEF Release, Mutex!Leave
  <2>3. \A u \in Tasks : u # t => /\ pc'[u] = pc[u]
                                  /\ u \in inside' <=> u \in inside
                                  /\ owner = u => owner' = u
    BY <2>1, <2>2
  <2>4. pc'[t] \notin InLock /\ t \notin inside'
    BY <2>1
  <2>5. QED
    BY <2>3, <2>4
<1>3. ASSUME NEW t \in Tasks,
             \/ RefuseEdit(t) \/ Read(t) \/ WriteFile(t) \/ CheckPasses(t) \/ CheckFails(t)
             \/ RecordEntry(t) \/ RecordFails(t)
             \/ Invalidate(t) /\ pc[t] = "invalidate"
      PROVE  LockInv'
  <2>1. /\ pc[t] \in InLock
        /\ \E step \in InLock :
              /\ step \in {"read", "write", "check"} => pc[t] \in {"read", "write", "check"}
              /\ pc' = [pc EXCEPT ![t] = step]
        /\ UNCHANGED <<owner, inside>>
    BY <1>3 DEF RefuseEdit, Read, WriteFile, CheckPasses, CheckFails, RecordEntry, RecordFails,
       Invalidate, Goto, GotoEnd
  <2>2. QED
    BY <2>1
<1>4. ASSUME NEW t \in Tasks,
             \/ LockUnavailable(t)
             \/ Invalidate(t) /\ pc[t] = "invalidate_after"
             \/ \E j \in Job : Request(t, j)
      PROVE  LockInv'
  <2>1. /\ pc[t] \notin InLock
        /\ \E step \in {"idle", "wait"} : pc' = [pc EXCEPT ![t] = step]
        /\ UNCHANGED <<owner, inside>>
    BY <1>4 DEF LockUnavailable, Invalidate, Request, Finish, GotoEnd
  <2>2. QED
    BY <2>1
<1>5. ASSUME NEW r \in Replicas, Crash(r)
      PROVE  LockInv'
  <2> DEFINE dead == {t \in Tasks : Home[t] = r}
  <2>1. /\ pc' = [t \in Tasks |-> IF t \in dead THEN "idle" ELSE pc[t]]
        /\ inside' = inside \ dead
        /\ owner' \in {owner, IF owner \in dead \cap inside THEN NoTask ELSE owner}
    BY <1>5 DEF Crash, Mutex!Leave
  <2>2. \A t \in Tasks : pc'[t] \in {"read", "write", "check"} => owner' = t
    BY <2>1
  <2>3. \A t \in Tasks : pc'[t] \in InLock <=> t \in inside'
    BY <2>1
  <2>4. QED
    BY <2>2, <2>3
<1>6. CASE (\E l \in Readers : ReaderNext(l)) \/ UNCHANGED vars
  BY <1>6 DEF ReaderNext, AwaitLoad, Found, StartLoad, EndLoad, Loaded, LoadFails,
     requestVars, vars
<1>7. CASE Expire
  \* A lock expires under its holder only when that one waits for the audit log's.
  <2>1. \A t \in Tasks : pc[t] \in {"read", "write", "check"} => owner # t
    BY <1>7 DEF Expire
  <2>2. UNCHANGED <<pc, inside>>
    BY <1>7 DEF Expire, Mutex!Lapse, requestVars
  <2>3. QED
    BY <2>1, <2>2
<1>8. ASSUME NEW t \in Tasks, TaskNext(t)
      PROVE  LockInv'
  <2>1. CASE Invalidate(t)
    BY <1>3, <1>4, <2>1 DEF Invalidate
  <2>2. CASE RequestEdit(t) \/ RequestRevert(t)
    BY <1>4, <2>2, RequestJob
  <2>3. CASE Acquire(t) \/ Release(t) \/ LockUnavailable(t)
    BY <1>1, <1>2, <1>4, <2>3
  <2>4. CASE \/ RefuseEdit(t) \/ Read(t) \/ WriteFile(t) \/ CheckPasses(t) \/ CheckFails(t)
             \/ RecordEntry(t) \/ RecordFails(t)
    BY <1>3, <2>4
  <2>5. QED
    BY <1>8, <2>1, <2>2, <2>3, <2>4 DEF TaskNext
<1>9. QED
  BY <1>5, <1>6, <1>7, <1>8, Zenon DEF Next

\* No two requests are before their audit entry.
LEMMA OneOwner ==
    ASSUME Inv, NEW t \in Tasks, NEW u \in Tasks,
           pc[t] \in {"read", "write", "check"}, pc[u] \in {"read", "write", "check"}
    PROVE  t = u
BY DEF Inv, LockInv

-----------------------------------------------------------------------------
(* What the requests know *)

\* A request leaves the others alone.
LEMMA OthersUndisturbed ==
    ASSUME Inv, NEW t \in Tasks, TaskNext(t), NEW u \in Tasks, u # t
    PROVE  /\ pc'[u] = pc[u] /\ job'[u] = job[u] /\ write'[u] = write[u]
           /\ UNCHANGED <<resource, cutOff>>
           /\ UNCHANGED file \/ pc[t] \in {"write", "check"}
<1> USE DEF Inv, TypeOK
<1>1. CASE RequestEdit(t) \/ RequestRevert(t)
  BY <1>1 DEF RequestEdit, RequestRevert, Request
<1>2. CASE Read(t)
  BY <1>2 DEF Read
<1>3. CASE \/ Acquire(t) \/ LockUnavailable(t) \/ RefuseEdit(t) \/ WriteFile(t)
           \/ CheckPasses(t) \/ CheckFails(t) \/ RecordEntry(t) \/ RecordFails(t)
           \/ Invalidate(t) \/ Release(t)
  BY <1>3 DEF Acquire, LockUnavailable, RefuseEdit, WriteFile, CheckPasses, CheckFails,
     RecordEntry, RecordFails, Invalidate, Release, Goto, GotoEnd, Finish
<1>4. QED
  BY <1>1, <1>2, <1>3 DEF TaskNext

LEMMA NoReplicaDies ==
    ASSUME NEW t \in Tasks, TaskNext(t)
    PROVE  UNCHANGED <<resource, cutOff>>
BY DEF TaskNext, RequestEdit, RequestRevert, Request, Acquire, LockUnavailable, RefuseEdit, Read,
   WriteFile, CheckPasses, CheckFails, RecordEntry, RecordFails, Invalidate, Release

\* What happens beside the requests; a crash ends some.
LEMMA RequestsUndisturbed ==
    ASSUME Inv,
           \/ \E l \in Readers : ReaderNext(l)
           \/ \E r \in Replicas : Crash(r)
           \/ Expire \/ UNCHANGED vars
    PROVE  /\ UNCHANGED <<resource, file, audit>>
           /\ \A u \in Tasks : \/ pc'[u] = pc[u] /\ job'[u] = job[u] /\ write'[u] = write[u]
                               \/ /\ pc'[u] = "idle" /\ job'[u] = Nothing
                                  /\ pc[u] = "check" => cutOff'
           /\ cutOff => cutOff'
<1>1. CASE (\E l \in Readers : ReaderNext(l)) \/ Expire \/ UNCHANGED vars
  BY <1>1 DEF ReaderNext, AwaitLoad, Found, StartLoad, EndLoad, Loaded, LoadFails, Expire,
     requestVars, vars
<1>2. ASSUME NEW r \in Replicas, Crash(r)
      PROVE  /\ UNCHANGED <<resource, file, audit>>
             /\ \A u \in Tasks : \/ pc'[u] = pc[u] /\ job'[u] = job[u] /\ write'[u] = write[u]
                                 \/ /\ pc'[u] = "idle" /\ job'[u] = Nothing
                                    /\ pc[u] = "check" => cutOff'
             /\ cutOff => cutOff'
  <2>1. cutOff' = (cutOff \/ \E t \in {u \in Tasks : Home[u] = r} : pc[t] = "check")
    BY <1>2, Zenon DEF Crash
  <2>2. /\ pc' = [t \in Tasks |-> IF Home[t] = r THEN "idle" ELSE pc[t]]
        /\ job' = [t \in Tasks |-> IF Home[t] = r THEN Nothing ELSE job[t]]
        /\ write' = [t \in Tasks |-> IF Home[t] = r THEN Nothing ELSE write[t]]
        /\ UNCHANGED <<resource, file, audit>>
    BY <1>2 DEF Crash
  <2>3. QED
    BY <2>1, <2>2
<1>3. QED
  BY <1>1, <1>2

LEMMA WriteStep ==
    ASSUME Inv, [Next]_vars
    PROVE  WriteInv'
<1> USE DEF Inv, TypeOK
<1>1. ASSUME NEW t \in Tasks, TaskNext(t), NEW u \in Tasks, u # t
      PROVE  Knows(u)'
  <2>1. /\ pc'[u] = pc[u] /\ job'[u] = job[u] /\ write'[u] = write[u]
        /\ resource' = resource
        /\ UNCHANGED file \/ pc[t] \in {"write", "check"}
    BY <1>1, OthersUndisturbed
  <2>2. pc[u] \in {"write", "check"} => UNCHANGED file
    BY <1>1, <2>1, OneOwner
  <2>3. Knows(u)
    BY DEF WriteInv
  <2>4. QED
    BY <2>1, <2>2, <2>3 DEF Knows
<1>2. ASSUME NEW t \in Tasks, TaskNext(t)
      PROVE  Knows(t)'
  <2> USE DEF Knows
  <2>1. Knows(t) /\ Nothing \notin EditJob
    BY JobTypes DEF WriteInv
  <2>2. CASE RequestEdit(t) \/ RequestRevert(t)
    <3>1. PICK j \in Job :
              /\ Request(t, j)
              /\ \/ j \in EditJob /\ (resource = "policy" => \A p \in DOMAIN j.set : j.set[p] \in Values)
                 \/ j \in RevertJob
      BY <2>2, RequestJob
    <3>2. j \in RevertJob => j \notin EditJob
      BY JobTypes
    <3>3. pc'[t] = "wait" /\ job'[t] = j /\ UNCHANGED resource
      BY <3>1 DEF Request
    <3>4. QED
      BY <3>1, <3>2, <3>3
  <2>3. CASE Read(t)
    BY <2>1, <2>3, ReadWrites DEF Read
  <2>4. CASE WriteFile(t)
    BY <2>1, <2>4 DEF WriteFile, WriteText, Goto
  <2>5. CASE \/ Acquire(t) \/ LockUnavailable(t) \/ RefuseEdit(t)
             \/ CheckPasses(t) \/ CheckFails(t) \/ RecordEntry(t) \/ RecordFails(t)
             \/ Invalidate(t) \/ Release(t)
    BY <2>1, <2>5 DEF Acquire, LockUnavailable, RefuseEdit, CheckPasses, CheckFails, RecordEntry,
       RecordFails, Invalidate, Release, Goto, GotoEnd, Finish
  <2>6. QED
    BY <1>2, <2>2, <2>3, <2>4, <2>5 DEF TaskNext
<1>3. CASE \/ \E l \in Readers : ReaderNext(l)
           \/ \E r \in Replicas : Crash(r)
           \/ Expire \/ UNCHANGED vars
  BY <1>3, RequestsUndisturbed, JobTypes DEF WriteInv, Knows
<1>4. QED
  BY <1>1, <1>2, <1>3 DEF Next, WriteInv

LEMMA InvInit == Init => Inv
<1> SUFFICES ASSUME Init
             PROVE  Inv
  OBVIOUS
<1>1. file \in Files /\ [Parts -> Values] \subseteq Files
  BY DEF Init, Files
<1>2. audit \in Seq(Write)
  BY <1>1 DEF Init, Write
<1>3. TypeOK
  BY <1>1, <1>2 DEF Init, TypeOK, Mutex!Init, Mutex!TypeOK
<1>4. LockInv /\ WriteInv
  BY JobTypes DEF Init, LockInv, InLock, WriteInv, Knows, Mutex!Init
<1>5. QED
  BY <1>3, <1>4 DEF Inv

LEMMA InvStep == Inv /\ [Next]_vars => Inv'
BY TypeStep, LockStep, WriteStep DEF Inv

-----------------------------------------------------------------------------
(* What loads *)

LEMMA GoodInit == Init => GoodInv
<1> SUFFICES ASSUME Init
             PROVE  GoodInv
  OBVIOUS
<1>1. \A f \in [Parts -> Values] : Loads(f)
  BY ConfigAssumption DEF Loads
<1>2. PICK before \in [Parts -> Values] : audit = <<[before |-> before, after |-> file]>>
  BY DEF Init
<1>3. /\ Loads(file)
      /\ \A i \in 1 .. Len(audit) : Loads(audit[i].before) /\ Loads(audit[i].after)
  BY <1>1, <1>2 DEF Init
<1>4. \A t \in Tasks : Harmless(t)
  BY JobTypes DEF Init, Harmless
<1>5. QED
  BY <1>3, <1>4 DEF GoodInv

\* What a request reads, it can go back to; what it writes unchecked loads.
LEMMA ReadHarmless ==
    ASSUME Inv, GoodInv, ~cutOff, NEW t \in Tasks, Read(t)
    PROVE  Harmless(t)'
<1>1. /\ pc[t] = "read" /\ pc'[t] = "write"
      /\ job' = job /\ resource' = resource
      /\ job[t] \in Job
  BY DEF Read, Inv, TypeOK, WriteInv, Knows
<1>2. Loads(file)
  <2>1. \A u \in Tasks : pc[u] # "check"
    BY <1>1, OneOwner
  <2>2. QED
    BY <2>1 DEF GoodInv
<1>3. /\ write'[t].before = file
      /\ write'[t].after = IF job[t].op = "revert" THEN job[t].original
                                                   ELSE Merged(file, job[t].set)
  BY ReadWrites
<1>4. job[t] \in RevertJob => Loads(job[t].original)
  BY DEF GoodInv, Harmless
<1>5. resource = "policy" /\ job[t] \in EditJob => Loads(Merged(file, job[t].set))
  BY <1>2, MergedLoads DEF Inv, WriteInv, Knows, TypeOK
<1>6. resource \in {"preset", "policy"}
  BY DEF Inv, TypeOK
<1>7. ~(resource = "preset" /\ job[t].op = "edit") => Loads(write'[t].after)
  <2>1. CASE job[t] \in RevertJob
    BY <1>3, <1>4, <2>1, JobTypes
  <2>2. CASE job[t] \in EditJob
    BY <1>3, <1>5, <1>6, <2>2, JobTypes
  <2>3. QED
    BY <1>1, <2>1, <2>2, JobTypes
<1>8. Loads(write'[t].before)
  BY <1>2, <1>3
<1>9. (job[t] \in RevertJob)' => Loads(job'[t].original)
  BY <1>1, <1>4
<1>10. QED
  BY <1>1, <1>7, <1>8, <1>9 DEF Harmless, Loads

\* The request that makes a step stays harmless.
LEMMA OwnHarmless ==
    ASSUME Inv, GoodInv, ~cutOff, NEW t \in Tasks, TaskNext(t)
    PROVE  Harmless(t)'
<1> USE DEF Harmless, Loads
<1>1. /\ Harmless(t) /\ Knows(t) /\ Nothing \notin RevertJob
      /\ pc \in [Tasks -> Phases] /\ job \in [Tasks -> Job \cup {Nothing}]
  BY JobTypes DEF GoodInv, Inv, WriteInv, TypeOK, Phases
<1>2. CASE RequestEdit(t) \/ RequestRevert(t)
  <2>1. PICK j \in Job :
            /\ Request(t, j)
            /\ \/ j \in EditJob
               \/ j \in RevertJob /\ \E i \in 1 .. Len(audit) : j.original = audit[i].before
    BY <1>2, RequestJob DEF Inv
  <2>2. j \in RevertJob => Loads(j.original)
    BY <2>1, JobTypes DEF GoodInv
  <2>3. pc'[t] = "wait" /\ job'[t] = j
    BY <1>1, <2>1 DEF Request
  <2>4. QED
    BY <2>2, <2>3
<1>3. CASE Read(t)
  BY <1>3, ReadHarmless
<1>4. CASE WriteFile(t)
  <2>1. /\ job' = job /\ write' = write /\ pc[t] = "write"
        /\ pc'[t] = IF resource = "preset" /\ job[t].op = "edit" THEN "check" ELSE "audit"
    BY <1>1, <1>4 DEF WriteFile, Goto
  <2>2. QED
    BY <1>1, <2>1
<1>5. CASE CheckPasses(t)
  BY <1>1, <1>5 DEF CheckPasses, Goto, Knows
<1>6. CASE \/ Acquire(t) \/ LockUnavailable(t) \/ RefuseEdit(t)
           \/ CheckFails(t) \/ RecordEntry(t) \/ RecordFails(t)
           \/ Invalidate(t) \/ Release(t)
  <2>1. /\ \/ job' = job
           \/ job' = [job EXCEPT ![t] = Nothing]
        /\ pc'[t] \notin {"write", "check", "audit"}
    BY <1>1, <1>6 DEF Acquire, LockUnavailable, RefuseEdit, CheckFails, RecordEntry,
       RecordFails, Invalidate, Release, Goto, GotoEnd, Finish
  <2>2. QED
    BY <1>1, <2>1
<1>7. QED
  BY <1>2, <1>3, <1>4, <1>5, <1>6 DEF TaskNext

\* Where nothing is being checked the file loads.
LEMMA FileStaysGood ==
    ASSUME Inv, GoodInv, ~cutOff, NEW t \in Tasks, TaskNext(t)
    PROVE  (\E u \in Tasks : pc'[u] = "check") \/ Loads(file)'
<1> USE DEF Loads
<1>1. /\ Harmless(t) /\ Knows(t)
      /\ (\E u \in Tasks : pc[u] = "check") \/ Loads(file)
      /\ pc \in [Tasks -> Phases]
  BY DEF GoodInv, Inv, WriteInv, TypeOK, Phases
<1>2. CASE WriteFile(t)
  <2>1. /\ file' = write[t].after /\ pc[t] = "write"
        /\ pc'[t] = IF resource = "preset" /\ job[t].op = "edit" THEN "check" ELSE "audit"
    BY <1>1, <1>2 DEF WriteFile, WriteText, Goto
  <2>2. QED
    BY <1>1, <2>1 DEF Harmless
<1>3. CASE CheckFails(t)
  BY <1>1, <1>3 DEF CheckFails, WriteText, Harmless
<1>4. CASE CheckPasses(t)
  BY <1>4 DEF CheckPasses
<1>5. CASE \/ RequestEdit(t) \/ RequestRevert(t)
           \/ Acquire(t) \/ LockUnavailable(t) \/ RefuseEdit(t) \/ Read(t)
           \/ RecordEntry(t) \/ RecordFails(t) \/ Invalidate(t) \/ Release(t)
  <2>1. file' = file /\ pc[t] # "check"
    BY <1>5 DEF RequestEdit, RequestRevert, Request, Acquire, LockUnavailable, RefuseEdit, Read,
       RecordEntry, RecordFails, Invalidate, Release
  <2>2. \A u \in Tasks : u # t => pc'[u] = pc[u]
    BY OthersUndisturbed
  <2>3. QED
    BY <1>1, <2>1, <2>2
<1>6. QED
  BY <1>2, <1>3, <1>4, <1>5 DEF TaskNext

LEMMA GoodStep ==
    ASSUME Inv, GoodInv, [Next]_vars
    PROVE  GoodInv'
<1> SUFFICES ASSUME ~cutOff'
             PROVE  /\ (\E t \in Tasks : pc'[t] = "check") \/ Loads(file)'
                    /\ \A i \in 1 .. Len(audit') : Loads(audit[i].before)' /\ Loads(audit[i].after)'
                    /\ \A t \in Tasks : Harmless(t)'
  BY DEF GoodInv
<1>1. ASSUME NEW t \in Tasks, TaskNext(t), ~cutOff
      PROVE  /\ (\E u \in Tasks : pc'[u] = "check") \/ Loads(file)'
             /\ \A i \in 1 .. Len(audit') : Loads(audit[i].before)' /\ Loads(audit[i].after)'
             /\ \A u \in Tasks : Harmless(u)'
  <2>1. ASSUME NEW u \in Tasks
        PROVE  Harmless(u)'
    <3>1. CASE u = t
      BY <1>1, <3>1, OwnHarmless
    <3>2. CASE u # t
      <4>1. /\ pc'[u] = pc[u] /\ job'[u] = job[u] /\ write'[u] = write[u]
            /\ resource' = resource
        BY <1>1, <3>2, OthersUndisturbed
      <4>2. Harmless(u)
        BY <1>1 DEF GoodInv
      <4>3. QED
        BY <4>1, <4>2 DEF Harmless, Loads
    <3>3. QED
      BY <3>1, <3>2
  <2>2. ASSUME NEW i \in 1 .. Len(audit')
        PROVE  Loads(audit[i].before)' /\ Loads(audit[i].after)'
    <3>1. CASE UNCHANGED audit
      BY <1>1, <3>1 DEF GoodInv, Loads
    <3>2. ASSUME NEW u \in Tasks, RecordEntry(u), write[u] \in Write,
                 audit' = Append(audit, write[u])
          PROVE  Loads(audit[i].before)' /\ Loads(audit[i].after)'
      <4>1. /\ Len(audit) \in Nat /\ Len(audit') = Len(audit) + 1
            /\ audit'[Len(audit) + 1] = write[u]
            /\ \A k \in 1 .. Len(audit) : audit'[k] = audit[k]
        BY <3>2, AppendProperties, LenProperties DEF Inv, TypeOK
      <4>2. Loads(write[u].before) /\ Loads(write[u].after)
        BY <1>1, <3>2 DEF GoodInv, Harmless, RecordEntry
      <4>3. \A k \in 1 .. Len(audit) : Loads(audit[k].before) /\ Loads(audit[k].after)
        BY <1>1 DEF GoodInv
      <4>4. CASE i = Len(audit) + 1
        BY <4>1, <4>2, <4>4 DEF Loads
      <4>5. CASE i \in 1 .. Len(audit)
        BY <4>1, <4>3, <4>5 DEF Loads
      <4>6. QED
        BY <4>1, <4>4, <4>5
    <3>3. QED
      BY <3>1, <3>2, AuditStep
  <2>3. QED
    BY <1>1, <2>1, <2>2, FileStaysGood
<1>2. ASSUME \/ \E l \in Readers : ReaderNext(l)
             \/ \E r \in Replicas : Crash(r)
             \/ Expire \/ UNCHANGED vars
      PROVE  /\ (\E u \in Tasks : pc'[u] = "check") \/ Loads(file)'
             /\ \A i \in 1 .. Len(audit') : Loads(audit[i].before)' /\ Loads(audit[i].after)'
             /\ \A u \in Tasks : Harmless(u)'
  <2>1. /\ UNCHANGED <<resource, file, audit>>
        /\ \A u \in Tasks : \/ pc'[u] = pc[u] /\ job'[u] = job[u] /\ write'[u] = write[u]
                            \/ /\ pc'[u] = "idle" /\ job'[u] = Nothing
                               /\ pc[u] # "check"
        /\ ~cutOff
    BY <1>2, RequestsUndisturbed
  <2>2. \A u \in Tasks : Harmless(u)'
    BY <2>1, JobTypes DEF GoodInv, Harmless, Loads
  <2>3. (\E u \in Tasks : pc'[u] = "check") \/ Loads(file)'
    BY <2>1 DEF GoodInv, Loads
  <2>4. \A i \in 1 .. Len(audit') : Loads(audit[i].before)' /\ Loads(audit[i].after)'
    BY <2>1 DEF GoodInv, Loads
  <2>5. QED
    BY <2>2, <2>3, <2>4
<1>3. (\E t \in Tasks : TaskNext(t)) => ~cutOff
  BY NoReplicaDies
<1>4. QED
  BY <1>1, <1>2, <1>3 DEF Next

-----------------------------------------------------------------------------
(* What is cached *)

LEMMA HomeType ==
    /\ \A t \in Tasks : Home[t] \in Replicas
    /\ \A l \in Readers : Home[l] \in Replicas
BY ConfigAssumption

\* A write makes the other replicas unaware, and those that are loading.
LEMMA WriteTextUnaware ==
    ASSUME TypeOK, NEW t \in Tasks, NEW text, WriteText(t, text), UNCHANGED loading
    PROVE  /\ file' = text
           /\ \A r \in Replicas : unaware[r] \/ r # Home[t] => unaware'[r]
           /\ \A l \in Readers : FreshLoad(l)'
<1>1. \A r \in Replicas : unaware'[r] = (unaware[r] \/ r # Home[t] \/ IsLoading(r))
  BY DEF WriteText
<1>2. \A r \in Replicas : unaware[r] \/ r # Home[t] => unaware'[r]
  BY <1>1, Zenon
<1>3. ASSUME NEW l \in Readers, loading[l] # Nothing
      PROVE  unaware'[Home[l]]
  <2>1. IsLoading(Home[l])
    BY <1>3 DEF IsLoading
  <2>2. Home[l] \in Replicas
    BY HomeType
  <2>3. QED
    BY <1>1, <2>1, <2>2, Zenon
<1>4. \A l \in Readers : FreshLoad(l)'
  BY <1>3 DEF FreshLoad
<1>5. QED
  BY <1>2, <1>4 DEF WriteText

LEMMA CacheWriteFile ==
    ASSUME Inv, CacheInv, NEW t \in Tasks, WriteFile(t)
    PROVE  CacheInv'
<1>1. /\ UNCHANGED <<cache, loading, write>> /\ WriteText(t, write[t].after) /\ pc[t] = "write"
      /\ \E step \in {"check", "audit"} : pc' = [pc EXCEPT ![t] = step]
      /\ pc'[t] \in {"check", "audit"}
      /\ \A u \in Tasks : u # t => pc'[u] = pc[u]
      /\ write[t].before = file
  BY DEF WriteFile, Goto, cacheVars, Inv, TypeOK, WriteInv, Knows
<1>2. /\ \A r \in Replicas : unaware[r] \/ r # Home[t] => unaware'[r]
      /\ \A l \in Readers : FreshLoad(l)'
  BY <1>1, WriteTextUnaware DEF Inv
<1>3. FreshCache(Home[t])'
  <2>1. CASE cache[Home[t]] \in {Nothing, file}
    BY <1>1, <2>1 DEF FreshCache, Pending
  <2>2. CASE unaware[Home[t]]
    BY <1>2, <2>2, HomeType DEF FreshCache
  <2>3. ASSUME NEW u \in Tasks, Home[u] = Home[t], Pending(u)
        PROVE  FreshCache(Home[t])'
    <3>1. u # t
      BY <1>1, <2>3 DEF Pending
    <3>2. Pending(u)'
      BY <1>1, <2>3, <3>1 DEF Pending
    <3>3. QED
      BY <2>3, <3>2 DEF FreshCache
  <2>4. QED
    BY <2>1, <2>2, <2>3, HomeType DEF CacheInv, FreshCache
<1>4. \A r \in Replicas : FreshCache(r)'
  BY <1>2, <1>3 DEF FreshCache
<1>5. \A r \in Replicas : cache'[r] # Nothing => Loads(cache[r])'
  BY <1>1 DEF CacheInv, Loads
<1>6. QED
  BY <1>2, <1>4, <1>5 DEF CacheInv

\* A roll-back: what was cached before the write is the file again, and what does
\* not load has not been cached.
LEMMA CacheCheckFails ==
    ASSUME Inv, CacheInv, NEW t \in Tasks, CheckFails(t)
    PROVE  CacheInv'
<1>1. /\ UNCHANGED <<cache, loading>> /\ WriteText(t, write[t].before) /\ pc[t] = "check"
      /\ \A u \in Tasks : u # t => pc'[u] = pc[u] /\ write'[u] = write[u]
      /\ ~Loads(file)
  BY DEF CheckFails, GotoEnd, cacheVars, Inv, TypeOK
<1>2. /\ \A r \in Replicas : unaware[r] \/ r # Home[t] => unaware'[r]
      /\ \A l \in Readers : FreshLoad(l)'
      /\ file' = write[t].before
  BY <1>1, WriteTextUnaware DEF Inv
<1>3. FreshCache(Home[t])'
  <2>1. CASE cache[Home[t]] \in {Nothing, file}
    <3>1. cache[Home[t]] = Nothing
      BY <1>1, <2>1, HomeType DEF CacheInv
    <3>2. QED
      BY <1>1, <3>1 DEF FreshCache
  <2>2. CASE unaware[Home[t]]
    BY <1>2, <2>2, HomeType DEF FreshCache
  <2>3. ASSUME NEW u \in Tasks, Home[u] = Home[t], Pending(u)
        PROVE  FreshCache(Home[t])'
    <3>1. CASE u = t
      BY <1>1, <1>2, <2>3, <3>1 DEF Pending, FreshCache
    <3>2. CASE u # t
      <4>1. Pending(u)'
        BY <1>1, <2>3, <3>2 DEF Pending
      <4>2. QED
        BY <2>3, <4>1 DEF FreshCache
    <3>3. QED
      BY <3>1, <3>2
  <2>4. QED
    BY <2>1, <2>2, <2>3, HomeType DEF CacheInv, FreshCache
<1>4. \A r \in Replicas : FreshCache(r)'
  BY <1>2, <1>3 DEF FreshCache
<1>5. \A r \in Replicas : cache'[r] # Nothing => Loads(cache[r])'
  BY <1>1 DEF CacheInv, Loads
<1>6. QED
  BY <1>2, <1>4, <1>5 DEF CacheInv

\* The cache of t's replica is emptied: another one's request is not concerned.
LEMMA CacheInvalidate ==
    ASSUME Inv, CacheInv, NEW t \in Tasks, Invalidate(t)
    PROVE  CacheInv'
<1>1. /\ cache' = [cache EXCEPT ![Home[t]] = Nothing]
      /\ unaware' = [unaware EXCEPT ![Home[t]] = unaware[Home[t]] /\ IsLoading(Home[t])]
      /\ UNCHANGED <<file, loading>>
      /\ \A u \in Tasks : u # t => pc'[u] = pc[u] /\ write'[u] = write[u]
      /\ cache \in [Replicas -> Files \cup {Nothing}] /\ unaware \in [Replicas -> BOOLEAN]
  BY DEF Invalidate, Goto, GotoEnd, Finish, Inv, TypeOK
<1>2. /\ \A r \in Replicas : r # Home[t] => cache'[r] = cache[r] /\ unaware'[r] = unaware[r]
      /\ cache'[Home[t]] = Nothing
      /\ unaware'[Home[t]] = (unaware[Home[t]] /\ IsLoading(Home[t]))
  BY <1>1, HomeType
<1>3. ASSUME NEW l \in Readers
      PROVE  FreshLoad(l)'
  <2>1. FreshLoad(l) /\ Home[l] \in Replicas
    BY HomeType DEF CacheInv
  <2>2. loading[l] # Nothing => IsLoading(Home[l])
    BY DEF IsLoading
  <2>3. CASE Home[l] = Home[t]
    BY <1>1, <1>2, <2>1, <2>2, <2>3, Zenon DEF FreshLoad
  <2>4. CASE Home[l] # Home[t]
    BY <1>1, <1>2, <2>1, <2>4 DEF FreshLoad
  <2>5. QED
    BY <2>3, <2>4
<1>4. ASSUME NEW r \in Replicas
      PROVE  FreshCache(r)'
  <2>1. CASE r = Home[t]
    BY <1>2, <2>1 DEF FreshCache
  <2>2. CASE r # Home[t]
    <3>1. ASSUME NEW u \in Tasks, Home[u] = r, Pending(u)
          PROVE  Pending(u)'
      BY <1>1, <1>2, <2>2, <3>1 DEF Pending
    <3>2. FreshCache(r)
      BY DEF CacheInv
    <3>3. QED
      BY <1>1, <1>2, <2>2, <3>1, <3>2 DEF FreshCache
  <2>3. QED
    BY <2>1, <2>2
<1>5. \A r \in Replicas : cache'[r] # Nothing => Loads(cache[r])'
  BY <1>2 DEF CacheInv, Loads
<1>6. QED
  BY <1>3, <1>4, <1>5 DEF CacheInv

\* The other steps of a request: what is pending stays so, or makes the replica
\* unaware.
LEMMA CacheOther ==
    ASSUME Inv, CacheInv, NEW t \in Tasks,
           \/ RequestEdit(t) \/ RequestRevert(t)
           \/ Acquire(t) \/ LockUnavailable(t) \/ RefuseEdit(t) \/ Read(t)
           \/ CheckPasses(t) \/ RecordEntry(t) \/ RecordFails(t) \/ Release(t)
    PROVE  CacheInv'
<1> USE DEF Inv, TypeOK
<1>1. /\ UNCHANGED <<file, cache, loading>>
      /\ \A u \in Tasks : u # t => pc'[u] = pc[u] /\ write'[u] = write[u]
      /\ unaware' = unaware \/ (RecordFails(t) /\ unaware' = [unaware EXCEPT ![Home[t]] = TRUE])
  <2>1. CASE RequestEdit(t) \/ RequestRevert(t)
    BY <2>1 DEF RequestEdit, RequestRevert, Request, cacheVars
  <2>2. CASE Read(t)
    BY <2>2 DEF Read, cacheVars
  <2>3. CASE \/ Acquire(t) \/ LockUnavailable(t) \/ RefuseEdit(t)
             \/ CheckPasses(t) \/ RecordEntry(t) \/ RecordFails(t) \/ Release(t)
    BY <2>3 DEF Acquire, LockUnavailable, RefuseEdit, CheckPasses, RecordEntry, RecordFails,
       Release, Goto, GotoEnd, Finish, cacheVars
  <2>4. QED
    BY <2>1, <2>2, <2>3
<1>2. \A r \in Replicas : unaware[r] => unaware'[r]
  BY <1>1
<1>3. Pending(t) => Pending(t)' \/ unaware'[Home[t]]
  <2>1. CASE RecordFails(t)
    BY <2>1, HomeType DEF RecordFails
  <2>2. CASE CheckPasses(t) \/ RecordEntry(t) \/ Release(t)
    BY <2>2 DEF CheckPasses, RecordEntry, Release, Goto, GotoEnd, Finish, Pending
  <2>3. CASE \/ RequestEdit(t) \/ RequestRevert(t)
             \/ Acquire(t) \/ LockUnavailable(t) \/ RefuseEdit(t) \/ Read(t)
    BY <2>3 DEF RequestEdit, RequestRevert, Request, Acquire, LockUnavailable, RefuseEdit, Read,
       Pending
  <2>4. QED
    BY <2>1, <2>2, <2>3
<1>4. ASSUME NEW r \in Replicas
      PROVE  FreshCache(r)'
  <2>1. ASSUME NEW u \in Tasks, Home[u] = r, Pending(u)
        PROVE  Pending(u)' \/ unaware'[r]
    <3>1. CASE u = t
      BY <1>3, <2>1, <3>1
    <3>2. CASE u # t
      BY <1>1, <2>1, <3>2 DEF Pending
    <3>3. QED
      BY <3>1, <3>2
  <2>2. FreshCache(r)
    BY DEF CacheInv
  <2>3. QED
    BY <1>1, <1>2, <2>1, <2>2 DEF FreshCache
<1>5. \A l \in Readers : FreshLoad(l)'
  BY <1>1, <1>2, HomeType DEF CacheInv, FreshLoad
<1>6. \A r \in Replicas : cache'[r] # Nothing => Loads(cache[r])'
  BY <1>1 DEF CacheInv, Loads
<1>7. QED
  BY <1>4, <1>5, <1>6 DEF CacheInv

\* A reader caches what it has loaded, if it loads and nothing is cached.
LEMMA CacheReader ==
    ASSUME Inv, CacheInv, NEW l \in Readers, ReaderNext(l)
    PROVE  CacheInv'
<1> USE DEF Inv, TypeOK
<1>1. UNCHANGED <<file, unaware, pc, write>>
  BY DEF ReaderNext, AwaitLoad, Found, StartLoad, EndLoad, Loaded, LoadFails, requestVars
<1>2. \/ UNCHANGED cache
      \/ /\ cache' = [cache EXCEPT ![Home[l]] = loading[l]]
         /\ cache[Home[l]] = Nothing
         /\ Loads(loading[l])
  BY DEF ReaderNext, AwaitLoad, Found, StartLoad, EndLoad, Loaded, LoadFails
<1>3. \/ UNCHANGED loading
      \/ \E f \in {file, Nothing} : loading' = [loading EXCEPT ![l] = f]
  BY DEF ReaderNext, AwaitLoad, Found, StartLoad, EndLoad, Loaded, LoadFails
<1>4. FreshLoad(l)
  BY DEF CacheInv
<1>5. \A k \in Readers : FreshLoad(k)'
  BY <1>1, <1>3 DEF CacheInv, FreshLoad
<1>6. CASE UNCHANGED cache
  <2>1. \A r \in Replicas : FreshCache(r)'
    BY <1>1, <1>6 DEF CacheInv, FreshCache, Pending
  <2>2. \A r \in Replicas : cache'[r] # Nothing => Loads(cache[r])'
    BY <1>6 DEF CacheInv, Loads
  <2>3. QED
    BY <1>5, <2>1, <2>2 DEF CacheInv
<1>7. CASE /\ cache' = [cache EXCEPT ![Home[l]] = loading[l]]
           /\ cache[Home[l]] = Nothing
           /\ Loads(loading[l])
  <2>1. /\ cache'[Home[l]] = loading[l]
        /\ \A r \in Replicas : r # Home[l] => cache'[r] = cache[r]
    BY <1>7, HomeType
  <2>2. ASSUME NEW r \in Replicas
        PROVE  FreshCache(r)'
    <3>1. CASE r = Home[l]
      BY <1>1, <1>4, <2>1, <3>1 DEF FreshCache, FreshLoad
    <3>2. CASE r # Home[l]
      <4>1. ASSUME NEW u \in Tasks, Home[u] = r, Pending(u)
            PROVE  Pending(u)'
        BY <1>1, <2>1, <3>2, <4>1 DEF Pending
      <4>2. FreshCache(r)
        BY DEF CacheInv
      <4>3. QED
        BY <1>1, <2>1, <3>2, <4>1, <4>2 DEF FreshCache
    <3>3. QED
      BY <3>1, <3>2
  <2>3. \A r \in Replicas : cache'[r] # Nothing => Loads(cache[r])'
    BY <1>7, <2>1 DEF CacheInv, Loads
  <2>4. QED
    BY <1>5, <2>2, <2>3 DEF CacheInv
<1>8. QED
  BY <1>2, <1>6, <1>7

\* A replica that comes back has nothing cached and is loading nothing.
LEMMA CacheCrash ==
    ASSUME Inv, CacheInv, NEW r \in Replicas, Crash(r)
    PROVE  CacheInv'
<1>1. /\ UNCHANGED file
      /\ cache'[r] = Nothing
      /\ \A s \in Replicas : s # r => cache'[s] = cache[s] /\ unaware'[s] = unaware[s]
      /\ \A t \in Tasks : Home[t] # r => pc'[t] = pc[t] /\ write'[t] = write[t]
      /\ \A l \in Readers : loading'[l] = IF Home[l] = r THEN Nothing ELSE loading[l]
  BY DEF Crash, Inv, TypeOK
<1>2. ASSUME NEW s \in Replicas
      PROVE  FreshCache(s)'
  <2>1. CASE s = r
    BY <1>1, <2>1 DEF FreshCache
  <2>2. CASE s # r
    <3>1. ASSUME NEW u \in Tasks, Home[u] = s, Pending(u)
          PROVE  Pending(u)'
      BY <1>1, <2>2, <3>1 DEF Pending
    <3>2. FreshCache(s)
      BY DEF CacheInv
    <3>3. QED
      BY <1>1, <2>2, <3>1, <3>2 DEF FreshCache
  <2>3. QED
    BY <2>1, <2>2
<1>3. \A l \in Readers : FreshLoad(l)'
  BY <1>1, HomeType DEF CacheInv, FreshLoad
<1>4. \A s \in Replicas : cache'[s] # Nothing => Loads(cache[s])'
  BY <1>1 DEF CacheInv, Loads
<1>5. QED
  BY <1>2, <1>3, <1>4 DEF CacheInv

LEMMA CacheStep ==
    ASSUME Inv, CacheInv, [Next]_vars
    PROVE  CacheInv'
<1>1. CASE Expire \/ UNCHANGED vars
  BY <1>1 DEF Expire, requestVars, cacheVars, vars, CacheInv, FreshCache, FreshLoad, Pending, Loads
<1>2. ASSUME NEW t \in Tasks, TaskNext(t)
      PROVE  CacheInv'
  BY <1>2, CacheWriteFile, CacheCheckFails, CacheInvalidate, CacheOther DEF TaskNext
<1>3. QED
  BY <1>1, <1>2, CacheReader, CacheCrash DEF Next

-----------------------------------------------------------------------------
(* The theorems *)

\* Every variable keeps its type, and the lock does what the steps rely on.
THEOREM TypeCorrect == Spec => []TypeOK
<1>1. Inv => TypeOK
  BY DEF Inv
<1>2. QED
  BY InvInit, InvStep, <1>1, PTL DEF Spec

\* write_editable_sections and revert_entry leave no preset that does not load,
\* and no audit entry that leads to one, however many overlap, unless a
\* replica dies during a reload check.
THEOREM BadConfigNeverKept == Spec => []NoBadConfigKept
<1>1. TypeOK /\ GoodInv => NoBadConfigKept
  BY AuditEntry DEF GoodInv, NoBadConfigKept
<1>2. Init => Inv /\ GoodInv
  BY InvInit, GoodInit
<1>3. Inv /\ GoodInv /\ [Next]_vars => (Inv /\ GoodInv)'
  BY InvStep, GoodStep
<1>4. Inv => TypeOK
  BY DEF Inv
<1>5. QED
  BY <1>1, <1>2, <1>3, <1>4, PTL DEF Spec

\* What _persist_config and atomic_write_text put into a file was made from the
\* file as it is at that moment: no concurrent change is overwritten.
THEOREM EditsNeverClobber == Spec => EditsCompose
<1>1. ASSUME Inv, [Next]_vars, file' # file
      PROVE  \E t \in Tasks :
                \/ pc[t] = "write" /\ job[t].op = "edit" /\ file' = Merged(file, job[t].set)
                \/ pc[t] = "write" /\ job[t].op = "revert" /\ file' = job[t].original
                \/ pc[t] = "check" /\ file = write[t].after /\ file' = write[t].before
  <2>1. PICK t \in Tasks : \/ WriteFile(t) /\ file' = write[t].after
                           \/ CheckFails(t) /\ file' = write[t].before
    BY <1>1, FileStep
  <2>2. Knows(t)
    BY <1>1 DEF Inv, WriteInv
  <2>3. CASE WriteFile(t) /\ file' = write[t].after
    <3>1. pc[t] = "write" /\ job[t] \in Job
      BY <2>2, <2>3 DEF WriteFile, Knows
    <3>2. job[t].op \in {"edit", "revert"}
      BY <3>1, JobTypes
    <3>3. QED
      BY <2>2, <2>3, <3>1, <3>2 DEF Knows
  <2>4. CASE CheckFails(t) /\ file' = write[t].before
    BY <2>2, <2>4 DEF CheckFails, Knows
  <2>5. QED
    BY <2>1, <2>3, <2>4
<1>2. QED
  BY <1>1, InvInit, InvStep, PTL DEF Spec, EditsCompose

\* invalidate() and cache_clear() do their work: a replica has a configuration
\* cached that is no longer the file's only if it could not know.
THEOREM StaleOnlyUnaware == Spec => []StaleOnlyIfUnaware
<1>1. CacheInv => StaleOnlyIfUnaware
  BY DEF CacheInv, FreshCache, Pending, StaleOnlyIfUnaware
<1>2. Init => CacheInv
  BY HomeType DEF Init, CacheInv, FreshCache, FreshLoad
<1>3. Inv /\ CacheInv /\ [Next]_vars => (Inv /\ CacheInv)'
  BY InvStep, CacheStep
<1>4. QED
  BY <1>1, <1>2, <1>3, InvInit, PTL DEF Spec

=============================================================================
