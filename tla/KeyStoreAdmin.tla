---------------------------- MODULE KeyStoreAdmin ----------------------------
(***************************************************************************)
(* Key management through the admin API: app/auth/keys.py (create_key,     *)
(* update_key_fields, rotate_key, delete_key, _persist_config, the cached  *)
(* get_key_store), and app/core/audit.py's revert_entry on this resource   *)
(* with the endpoint around it (app/api/routes/admin.py).                  *)
(*                                                                         *)
(* The file is shared by all replicas and written under the `api_keys'     *)
(* lock.  Each replica caches the parsed file and clears its own cache     *)
(* when it has written; get_key_store runs in worker threads, so a load    *)
(* can overlap anything the event loop does.  record_entry is one step     *)
(* here, or a failure: HashChainedLog is its detail.                       *)
(***************************************************************************)
EXTENDS KeyStoreFile, Sequences, FiniteSets

CONSTANTS
    Replicas,
    Tasks,          \* admin requests
    Threads,        \* worker threads resolving the get_key_store dependency
    Home,           \* the replica of a task or a thread
    NoTask,
    Nothing,        \* no job, nothing to write, nothing cached
    UseRedis,       \* is REDIS_URL set?
    SlowLoads,      \* may a load overlap an admin write of its replica?
    MayFail,        \* may record_entry fail after the file was written?
    MayCrash,       \* may a replica die?
    MayLapse,       \* may the lock expire while record_entry waits for its own?
    MaxWrites       \* bound: admin requests in a behaviour

Edits == {"create", "update", "rotate", "delete"}

\* What a request asks for: the edit of a key, or the return to the `before' of
\* an audit entry.
EditJob == [op : Edits, key : Keys, keys_write : BOOLEAN, key_hash : Nat]
RevertJob == [op : {"revert"}, original : Files]
Job == EditJob \cup RevertJob

\* A write of the file, as the audit log records it.
Write == [before : Files, after : Files]

ASSUME KeyStoreAssumption ==
    /\ NoKey \notin APIKeyRecord
    /\ NoTask \notin Tasks
    /\ Nothing \notin Job \cup Write \cup Files
    /\ Home \in [Tasks \cup Threads -> Replicas]
    \* Without Redis the lock is the process's own: one replica.
    /\ UseRedis \in BOOLEAN
    /\ UseRedis \/ \A r, s \in Replicas : r = s
    /\ SlowLoads \in BOOLEAN /\ MayLapse \in BOOLEAN
    /\ MayFail \in BOOLEAN /\ MayCrash \in BOOLEAN
    /\ MaxWrites \in Nat

VARIABLES
    owner, inside,  \* the `api_keys' lock
    pc,             \* where each admin request is
    job,            \* what it asks for
    write,          \* the write it has prepared
    file,           \* config/api_keys.yaml
    audit,          \* the entries of the audit log for this resource
    cache,          \* get_key_store's cached result, per replica
    loading,        \* the file a worker thread has read but not yet returned
    raced,          \* was the file written during a load of this replica?
    started,        \* how many admin requests there have been
    history         \* every content the file has had

mutexVars == <<owner, inside>>
requestVars == <<pc, job, write, started>>
cacheVars == <<cache, loading, raced>>
vars == <<mutexVars, requestVars, file, audit, cacheVars, history>>

Mutex == INSTANCE WriteMutex

Steps == {"idle", "wait", "load", "persist", "audit", "clear", "release",
          "reverted", "clear_after"}

TypeOK ==
    /\ Mutex!TypeOK
    /\ pc \in [Tasks -> Steps]
    /\ job \in [Tasks -> Job \cup {Nothing}]
    /\ write \in [Tasks -> Write \cup {Nothing}]
    /\ file \in Files
    /\ audit \in Seq(Write)
    /\ cache \in [Replicas -> Files \cup {Nothing}]
    /\ loading \in [Threads -> Files \cup {Nothing}]
    /\ raced \in [Replicas -> BOOLEAN]
    /\ started \in Nat
    /\ history \in Seq(Files)

\* The file as the operator wrote it: with a key that can manage keys (no
\* admin request is authorised before there is one).  These keys' hashes are 0.
Init ==
    /\ Mutex!Init
    /\ file \in [Keys -> [key_hash : {0}, keys_write : BOOLEAN] \cup {NoKey}]
    /\ Manageable(file)
    /\ pc = [t \in Tasks |-> "idle"]
    /\ job = [t \in Tasks |-> Nothing]
    /\ write = [t \in Tasks |-> Nothing]
    /\ audit = <<>>
    /\ cache = [r \in Replicas |-> Nothing]
    /\ loading = [th \in Threads |-> Nothing]
    /\ raced = [r \in Replicas |-> FALSE]
    /\ started = 0
    /\ history = <<file>>

-----------------------------------------------------------------------------
(* An admin request *)

IsLoading(r) == \E th \in Threads : Home[th] = r /\ loading[th] # Nothing

Goto(t, step) ==
    /\ pc' = [pc EXCEPT ![t] = step]
    /\ UNCHANGED <<job, write>>

\* The request is answered.
Finish(t) ==
    /\ pc' = [pc EXCEPT ![t] = "idle"]
    /\ job' = [job EXCEPT ![t] = Nothing]
    /\ write' = [write EXCEPT ![t] = Nothing]

Request(t, j) ==
    /\ pc[t] = "idle"
    /\ started < MaxWrites
    /\ started' = started + 1
    /\ pc' = [pc EXCEPT ![t] = "wait"]
    /\ job' = [job EXCEPT ![t] = j]
    /\ UNCHANGED <<mutexVars, write, file, audit, cacheVars, history>>

\* A create, update, rotate or delete request, past require_scope.  Create and
\* rotate have generated a raw key: its hash has never been seen before.
\* (Whether it gets keys:write matters only to create and update.)
RequestEdit(t, op, k, grant) ==
    /\ grant => op \in {"create", "update"}
    /\ Request(t, [op |-> op, key |-> k, keys_write |-> grant,
                   key_hash |-> started + 1])

\* original = get_entry(entry_id), before the lock is taken.
RequestRevert(t, i) ==
    Request(t, [op |-> "revert", original |-> audit[i].before])

\* Mutant of Acquire: no cross-replica lock.
AcquireWithoutLock(t) ==
    /\ pc[t] = "wait"
    /\ inside' = inside \cup {t}
    /\ Goto(t, "load")
    /\ UNCHANGED <<owner, started, file, audit, cacheVars, history>>

\* The api_keys lock is acquired.
Acquire(t) ==
    /\ pc[t] = "wait"
    /\ Mutex!Enter(t)
    /\ Goto(t, "load")
    /\ UNCHANGED <<started, file, audit, cacheVars, history>>

\* AdminWriteLockUnavailableError before anything was read: 503.  An asyncio.Lock
\* is waited for as long as it takes.
LockUnavailable(t) ==
    /\ UseRedis
    /\ pc[t] = "wait"
    /\ Finish(t)
    /\ UNCHANGED <<mutexVars, started, file, audit, cacheVars, history>>

\* The new_config of create_key, update_key_fields (rotate_key goes through it)
\* and delete_key.
Edited(f, j) ==
    CASE j.op = "create" -> [f EXCEPT ![j.key] = [key_hash |-> j.key_hash,
                                                  keys_write |-> j.keys_write]]
      [] j.op = "update" -> [f EXCEPT ![j.key].keys_write = j.keys_write]
      [] j.op = "rotate" -> [f EXCEPT ![j.key].key_hash = j.key_hash]
      [] j.op = "delete" -> [f EXCEPT ![j.key] = NoKey]

\* KeyAlreadyExistsError; KeyError; LastKeysWriteAdminError.
Refused(f, j) ==
    IF j.op = "create"
    THEN f[j.key] # NoKey
    ELSE f[j.key] = NoKey \/ Strands(f, j.key, Edited(f, j))

\* config = _load_writable_config() and the checks, which may refuse the edit.
RefuseEdit(t) ==
    /\ pc[t] = "load"
    /\ job[t].op \in Edits
    /\ Refused(file, job[t])
    /\ Goto(t, "release")
    /\ UNCHANGED <<mutexVars, started, file, audit, cacheVars, history>>

\* They do not; or it is a revert, which writes what the entry has recorded.
Load(t) ==
    /\ pc[t] = "load"
    /\ job[t].op \in Edits => ~Refused(file, job[t])
    /\ write' = [write EXCEPT ![t] =
                    [before |-> file,
                     after |-> IF job[t].op = "revert" THEN job[t].original
                                                       ELSE Edited(file, job[t])]]
    /\ pc' = [pc EXCEPT ![t] = "persist"]
    /\ UNCHANGED <<mutexVars, job, started, file, audit, cacheVars, history>>

\* atomic_write_text(path, ...)
Persist(t) ==
    /\ pc[t] = "persist"
    /\ file' = write[t].after
    /\ history' = Append(history, write[t].after)
    /\ raced' = [r \in Replicas |-> raced[r] \/ IsLoading(r)]
    /\ Goto(t, "audit")
    /\ UNCHANGED <<mutexVars, started, audit, cache, loading>>

\* await record_entry(...)
RecordEntry(t) ==
    /\ pc[t] = "audit"
    /\ audit' = Append(audit, write[t])
    /\ Goto(t, IF job[t].op = "revert" THEN "reverted" ELSE "clear")
    /\ UNCHANGED <<mutexVars, started, file, cacheVars, history>>

\* The `audit_log' lock is unavailable (with Redis), or the log cannot be
\* written: the exception leaves the block, and the file stays as it was written.
RecordFails(t) ==
    /\ MayFail
    /\ pc[t] = "audit"
    /\ Goto(t, "release")
    /\ UNCHANGED <<mutexVars, started, file, audit, cacheVars, history>>

\* Mutant of ClearCache: the endpoint does not invalidate after a revert.
ClearCacheOfEditsOnly(t) ==
    /\ \/ /\ pc[t] = "clear" /\ Goto(t, "release")
          /\ cache' = [cache EXCEPT ![Home[t]] = Nothing]
          /\ raced' = [raced EXCEPT ![Home[t]] = @ /\ IsLoading(Home[t])]
       \/ /\ pc[t] = "clear_after" /\ Finish(t)
          /\ UNCHANGED <<cache, raced>>
    /\ UNCHANGED <<mutexVars, started, file, audit, loading, history>>

\* get_key_store.cache_clear(): in _persist_config still under the lock, after
\* a revert in the endpoint, when the lock has been released.
ClearCache(t) ==
    /\ \/ pc[t] = "clear" /\ Goto(t, "release")
       \/ pc[t] = "clear_after" /\ Finish(t)
    /\ cache' = [cache EXCEPT ![Home[t]] = Nothing]
    /\ raced' = [raced EXCEPT ![Home[t]] = @ /\ IsLoading(Home[t])]
    /\ UNCHANGED <<mutexVars, started, file, audit, loading, history>>

\* The lock is given back.  Only one that is in Redis can stay behind.
GiveBack(T) == Mutex!Leave(T) /\ (UseRedis \/ owner' = NoTask)

\* Mutant of Release: the exception of a refused edit passes by the lock.
ReleaseUnlessRefused(t) ==
    /\ \/ pc[t] = "release" /\ Finish(t)
       \/ pc[t] = "reverted" /\ Goto(t, "clear_after")
    /\ IF write[t] = Nothing THEN UNCHANGED mutexVars ELSE GiveBack({t})
    /\ UNCHANGED <<started, file, audit, cacheVars, history>>

\* The end of the `async with'.
Release(t) ==
    /\ \/ pc[t] = "release" /\ Finish(t)
       \/ pc[t] = "reverted" /\ Goto(t, "clear_after")
    /\ GiveBack({t})
    /\ UNCHANGED <<started, file, audit, cacheVars, history>>

-----------------------------------------------------------------------------
(* get_key_store: @lru_cache around load_key_store, in a worker thread *)

\* Nothing is cached: the thread reads the file ...
LoadKeyStore(th) ==
    /\ cache[Home[th]] = Nothing
    /\ loading[th] = Nothing
    /\ IF SlowLoads
       THEN loading' = [loading EXCEPT ![th] = file] /\ UNCHANGED cache
       ELSE cache' = [cache EXCEPT ![Home[th]] = file] /\ UNCHANGED loading
    /\ UNCHANGED <<mutexVars, requestVars, file, audit, history, raced>>

\* ... and what it has read is cached, unless another thread's was meanwhile.
CacheKeyStore(th) ==
    /\ loading[th] # Nothing
    /\ IF cache[Home[th]] = Nothing
       THEN cache' = [cache EXCEPT ![Home[th]] = loading[th]]
       ELSE UNCHANGED cache
    /\ loading' = [loading EXCEPT ![th] = Nothing]
    /\ UNCHANGED <<mutexVars, requestVars, file, audit, history, raced>>

\* A replica dies, with every request it was serving, and comes back.
Crash(r) ==
    /\ MayCrash
    /\ LET dead == {t \in Tasks : Home[t] = r} IN
       /\ IF dead \cap inside = {}
          THEN UNCHANGED mutexVars
          ELSE GiveBack(dead \cap inside)
       /\ pc' = [t \in Tasks |-> IF t \in dead THEN "idle" ELSE pc[t]]
       /\ job' = [t \in Tasks |-> IF t \in dead THEN Nothing ELSE job[t]]
       /\ write' = [t \in Tasks |-> IF t \in dead THEN Nothing ELSE write[t]]
    /\ cache' = [cache EXCEPT ![r] = Nothing]
    /\ loading' = [th \in Threads |-> IF Home[th] = r THEN Nothing ELSE loading[th]]
    /\ raced' = [raced EXCEPT ![r] = FALSE]
    /\ UNCHANGED <<started, file, audit, history>>

\* The lock expires: one that a dead or disconnected holder left behind; or one
\* whose holder is waiting for the audit log's lock, since that wait alone may
\* take as long as the expiry (both are _LOCK_TIMEOUT_SECONDS).
Expire ==
    /\ UseRedis
    /\ Mutex!Lapse
    /\ owner \in inside => pc[owner] = "audit"
    /\ UNCHANGED <<requestVars, file, audit, cacheVars, history>>

TaskNext(t) ==
    \/ \E op \in Edits, k \in Keys, grant \in BOOLEAN : RequestEdit(t, op, k, grant)
    \/ \E i \in DOMAIN audit : RequestRevert(t, i)
    \/ Acquire(t) \/ LockUnavailable(t)
    \/ RefuseEdit(t) \/ Load(t) \/ Persist(t)
    \/ RecordEntry(t) \/ RecordFails(t)
    \/ ClearCache(t) \/ Release(t)

ThreadNext(th) == LoadKeyStore(th) \/ CacheKeyStore(th)

Next ==
    \/ \E t \in Tasks : TaskNext(t)
    \/ \E th \in Threads : ThreadNext(th)
    \/ \E r \in Replicas : Crash(r)
    \/ Expire

Spec == Init /\ [][Next]_vars

\* What a request does once it is there: the event loop runs it when it can go
\* on, and with Redis the wait for the lock ends (blocking_timeout).
TaskSteps(t) ==
    \/ Acquire(t) \/ LockUnavailable(t) \/ RefuseEdit(t) \/ Load(t)
    \/ Persist(t) \/ RecordEntry(t) \/ RecordFails(t) \/ ClearCache(t) \/ Release(t)

FairSpec == Spec /\ \A t \in Tasks : WF_vars(TaskSteps(t))

-----------------------------------------------------------------------------
(* Properties *)

\* LastKeysWriteAdminError: whatever concurrent requests demote, delete or
\* revert, there is a key that can manage keys; and no entry of the audit log
\* can be reverted to a file without one.
NeverStranded ==
    /\ Manageable(file)
    /\ \A i \in DOMAIN audit : Manageable(audit[i].before)

\* No lost update: a write of the file changes one key, whatever other requests
\* did since the request read it; or it puts back an earlier file.
Registry == INSTANCE KeyRegistry WITH
    keys <- file, past <- {history[i] : i \in DOMAIN history}
ImplementsRegistry == Registry!Spec

\* The audit log "never describes a change that didn't really happen"
\* (record_entry): each entry is one write of the file, with what that write
\* replaced, so that a revert of it undoes exactly that.
EntriesAreWrites ==
    \A i \in DOMAIN audit : \E j \in 2 .. Len(history) :
        /\ audit[i].before = history[j - 1]
        /\ audit[i].after = history[j]

\* The entries of the audit log continue one another: they are in the order in
\* which the file was written.
AuditInOrder == \A i \in 2 .. Len(audit) : audit[i].before = audit[i - 1].after

\* When nobody is writing, the audit log leads from the first content of the
\* file to the present one: no write of the file is missing from it.
EveryWriteRecorded ==
    inside = {} =>
        /\ AuditInOrder
        /\ Len(history) = Len(audit) + 1
        /\ audit # <<>> => audit[1].before = history[1] /\ audit[Len(audit)].after = file

\* Every request is answered, also where nothing ends its wait but the release
\* of the request before it: whatever way that one left the block (refused,
\* written, reverted), it did not leave the asyncio.Lock taken, and nobody waits
\* for a lock that is their own.
RequestAnswered == \A t \in Tasks : pc[t] # "idle" ~> pc[t] = "idle"

\* With one replica, a key store that is not the file's stays cached only when a
\* load was under way while the file was written; the next write that meets no
\* load under way puts that right.
Quiet == \A t \in Tasks : pc[t] \in {"idle", "wait"}
StaleOnlyIfRaced ==
    Quiet => \A r \in Replicas : cache[r] \in {Nothing, file} \/ raced[r]

\* create_key, update_key_fields, delete_key: the change "is live on the very
\* next request".  Once nobody is writing, what is cached is the file.
LiveOnNextRequest ==
    Quiet => \A r \in Replicas : cache[r] \in {Nothing, file}

=============================================================================
