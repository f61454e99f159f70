------------------------ MODULE GuardrailsConfigAdmin ------------------------
(***************************************************************************)
(* The configuration of the guardrails, edited through the admin API and   *)
(* read by requests.  `resource' says which file it is about:              *)
(*   - "preset": the config.yml of a NeMo preset, edited by                *)
(*     write_editable_sections (app/guardrails/editable_config.py), loaded *)
(*     and cached by NemoLibraryGuardrailsService._get_rails (service.py); *)
(*   - "policy": the file of the prompt-injection or the output-leak       *)
(*     guardrail (app/guardrails/prompt_injection.py, output_leak.py),     *)
(*     cached by an lru_cache that worker threads fill.                    *)
(* revert_entry (app/core/audit.py) writes both.                           *)
(*                                                                         *)
(* A file has parts: the sections of a preset, which are edited together;  *)
(* the categories and other fields of a policy, of which an edit changes   *)
(* those it names.  A preset with a Bad part does not load.                *)
(***************************************************************************)
EXTENDS Naturals, Sequences

CONSTANTS
    Replicas,
    Tasks,          \* admin requests
    Readers,        \* requests that need the configuration
    Home,           \* the replica of a task or a reader
    NoTask,
    Nothing,        \* no job, nothing to write, nothing cached
    Parts,
    Values,         \* what a part may be, and load
    Bad,            \* a value that NeMo cannot load
    MayLapse,       \* may the lock expire while record_entry waits for its own?
    MaxWrites       \* bound: admin requests in a behaviour

Files == [Parts -> Values \cup {Bad}]
Loads(f) == \A p \in Parts : f[p] # Bad

\* The parts a request sets; or the text it returns to.
EditJob == [op : {"edit"}, set : UNION {[S -> Values \cup {Bad}] : S \in SUBSET Parts}]
RevertJob == [op : {"revert"}, original : Files]
Job == EditJob \cup RevertJob
Write == [before : Files, after : Files]

ASSUME ConfigAssumption ==
    /\ NoTask \notin Tasks
    /\ Nothing \notin Job \cup Write \cup Files
    /\ Bad \notin Values
    /\ Home \in [Tasks \cup Readers -> Replicas]
    /\ MayLapse \in BOOLEAN
    /\ MaxWrites \in Nat

VARIABLES
    resource,
    owner, inside,  \* the resource's lock
    pc,             \* where each admin request is
    job,            \* what it asks for
    write,          \* the write it has prepared
    file,
    audit,          \* the entries of the audit log for this resource
    cache,          \* what each replica has cached
    reading,        \* where each reader is
    loading,        \* the file it has read but not yet cached
    unaware,        \* has a write passed a replica's cache by?
    cutOff,         \* has a replica died before a bad preset was rolled back?
    started         \* how many admin requests there have been

mutexVars == <<owner, inside>>
requestVars == <<pc, job, write, started>>
cacheVars == <<cache, reading, loading>>
vars == <<resource, mutexVars, requestVars, file, audit, cacheVars, unaware, cutOff>>

Mutex == INSTANCE WriteMutex

TypeOK ==
    /\ resource \in {"preset", "policy"}
    /\ Mutex!TypeOK
    /\ pc \in [Tasks -> {"idle", "wait", "read", "write", "check", "audit", "invalidate",
                         "release", "reverted", "invalidate_after"}]
    /\ job \in [Tasks -> Job \cup {Nothing}]
    /\ write \in [Tasks -> Write \cup {Nothing}]
    /\ file \in Files
    /\ audit \in Seq(Write)
    /\ cache \in [Replicas -> Files \cup {Nothing}]
    /\ reading \in [Readers -> {"idle", "waiting", "loading"}]
    /\ loading \in [Readers -> Files \cup {Nothing}]
    /\ unaware \in [Replicas -> BOOLEAN]
    /\ cutOff \in BOOLEAN
    /\ started \in Nat

\* The audit log shows an earlier edit.
Init ==
    /\ resource \in {"preset", "policy"}
    /\ Mutex!Init
    /\ pc = [t \in Tasks |-> "idle"]
    /\ job = [t \in Tasks |-> Nothing]
    /\ write = [t \in Tasks |-> Nothing]
    /\ file \in [Parts -> Values]
    /\ \E before \in [Parts -> Values] : audit = <<[before |-> before, after |-> file]>>
    /\ cache = [r \in Replicas |-> Nothing]
    /\ reading = [l \in Readers |-> "idle"]
    /\ loading = [l \in Readers |-> Nothing]
    /\ unaware = [r \in Replicas |-> FALSE]
    /\ cutOff = FALSE
    /\ started = 0

-----------------------------------------------------------------------------
(* An admin request *)

IsLoading(r) == \E l \in Readers : Home[l] = r /\ loading[l] # Nothing

Goto(t, step) ==
    /\ pc' = [pc EXCEPT ![t] = step]
    /\ UNCHANGED <<job, write>>

\* The file is dealt with: what is left to do does not depend on the job.
GotoEnd(t, step) ==
    /\ pc' = [pc EXCEPT ![t] = step]
    /\ job' = [job EXCEPT ![t] = Nothing]
    /\ write' = [write EXCEPT ![t] = Nothing]

Finish(t) == GotoEnd(t, "idle")

Request(t, j) ==
    /\ pc[t] = "idle"
    /\ started < MaxWrites
    /\ started' = started + 1
    /\ pc' = [pc EXCEPT ![t] = "wait"]
    /\ job' = [job EXCEPT ![t] = j]
    /\ UNCHANGED <<resource, mutexVars, write, file, audit, cacheVars, unaware, cutOff>>

\* What the PATCH endpoints let through: all sections of the preset, which load
\* or do not; or some fields of the policy, which are well-formed.
Edits == IF resource = "preset"
         THEN [Parts -> Values] \cup {[p \in Parts |-> Bad]}
         ELSE UNION {[{p} -> Values] : p \in Parts}

RequestEdit(t) == \E set \in Edits : Request(t, [op |-> "edit", set |-> set])

\* original = get_entry(entry_id), before the lock is taken.
RequestRevert(t) ==
    \E i \in DOMAIN audit : Request(t, [op |-> "revert", original |-> audit[i].before])

\* Mutant of Acquire: each replica has a lock of its own.
AcquireWithoutLock(t) ==
    /\ pc[t] = "wait"
    /\ inside' = inside \cup {t}
    /\ Goto(t, "read")
    /\ UNCHANGED <<resource, owner, started, file, audit, cacheVars, unaware, cutOff>>

Acquire(t) ==
    /\ pc[t] = "wait"
    /\ Mutex!Enter(t)
    /\ Goto(t, "read")
    /\ UNCHANGED <<resource, started, file, audit, cacheVars, unaware, cutOff>>

\* AdminWriteLockUnavailableError: 503.
LockUnavailable(t) ==
    /\ pc[t] = "wait"
    /\ Finish(t)
    /\ UNCHANGED <<resource, mutexVars, started, file, audit, cacheVars, unaware, cutOff>>

\* _find_bullets or the round trip fails, or nemoguardrails is not installed.
RefuseEdit(t) ==
    /\ resource = "preset"
    /\ pc[t] = "read"
    /\ job[t].op = "edit"
    /\ GotoEnd(t, "release")
    /\ UNCHANGED <<resource, mutexVars, started, file, audit, cacheVars, unaware, cutOff>>

\* The parts that are set, in the file as it is.
Merged(f, set) == [p \in Parts |-> IF p \in DOMAIN set THEN set[p] ELSE f[p]]

\* original_text = config_path.read_text(); load_prompt_injection_config().
Read(t) ==
    /\ pc[t] = "read"
    /\ write' = [write EXCEPT ![t] =
                    [before |-> file,
                     after |-> IF job[t].op = "revert" THEN job[t].original
                                                       ELSE Merged(file, job[t].set)]]
    /\ pc' = [pc EXCEPT ![t] = "write"]
    /\ UNCHANGED <<resource, mutexVars, job, started, file, audit, cacheVars, unaware, cutOff>>

\* The file is written: the caches of other replicas are not told, and a load
\* that is under way will not notice.
WriteText(t, text) ==
    /\ file' = text
    /\ unaware' = [r \in Replicas |-> unaware[r] \/ r # Home[t] \/ IsLoading(r)]

\* atomic_write_text(...): of an edited preset, it is seen whether it loads.
WriteFile(t) ==
    /\ pc[t] = "write"
    /\ WriteText(t, write[t].after)
    /\ Goto(t, IF resource = "preset" /\ job[t].op = "edit" THEN "check" ELSE "audit")
    /\ UNCHANGED <<resource, mutexVars, started, audit, cacheVars, cutOff>>

\* RailsConfig.from_path(str(config_dir)): the file stays ...
CheckPasses(t) ==
    /\ pc[t] = "check"
    /\ Loads(file)
    /\ Goto(t, "audit")
    /\ UNCHANGED <<resource, mutexVars, started, file, audit, cacheVars, unaware, cutOff>>

\* Mutant of CheckFails: the edit is refused, and not rolled back.
CheckFailsWithoutRollback(t) ==
    /\ pc[t] = "check"
    /\ ~Loads(file)
    /\ GotoEnd(t, "release")
    /\ UNCHANGED <<resource, mutexVars, started, file, audit, cacheVars, unaware, cutOff>>

\* ... or is rolled back.
CheckFails(t) ==
    /\ pc[t] = "check"
    /\ ~Loads(file)
    /\ WriteText(t, write[t].before)
    /\ GotoEnd(t, "release")
    /\ UNCHANGED <<resource, mutexVars, started, audit, cacheVars, cutOff>>

\* await record_audit_entry(...)
RecordEntry(t) ==
    /\ pc[t] = "audit"
    /\ audit' = Append(audit, write[t])
    /\ GotoEnd(t, IF job[t].op = "revert" THEN "reverted" ELSE "invalidate")
    /\ UNCHANGED <<resource, mutexVars, started, file, cacheVars, unaware, cutOff>>

\* It fails: the file stays as written, and no cache is emptied.
RecordFails(t) ==
    /\ pc[t] = "audit"
    /\ GotoEnd(t, "release")
    /\ unaware' = [unaware EXCEPT ![Home[t]] = TRUE]
    /\ UNCHANGED <<resource, mutexVars, started, file, audit, cacheVars, cutOff>>

\* Mutant of Invalidate: the revert endpoint empties no cache.
InvalidateEditsOnly(t) ==
    /\ \/ /\ pc[t] = "invalidate" /\ Goto(t, "release")
          /\ cache' = [cache EXCEPT ![Home[t]] = Nothing]
          /\ unaware' = [unaware EXCEPT ![Home[t]] = @ /\ IsLoading(Home[t])]
       \/ /\ pc[t] = "invalidate_after" /\ Finish(t)
          /\ UNCHANGED <<cache, unaware>>
    /\ UNCHANGED <<resource, mutexVars, started, file, audit, reading, loading, cutOff>>

\* guardrails_service.invalidate(config_id), get_..._config.cache_clear(): under
\* the lock, and after a revert in the endpoint, when it has been released.
Invalidate(t) ==
    /\ \/ pc[t] = "invalidate" /\ Goto(t, "release")
       \/ pc[t] = "invalidate_after" /\ Finish(t)
    /\ cache' = [cache EXCEPT ![Home[t]] = Nothing]
    /\ unaware' = [unaware EXCEPT ![Home[t]] = @ /\ IsLoading(Home[t])]
    /\ UNCHANGED <<resource, mutexVars, started, file, audit, reading, loading, cutOff>>

\* The end of the `async with'.
Release(t) ==
    /\ \/ pc[t] = "release" /\ Finish(t)
       \/ pc[t] = "reverted" /\ Goto(t, "invalidate_after")
    /\ Mutex!Leave({t})
    /\ UNCHANGED <<resource, started, file, audit, cacheVars, unaware, cutOff>>

-----------------------------------------------------------------------------
(* A request that needs the configuration *)

\* One rails load at a time (_load_lock); worker threads load side by side.
MayLoad(l) == resource = "policy" \/ ~IsLoading(Home[l])

\* It is not cached, and somebody is loading it.
AwaitLoad(l) ==
    /\ reading[l] = "idle"
    /\ cache[Home[l]] = Nothing /\ ~MayLoad(l)
    /\ reading' = [reading EXCEPT ![l] = "waiting"]
    /\ UNCHANGED <<resource, mutexVars, requestVars, file, audit, cache, loading, unaware, cutOff>>

\* It has been loaded.
Found(l) ==
    /\ reading[l] = "waiting"
    /\ cache[Home[l]] # Nothing /\ MayLoad(l)
    /\ reading' = [reading EXCEPT ![l] = "idle"]
    /\ UNCHANGED <<resource, mutexVars, requestVars, file, audit, cache, loading, unaware, cutOff>>

\* It is not cached: the file is read, in a thread ...
StartLoad(l) ==
    /\ reading[l] \in {"idle", "waiting"}
    /\ cache[Home[l]] = Nothing /\ MayLoad(l)
    /\ reading' = [reading EXCEPT ![l] = "loading"]
    /\ loading' = [loading EXCEPT ![l] = file]
    /\ UNCHANGED <<resource, mutexVars, requestVars, file, audit, cache, unaware, cutOff>>

EndLoad(l) ==
    /\ reading[l] = "loading"
    /\ reading' = [reading EXCEPT ![l] = "idle"]
    /\ loading' = [loading EXCEPT ![l] = Nothing]
    /\ UNCHANGED <<resource, mutexVars, requestVars, file, audit, unaware, cutOff>>

\* ... and what it has read is cached, unless another thread's was.
Loaded(l) ==
    /\ EndLoad(l)
    /\ Loads(loading[l])
    /\ cache' = IF cache[Home[l]] = Nothing
                THEN [cache EXCEPT ![Home[l]] = loading[l]] ELSE cache

\* The configuration or the model behind it cannot be loaded: an error.
LoadFails(l) ==
    /\ resource = "preset"
    /\ EndLoad(l)
    /\ UNCHANGED cache

-----------------------------------------------------------------------------
\* A replica dies with all that it was doing, and comes back.
Crash(r) ==
    /\ LET dead == {t \in Tasks : Home[t] = r} IN
       /\ IF dead \cap inside = {} THEN UNCHANGED mutexVars ELSE Mutex!Leave(dead \cap inside)
       /\ pc' = [t \in Tasks |-> IF t \in dead THEN "idle" ELSE pc[t]]
       /\ job' = [t \in Tasks |-> IF t \in dead THEN Nothing ELSE job[t]]
       /\ write' = [t \in Tasks |-> IF t \in dead THEN Nothing ELSE write[t]]
       /\ cutOff' = (cutOff \/ \E t \in dead : pc[t] = "check")
    /\ cache' = [cache EXCEPT ![r] = Nothing]
    /\ reading' = [l \in Readers |-> IF Home[l] = r THEN "idle" ELSE reading[l]]
    /\ loading' = [l \in Readers |-> IF Home[l] = r THEN Nothing ELSE loading[l]]
    /\ unaware' = [unaware EXCEPT ![r] = FALSE]
    /\ UNCHANGED <<resource, started, file, audit>>

\* The lock expires: one left behind, or one whose holder waits for the audit
\* log's.
Expire ==
    /\ Mutex!Lapse
    /\ owner \in inside => pc[owner] = "audit"
    /\ UNCHANGED <<resource, requestVars, file, audit, cacheVars, unaware, cutOff>>

TaskNext(t) ==
    \/ RequestEdit(t) \/ RequestRevert(t)
    \/ Acquire(t) \/ LockUnavailable(t) \/ RefuseEdit(t) \/ Read(t) \/ WriteFile(t)
    \/ CheckPasses(t) \/ CheckFails(t) \/ RecordEntry(t) \/ RecordFails(t)
    \/ Invalidate(t) \/ Release(t)

ReaderNext(l) == AwaitLoad(l) \/ Found(l) \/ StartLoad(l) \/ Loaded(l) \/ LoadFails(l)

Next ==
    \/ \E t \in Tasks : TaskNext(t)
    \/ \E l \in Readers : ReaderNext(l)
    \/ \E r \in Replicas : Crash(r)
    \/ Expire

Spec == Init /\ [][Next]_vars

-----------------------------------------------------------------------------
(* Properties *)

\* "never partially applied" (GuardrailsConfigParseError): a preset that does not
\* load is there only while it is being checked, whatever requests overlap;
\* and no revert brings one back.  The death of a replica during the check
\* leaves it.
NoBadConfigKept ==
    ~cutOff =>
        /\ (\E t \in Tasks : pc[t] = "check") \/ Loads(file)
        /\ \A i \in DOMAIN audit : Loads(audit[i].before) /\ Loads(audit[i].after)

\* "Two concurrent PATCHes touching different categories can't race and silently
\* clobber each other": a write changes the parts its request names in the file
\* as it is at that moment, or is a revert, or undoes a write that has been
\* followed by no other.
EditsCompose ==
    [][file' # file =>
          \E t \in Tasks :
              \/ pc[t] = "write" /\ job[t].op = "edit" /\ file' = Merged(file, job[t].set)
              \/ pc[t] = "write" /\ job[t].op = "revert" /\ file' = job[t].original
              \/ pc[t] = "check" /\ file = write[t].after /\ file' = write[t].before]_vars

\* "The next request ... repopulates the cache" (invalidate): when nobody is
\* writing, a cached configuration is the file's, or a write has passed the
\* cache by: made by another replica, during a load, or without an audit entry.
StaleOnlyIfUnaware ==
    (\A t \in Tasks : pc[t] \in {"idle", "wait"}) =>
        \A r \in Replicas : cache[r] \in {Nothing, file} \/ unaware[r]

=============================================================================
