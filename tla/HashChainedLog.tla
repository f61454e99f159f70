--------------------------- MODULE HashChainedLog ---------------------------
(***************************************************************************)
(* The hash-chained logs of app/core/audit.py (record_entry) and           *)
(* app/core/guardrail_events.py (record_event): append under the log's     *)
(* write lock, then trim the oldest lines and record in the checkpoint     *)
(* sidecar where the remaining chain continues from.                       *)
(*                                                                         *)
(* A writer is a gateway replica: the body of the lock has no await, so    *)
(* within one process it is a single step of the event loop and no two     *)
(* coroutines of a replica are ever in it together.  Across replicas, and  *)
(* for a crash, it is the sequence of file operations modelled here.       *)
(***************************************************************************)
EXTENDS HashChain, FiniteSets

CONSTANTS
    Writers,
    NoWriter,
    MayLapse,       \* may a writer overrun the expiry of its lock?
    MayCrash,       \* may a replica die between two file operations?
    MayTear,        \* may an append stop before its last byte is written?
    MaxEntries,     \* OPENBOUNCER_AUDIT_LOG_MAX_ENTRIES
    MaxLegacy,      \* bound: lines from before the upgrade
    MaxAppends      \* bound: appends in a behaviour

ASSUME LogAssumption ==
    /\ NoWriter \notin Writers
    /\ NoHash \notin Hash
    /\ MayLapse \in BOOLEAN
    /\ MayCrash \in BOOLEAN
    /\ MayTear \in BOOLEAN
    /\ MaxEntries \in Nat \ {0}     \* _max_entries() falls back when <= 0
    /\ MaxLegacy \in Nat
    /\ MaxAppends \in Nat
    \* An append torn by a writer that has lost its lock is not modelled.
    /\ ~(MayLapse /\ MayTear)

VARIABLES
    owner, inside,  \* the lock of this log
    pc,             \* the next file operation of each writer
    prev,           \* the prev_hash a writer has read
    lines,          \* the lines a writer has read in _trim_if_needed
    log,            \* the entries written to the file in full, oldest first
    tail,           \* how its last line ends, see Tails
    checkpoint,     \* the sidecar
    nextId,         \* the next fresh payload
    legacy,         \* how many legacy lines there were at the start
    unrecorded,     \* lines trimmed without the checkpoint counting them
    interrupted     \* has a crash cut a trim short, with no trim completed since?

mutexVars == <<owner, inside>>
fileVars == <<log, tail, checkpoint>>
ghostVars == <<legacy, unrecorded, interrupted>>
vars == <<mutexVars, pc, prev, lines, fileVars, nextId, ghostVars>>

Mutex == INSTANCE WriteMutex WITH Tasks <- Writers, NoTask <- NoWriter

Steps == {"idle", "read", "append", "count", "replace", "checkpoint", "release"}

\* The last line is an entry and its newline; an entry whose newline was never
\* written; two entries, one written behind an unended other; or it ends in a
\* part of an entry.
Tails == {"ended", "unended", "glued", "partial"}

\* Does json.loads take the last line?
Readable == tail \in {"ended", "unended"}

TypeOK ==
    /\ Mutex!TypeOK
    /\ pc \in [Writers -> Steps]
    /\ prev \in [Writers -> Hash]
    /\ lines \in [Writers -> Seq(Entry)]
    /\ log \in Seq(Entry)
    /\ tail \in Tails
    /\ checkpoint \in Checkpoint
    /\ nextId \in Nat \ {0}
    /\ legacy \in 0 .. MaxLegacy
    /\ unrecorded \in Nat
    /\ interrupted \in BOOLEAN

Init ==
    /\ Mutex!Init
    /\ pc = [w \in Writers |-> "idle"]
    /\ prev = [w \in Writers |-> GENESIS_HASH]
    /\ lines = [w \in Writers |-> <<>>]
    /\ legacy \in 0 .. MaxLegacy
    /\ log = [i \in 1 .. legacy |-> LegacyEntry(0)]
    /\ tail = "ended"
    /\ checkpoint = NoCheckpoint
    /\ nextId = 1
    /\ unrecorded = 0
    /\ interrupted = FALSE

-----------------------------------------------------------------------------
Goto(w, step) == pc' = [pc EXCEPT ![w] = step]

\* The number of lines of a file with these entries that ends that way, the
\* number of those that _trim_if_needed cuts off (an entry each: a glued line
\* is the last one), and the entries it leaves.
Lines(all, end) == IF end = "glued" THEN Len(all) - 1 ELSE Len(all)
Excess(all, end) == Lines(all, end) - MaxEntries
Kept(all, end) == SubSeq(all, Excess(all, end) + 1, Len(all))

\* Mutant of Acquire: no cross-replica lock.
AcquireWithoutLock(w) ==
    /\ pc[w] = "idle"
    /\ nextId <= MaxAppends
    /\ inside' = inside \cup {w}
    /\ Goto(w, "read")
    /\ UNCHANGED <<owner, prev, lines, fileVars, nextId, ghostVars>>

\* The lock is acquired.  (When it is not, record_entry raises before it has
\* touched anything.)
Acquire(w) ==
    /\ pc[w] = "idle"
    /\ nextId <= MaxAppends
    /\ Mutex!Enter(w)
    /\ Goto(w, "read")
    /\ UNCHANGED <<prev, lines, fileVars, nextId, ghostVars>>

\* Redis holds the lock for w, but w was told otherwise.
AcquireLost(w) ==
    /\ pc[w] = "idle"
    /\ Mutex!Orphan(w)
    /\ UNCHANGED <<pc, prev, lines, fileVars, nextId, ghostVars>>

Expire ==
    /\ Mutex!Lapse
    /\ UNCHANGED <<pc, prev, lines, fileVars, nextId, ghostVars>>

\* Mutant of ReadPrevious: a last line that does not parse is passed over.
ReadPreviousLenient(w) ==
    /\ pc[w] = "read"
    /\ prev' = [prev EXCEPT ![w] = previous_hash(log, checkpoint)]
    /\ Goto(w, "append")
    /\ UNCHANGED <<mutexVars, lines, fileVars, nextId, ghostVars>>

\* prev_hash = previous_hash(log_path)
ReadPrevious(w) ==
    /\ pc[w] = "read"
    /\ Readable
    /\ prev' = [prev EXCEPT ![w] = previous_hash(log, checkpoint)]
    /\ Goto(w, "append")
    /\ UNCHANGED <<mutexVars, lines, fileVars, nextId, ghostVars>>

\* The last line does not parse: JSONDecodeError, through the `async with'.
ReadFails(w) ==
    /\ pc[w] = "read"
    /\ ~Readable
    /\ Goto(w, "release")
    /\ UNCHANGED <<mutexVars, prev, lines, fileVars, nextId, ghostVars>>

\* The entry is in the file, behind whatever the last line was.
WriteEntry(w, end) ==
    /\ log' = Append(log, NewEntry(prev[w], nextId))
    /\ tail' = IF tail = "ended" THEN end ELSE "glued"
    /\ nextId' = nextId + 1

\* with open(log_path, "a") as f: f.write(...)
AppendEntry(w) ==
    /\ pc[w] = "append"
    /\ nextId <= MaxAppends
    /\ WriteEntry(w, "ended")
    /\ Goto(w, "count")
    /\ UNCHANGED <<mutexVars, prev, lines, checkpoint, ghostVars>>

\* The write stops half way (the disk is full, or the process dies and never
\* gets to release): an exception or a crash, with a part of the entry in the
\* file...
TearEntry(w) ==
    /\ MayTear
    /\ pc[w] = "append"
    /\ tail' = "partial"
    /\ Mutex!Leave({w})
    /\ Goto(w, "idle")
    /\ UNCHANGED <<prev, lines, log, checkpoint, nextId, ghostVars>>

\* ... or with all of it but the newline.
TearNewline(w) ==
    /\ MayTear
    /\ pc[w] = "append"
    /\ nextId <= MaxAppends
    /\ WriteEntry(w, "unended")
    /\ Mutex!Leave({w})
    /\ Goto(w, "idle")
    /\ UNCHANGED <<prev, lines, checkpoint, ghostVars>>

\* _trim_if_needed: read the lines and return when there are few enough.
CountLines(w) ==
    /\ pc[w] = "count"
    /\ lines' = [lines EXCEPT ![w] = log]
    /\ Goto(w, IF Lines(log, tail) <= MaxEntries THEN "release" ELSE "replace")
    /\ UNCHANGED <<mutexVars, prev, fileVars, nextId, ghostVars>>

\* atomic_write_text(log_path, trimmed_text)
ReplaceLog(w) ==
    /\ pc[w] = "replace"
    /\ log' = Kept(lines[w], tail)
    /\ Goto(w, "checkpoint")
    /\ UNCHANGED <<mutexVars, prev, lines, tail, checkpoint, nextId, ghostVars>>

\* Mutant of WriteCheckpoint: the hash of the first line kept.
WriteCheckpointOfFirstKept(w) ==
    /\ pc[w] = "checkpoint"
    /\ checkpoint' = [hash |-> lines[w][Excess(lines[w], tail) + 1].hash,
                      count |-> checkpoint.count + Excess(lines[w], tail)]
    /\ interrupted' = FALSE
    /\ Goto(w, "release")
    /\ UNCHANGED <<mutexVars, prev, lines, log, tail, nextId, legacy, unrecorded>>

\* Mutant of WriteCheckpoint: the count is that of this trim alone.
WriteCheckpointNotCumulative(w) ==
    /\ pc[w] = "checkpoint"
    /\ checkpoint' = [hash |-> lines[w][Excess(lines[w], tail)].hash,
                      count |-> Excess(lines[w], tail)]
    /\ interrupted' = FALSE
    /\ Goto(w, "release")
    /\ UNCHANGED <<mutexVars, prev, lines, log, tail, nextId, legacy, unrecorded>>

\* write_checkpoint(trimmed_through_hash, newly_trimmed_count)
WriteCheckpoint(w) ==
    /\ pc[w] = "checkpoint"
    /\ checkpoint' = [hash |-> lines[w][Excess(lines[w], tail)].hash,
                      count |-> checkpoint.count + Excess(lines[w], tail)]
    /\ interrupted' = FALSE
    /\ Goto(w, "release")
    /\ UNCHANGED <<mutexVars, prev, lines, log, tail, nextId, legacy, unrecorded>>

\* The end of the `async with'.
Release(w) ==
    /\ pc[w] = "release"
    /\ Mutex!Leave({w})
    /\ Goto(w, "idle")
    /\ UNCHANGED <<prev, lines, fileVars, nextId, ghostVars>>

\* The replica dies (or its disk refuses the next write) between two file
\* operations.
Crash(w) ==
    /\ MayCrash
    /\ pc[w] # "idle"
    /\ Mutex!Leave({w})
    /\ Goto(w, "idle")
    /\ IF pc[w] = "checkpoint"
       THEN /\ interrupted' = TRUE
            /\ unrecorded' = unrecorded + Excess(lines[w], tail)
       ELSE UNCHANGED <<interrupted, unrecorded>>
    /\ UNCHANGED <<prev, lines, fileVars, nextId, legacy>>

WriterNext(w) ==
    \/ Acquire(w) \/ AcquireLost(w)
    \/ ReadPrevious(w) \/ ReadFails(w)
    \/ AppendEntry(w) \/ TearEntry(w) \/ TearNewline(w)
    \/ CountLines(w) \/ ReplaceLog(w) \/ WriteCheckpoint(w)
    \/ Release(w) \/ Crash(w)

Next == Expire \/ \E w \in Writers : WriterNext(w)

Spec == Init /\ [][Next]_vars

-----------------------------------------------------------------------------
(* Properties *)

Trimming == \E w \in Writers : pc[w] = "checkpoint"

\* The entries on disk verify whenever nobody is between replacing the file and
\* writing the checkpoint, whatever replicas appended, trimmed or died in
\* between: no fork, no gap, no legacy entry inside the chain, and a checkpoint
\* that says where the first entry continues from.  Only a trim that a crash cut
\* short suspends this, and only until the next trim completes.  (While the last
\* line does not parse, the verification itself is an error: VerifyReadLog.)
VerifiesWhenSettled ==
    ~Trimming /\ ~interrupted => Verifies(log, checkpoint.hash)

\* Whatever happens to the checkpoint, the entries on disk continue one another.
ChainUnbroken ==
    \A i \in 2 .. Len(log) :
        IsChained(log[i - 1]) => log[i].prev = log[i - 1].hash

\* Every entry ever written in full is on disk or counted by the checkpoint's
\* trimmed_entry_count, but for those of trims a crash cut short.
InFlight(w) == IF pc[w] = "checkpoint" THEN Excess(lines[w], tail) ELSE 0
TrimsAccountedFor ==
    \A w \in Writers :
        inside \subseteq {w} =>
            Len(log) + checkpoint.count + unrecorded + InFlight(w)
                = legacy + nextId - 1

\* The file changes only by more entries at its end or fewer at its beginning:
\* what _trim_if_needed writes back never overwrites an entry that was appended
\* after it read the file.
HistoryNeverRewritten ==
    [][\/ Len(log') > Len(log) /\ SubSeq(log', 1, Len(log)) = log
       \/ \E n \in 1 .. Len(log) : log' = SubSeq(log, n, Len(log))]_log

\* The log implements a ledger that only ever grows: the hash a next entry
\* would continue from stands for the payloads of all entries appended so
\* far, in order, trims and crashes notwithstanding.
Ledger == INSTANCE ChainLedger WITH ledger <- previous_hash(log, checkpoint)
ImplementsLedger == Ledger!Spec

\* What a torn append does to the log, for whoever comes next.  Once the last
\* line does not parse no entry is added any more and no writer mends it: all
\* that still happens is the trim of the writer that made it so.  And a last
\* line that lacks only its newline passes for sound exactly once: the next
\* entry is written on to it, and neither can be read from then on.
TornLogFrozen ==
    [][/\ ~Readable =>
            /\ UNCHANGED tail
            /\ \E n \in 2 .. Len(log) : log' = SubSeq(log, n, Len(log))
       /\ tail = "unended" => ~Readable']_<<log, tail>>

=============================================================================
