------------------------ MODULE HashChainedLog_proofs ------------------------
(***************************************************************************)
(* Proofs about HashChainedLog, for any number of writers, any retention   *)
(* cap and any number of appends, under the assumption that no writer      *)
(* overruns its lock (~MayLapse).  Crashes are covered, and appends torn   *)
(* anywhere.                                                               *)
(* NoFalseAlarm is about a verifier that runs beside the writers, and the  *)
(* last part about VerifyChain, for any set of logs: the loop's answer is  *)
(* the one `Verifies' defines.                                             *)
(***************************************************************************)
EXTENDS LogVerification, VerifyChain, SequenceTheorems, WellFoundedInduction, TLAPS

-----------------------------------------------------------------------------
(* The inductive invariant *)

\* Whoever is inside owns the lock, and exactly the writers that are inside
\* are in the middle of record_entry.
LockInv ==
    /\ inside \subseteq {owner}
    /\ \A w \in Writers : w \in inside <=> pc[w] # "idle"

\* How many entries a trim leaves: one more when the last line holds two.
Keeps(end) == IF end = "glued" THEN MaxEntries + 1 ELSE MaxEntries

\* What a writer has read is still what the files say.
WriterInv ==
    \A w \in Writers :
        /\ pc[w] = "append" => prev[w] = previous_hash(log, checkpoint)
        /\ pc[w] = "replace" => lines[w] = log /\ Len(log) > Keeps(tail)
        /\ pc[w] = "checkpoint" =>
              /\ Len(lines[w]) > Keeps(tail)
              /\ log = Kept(lines[w], tail)

\* The log as a chain of its own, whatever the checkpoint says: legacy entries
\* first, then entries that continue one another, from genesis if a legacy
\* entry precedes them.
WellFormed(e) ==
    /\ e.hash = NoHash <=> e.prev = NoHash
    /\ IsChained(e) => e.hash = compute_hash(e.prev, e.id)

Continues(d, e) ==
    IsChained(e) => e.prev = IF IsChained(d) THEN d.hash ELSE GENESIS_HASH

ChainInv ==
    /\ \A i \in 1 .. Len(log) : WellFormed(log[i])
    /\ \A i \in 2 .. Len(log) : Continues(log[i - 1], log[i])
    /\ \A i, j \in 1 .. Len(log) : i < j /\ IsChained(log[i]) => IsChained(log[j])

\* The first entry continues from h.
StartsFrom(h) == log # <<>> => EntryVerifies(log, h, 1)

AnchorInv ==
    /\ log = <<>> \/ ~IsChained(log[1]) => checkpoint.hash = NoHash
    /\ ~Trimming /\ ~interrupted => StartsFrom(checkpoint.hash)
    /\ \A w \in Writers :
          pc[w] = "checkpoint" => StartsFrom(lines[w][Excess(lines[w], tail)].hash)

IInv ==
    /\ TypeOK
    /\ LockInv
    /\ WriterInv
    /\ ChainInv
    /\ AnchorInv

\* What the ledger needs besides: the entry a trim is on account of is still
\* the last one, and payloads are fresh.
HeadInv ==
    /\ \A w \in Writers :
          pc[w] \in {"count", "replace", "checkpoint"} =>
              log # <<>> /\ IsChained(log[Len(log)])
    /\ \A i \in 1 .. Len(previous_hash(log, checkpoint)) :
          previous_hash(log, checkpoint)[i] < nextId

-----------------------------------------------------------------------------
(* Helpers *)

LEMMA KeepsType ==
    ASSUME NEW end
    PROVE  Keeps(end) \in Nat \ {0}
BY LogAssumption DEF Keeps

\* What is left of a log after a trim, and what the trim cuts off.
LEMMA KeptProperties ==
    ASSUME NEW all \in Seq(Entry), NEW end, Len(all) > Keeps(end)
    PROVE  /\ Excess(all, end) \in 1 .. Len(all)
           /\ Excess(all, end) + Keeps(end) = Len(all)
           /\ Kept(all, end) \in Seq(Entry)
           /\ Len(Kept(all, end)) = Keeps(end)
           /\ \A i \in 1 .. Keeps(end) : Kept(all, end)[i] = all[Excess(all, end) + i]
<1>1. /\ Len(all) \in Nat
      /\ Keeps(end) \in Nat \ {0}
  BY LenProperties, KeepsType
<1>2. Excess(all, end) = Len(all) - Keeps(end)
  BY <1>1, LogAssumption DEF Excess, Lines, Keeps
<1>3. \A i \in Excess(all, end) + 1 .. Len(all) : all[i] \in Entry
  BY <1>1, <1>2, ElementOfSeq
<1>4. QED
  BY <1>1, <1>2, <1>3, SubSeqProperties DEF Kept

\* The log after an append.
LEMMA AppendedProperties ==
    ASSUME NEW l \in Seq(Entry), NEW e \in Entry
    PROVE  /\ Append(l, e) \in Seq(Entry)
           /\ Len(Append(l, e)) = Len(l) + 1
           /\ Len(l) \in Nat
           /\ \A i \in 1 .. Len(l) : Append(l, e)[i] = l[i]
           /\ Append(l, e)[Len(l) + 1] = e
BY AppendProperties, LenProperties

\* An entry gets into the file in full, with its newline or without.
Writes(w) == AppendEntry(w) \/ TearNewline(w)

LEMMA WritesEntry ==
    ASSUME NEW w \in Writers, Writes(w)
    PROVE  /\ pc[w] = "append" /\ nextId <= MaxAppends
           /\ WriteEntry(w, "ended") \/ WriteEntry(w, "unended")
           /\ log' = Append(log, NewEntry(prev[w], nextId))
           /\ nextId' = nextId + 1
           /\ \/ pc' = [pc EXCEPT ![w] = "count"]
              \/ pc' = [pc EXCEPT ![w] = "idle"]
           /\ UNCHANGED <<prev, lines, checkpoint, legacy, unrecorded, interrupted>>
BY DEF Writes, AppendEntry, TearNewline, WriteEntry, Goto, ghostVars

LEMMA NewEntryType ==
    ASSUME NEW p \in Hash, NEW id \in Nat
    PROVE  /\ NewEntry(p, id) \in Entry
           /\ IsChained(NewEntry(p, id))
           /\ WellFormed(NewEntry(p, id))
<1>1. compute_hash(p, id) \in Hash
  BY AppendProperties DEF compute_hash, Hash
<1>2. compute_hash(p, id) # NoHash /\ p # NoHash
  BY <1>1, LogAssumption
<1>3. QED
  BY <1>1, <1>2 DEF NewEntry, Entry, IsChained, WellFormed

\* The log after it.
LEMMA WrittenLog ==
    ASSUME TypeOK, NEW w \in Writers, Writes(w)
    PROVE  /\ log' \in Seq(Entry)
           /\ Len(log) \in Nat
           /\ Len(log') = Len(log) + 1
           /\ \A i \in 1 .. Len(log) : log'[i] = log[i]
           /\ log'[Len(log) + 1] = NewEntry(prev[w], nextId)
<1>1. log' = Append(log, NewEntry(prev[w], nextId))
  BY WritesEntry
<1>2. NewEntry(prev[w], nextId) \in Entry /\ log \in Seq(Entry)
  BY NewEntryType DEF TypeOK
<1>3. QED
  BY <1>1, <1>2, AppendedProperties

LEMMA PreviousHashType ==
    ASSUME TypeOK
    PROVE  previous_hash(log, checkpoint) \in Hash
<1>1. GENESIS_HASH \in Hash
  BY EmptySeq DEF GENESIS_HASH, Hash
<1>2. checkpoint.hash \in Hash \cup {NoHash}
  BY DEF TypeOK, Checkpoint
<1>3. CASE log # <<>> /\ log[Len(log)].hash # NoHash
  <2>1. Len(log) \in 1 .. Len(log)
    BY <1>3, EmptySeq, LenProperties DEF TypeOK
  <2>2. log[Len(log)] \in Entry
    BY <2>1, ElementOfSeq DEF TypeOK
  <2>3. QED
    BY <1>3, <2>2 DEF previous_hash, Entry
<1>4. CASE ~(log # <<>> /\ log[Len(log)].hash # NoHash)
  BY <1>1, <1>2, <1>4 DEF previous_hash, Anchor
<1>5. QED
  BY <1>3, <1>4

\* At most one writer is in the middle of record_entry.
LEMMA AtMostOne ==
    ASSUME LockInv,
           NEW v \in Writers, NEW w \in Writers,
           pc[v] # "idle", pc[w] # "idle"
    PROVE  v = w
BY DEF LockInv

-----------------------------------------------------------------------------
(* Every step preserves every part of the invariant *)

LEMMA TypeStep ==
    ASSUME IInv, [Next]_vars
    PROVE  TypeOK'
<1> USE DEF IInv, TypeOK, Mutex!TypeOK, Steps, Tails, Goto
<1>1. ASSUME NEW w \in Writers, Acquire(w)
      PROVE  TypeOK'
  BY <1>1 DEF Acquire, Mutex!Enter, fileVars, ghostVars
<1>2. ASSUME NEW w \in Writers, AcquireLost(w)
      PROVE  TypeOK'
  BY <1>2 DEF AcquireLost, Mutex!Orphan, fileVars, ghostVars
<1>3. ASSUME NEW w \in Writers, ReadPrevious(w)
      PROVE  TypeOK'
  BY <1>3, PreviousHashType DEF ReadPrevious, mutexVars, fileVars, ghostVars
<1>4. ASSUME NEW w \in Writers, ReadFails(w)
      PROVE  TypeOK'
  BY <1>4 DEF ReadFails, mutexVars, fileVars, ghostVars
<1>5. ASSUME NEW w \in Writers, Writes(w)
      PROVE  TypeOK'
  <2>1. log' \in Seq(Entry)
    BY <1>5, WrittenLog
  <2>2. tail' \in Tails
    BY <1>5 DEF Writes, AppendEntry, TearNewline, WriteEntry
  <2>3. Mutex!TypeOK'
    BY <1>5 DEF Writes, AppendEntry, TearNewline, Mutex!Leave, mutexVars
  <2>4. /\ nextId' = nextId + 1
        /\ \/ pc' = [pc EXCEPT ![w] = "count"]
           \/ pc' = [pc EXCEPT ![w] = "idle"]
        /\ UNCHANGED <<prev, lines, checkpoint, legacy, unrecorded, interrupted>>
    BY <1>5, WritesEntry
  <2>5. pc' \in [Writers -> Steps]
    BY <2>4
  <2>6. QED
    BY <2>1, <2>2, <2>3, <2>4, <2>5
<1>6. ASSUME NEW w \in Writers, TearEntry(w)
      PROVE  TypeOK'
  BY <1>6 DEF TearEntry, Mutex!Leave, ghostVars
<1>7. ASSUME NEW w \in Writers, CountLines(w)
      PROVE  TypeOK'
  BY <1>7 DEF CountLines, mutexVars, fileVars, ghostVars
<1>8. ASSUME NEW w \in Writers, ReplaceLog(w)
      PROVE  TypeOK'
  <2>1. log' \in Seq(Entry)
    BY <1>8, KeptProperties DEF ReplaceLog, WriterInv
  <2>2. QED
    BY <1>8, <2>1 DEF ReplaceLog, mutexVars, ghostVars
<1>9. ASSUME NEW w \in Writers, WriteCheckpoint(w)
      PROVE  TypeOK'
  <2>1. Len(lines[w]) > Keeps(tail)
    BY <1>9 DEF WriteCheckpoint, WriterInv
  <2>2. Excess(lines[w], tail) \in 1 .. Len(lines[w])
    BY <2>1, KeptProperties
  <2>3. lines[w][Excess(lines[w], tail)] \in Entry
    BY <2>2, ElementOfSeq
  <2>4. checkpoint' \in Checkpoint
    BY <1>9, <2>2, <2>3 DEF WriteCheckpoint, Checkpoint, Entry
  <2>5. QED
    BY <1>9, <2>4 DEF WriteCheckpoint, mutexVars
<1>10. ASSUME NEW w \in Writers, Release(w)
       PROVE  TypeOK'
  BY <1>10 DEF Release, Mutex!Leave, fileVars, ghostVars
<1>11. ASSUME NEW w \in Writers, Crash(w)
       PROVE  TypeOK'
  <2>1. unrecorded' \in Nat /\ interrupted' \in BOOLEAN
    <3>1. CASE pc[w] = "checkpoint"
      <4>1. Excess(lines[w], tail) \in Nat
        BY <3>1, KeptProperties DEF WriterInv
      <4>2. QED
        BY <1>11, <3>1, <4>1 DEF Crash
    <3>2. CASE pc[w] # "checkpoint"
      BY <1>11, <3>2 DEF Crash
    <3>3. QED
      BY <3>1, <3>2
  <2>2. QED
    BY <1>11, <2>1 DEF Crash, Mutex!Leave, fileVars
<1>12. CASE Expire
  BY <1>12 DEF Expire, Mutex!Lapse, fileVars, ghostVars
<1>13. CASE UNCHANGED vars
  BY <1>13 DEF vars, mutexVars, fileVars, ghostVars
<1>14. QED
  BY <1>1, <1>2, <1>3, <1>4, <1>5, <1>6, <1>7, <1>8, <1>9, <1>10, <1>11,
     <1>12, <1>13 DEF Next, WriterNext, Writes

\* A writer that enters finds nobody inside: the owner of a lock that is taken
\* is not NoWriter, and without lapses nobody is inside a free one.
LEMMA LockStep ==
    ASSUME ~MayLapse, IInv, [Next]_vars
    PROVE  LockInv'
<1> USE LogAssumption DEF IInv, TypeOK, Mutex!TypeOK, Steps, Goto, LockInv
<1>1. ASSUME NEW w \in Writers, Acquire(w)
      PROVE  LockInv'
  BY <1>1 DEF Acquire, Mutex!Enter
<1>2. ASSUME NEW w \in Writers, AcquireLost(w)
      PROVE  LockInv'
  BY <1>2 DEF AcquireLost, Mutex!Orphan
<1>3. ASSUME NEW w \in Writers,
             \/ ReadPrevious(w) \/ ReadFails(w) \/ AppendEntry(w)
             \/ CountLines(w) \/ ReplaceLog(w) \/ WriteCheckpoint(w)
      PROVE  LockInv'
  BY <1>3 DEF ReadPrevious, ReadFails, AppendEntry, CountLines, ReplaceLog,
              WriteCheckpoint, mutexVars
<1>4. ASSUME NEW w \in Writers, TearEntry(w) \/ TearNewline(w) \/ Release(w) \/ Crash(w)
      PROVE  LockInv'
  <2>1. inside = {w} /\ owner = w
    BY <1>4 DEF TearEntry, TearNewline, Release, Crash, Mutex!Leave
  <2>2. inside' = {}
    BY <1>4, <2>1 DEF TearEntry, TearNewline, Release, Crash, Mutex!Leave
  <2>3. pc' = [pc EXCEPT ![w] = "idle"]
    BY <1>4 DEF TearEntry, TearNewline, Release, Crash
  <2>4. QED
    BY <2>1, <2>2, <2>3
<1>5. CASE Expire
  BY <1>5 DEF Expire, Mutex!Lapse
<1>6. CASE UNCHANGED vars
  BY <1>6 DEF vars, mutexVars
<1>7. QED
  BY <1>1, <1>2, <1>3, <1>4, <1>5, <1>6 DEF Next, WriterNext

LEMMA WriterStep ==
    ASSUME ~MayLapse, IInv, [Next]_vars
    PROVE  WriterInv'
<1> USE DEF IInv
<1>0. /\ pc \in [Writers -> Steps]
      /\ lines \in [Writers -> Seq(Entry)]
      /\ prev \in [Writers -> Hash]
  BY DEF TypeOK
\* A writer's step that leaves the files alone moves only that writer.
<1>1. ASSUME NEW w \in Writers,
             \/ Acquire(w) \/ AcquireLost(w) \/ ReadFails(w)
             \/ TearEntry(w) \/ Release(w) \/ Crash(w)
      PROVE  WriterInv'
  <2>1. CASE TearEntry(w)
    <3>1. \A v \in Writers : pc'[v] = "idle"
      BY <1>0, <2>1, AtMostOne DEF TearEntry, Goto
    <3>2. QED
      BY <3>1 DEF WriterInv
  <2>2. CASE ~TearEntry(w)
    BY <1>0, <1>1, <2>2 DEF Acquire, AcquireLost, ReadFails, Release, Crash,
       WriterInv, fileVars, Goto
  <2>3. QED
    BY <2>1, <2>2
<1>2. ASSUME NEW w \in Writers, ReadPrevious(w)
      PROVE  WriterInv'
  BY <1>0, <1>2 DEF ReadPrevious, WriterInv, fileVars, Goto
<1>3. ASSUME NEW w \in Writers, CountLines(w)
      PROVE  WriterInv'
  <2>1. Len(log) \in Nat /\ MaxEntries \in Nat
    BY LenProperties, LogAssumption DEF TypeOK
  <2>2. pc'[w] = "replace" => Len(log) > Keeps(tail)
    BY <1>0, <1>3, <2>1 DEF CountLines, Goto, Lines, Keeps
  <2>3. QED
    BY <1>0, <1>3, <2>2 DEF CountLines, WriterInv, fileVars, Goto
\* A writer's step that changes the files finds every other writer idle.
<1>4. ASSUME NEW w \in Writers,
             Writes(w) \/ ReplaceLog(w) \/ WriteCheckpoint(w)
      PROVE  WriterInv'
  <2>1. pc[w] # "idle"
    BY <1>4, WritesEntry DEF ReplaceLog, WriteCheckpoint
  <2>2. \A v \in Writers : v # w => pc[v] = "idle"
    BY <2>1, AtMostOne
  <2>3. \A v \in Writers : v # w => pc'[v] = "idle"
    BY <1>0, <1>4, <2>2, WritesEntry DEF ReplaceLog, WriteCheckpoint, Goto
  <2>4. CASE Writes(w)
    <3>1. pc'[w] \in {"count", "idle"}
      BY <1>0, <2>4, WritesEntry
    <3>2. QED
      BY <2>3, <3>1 DEF WriterInv
  <2>5. CASE ReplaceLog(w)
    <3>1. /\ pc'[w] = "checkpoint" /\ lines' = lines /\ tail' = tail
          /\ log' = Kept(lines'[w], tail')
      BY <1>0, <2>5 DEF ReplaceLog, Goto
    <3>2. Len(lines'[w]) > Keeps(tail')
      BY <2>5, <3>1 DEF ReplaceLog, WriterInv
    <3>3. QED
      BY <2>3, <3>1, <3>2 DEF WriterInv
  <2>6. CASE WriteCheckpoint(w)
    BY <1>0, <2>3, <2>6 DEF WriteCheckpoint, WriterInv, Goto
  <2>7. QED
    BY <1>4, <2>4, <2>5, <2>6
<1>5. CASE Expire
  BY <1>5 DEF Expire, WriterInv, fileVars
<1>6. CASE UNCHANGED vars
  BY <1>6 DEF vars, WriterInv, fileVars
<1>7. QED
  BY <1>1, <1>2, <1>3, <1>4, <1>5, <1>6 DEF Next, WriterNext, Writes

\* The hash a writer appends after is the one its entry has to continue from.
LEMMA PreviousHashContinues ==
    ASSUME IInv
    PROVE  /\ log # <<>> => Continues(log[Len(log)],
                                      NewEntry(previous_hash(log, checkpoint), nextId))
           /\ log = <<>> => previous_hash(log, checkpoint) = GENESIS_HASH
<1> USE DEF IInv
<1>1. CASE log = <<>>
  BY <1>1 DEF AnchorInv, previous_hash, Anchor
<1>2. CASE log # <<>>
  <2>1. Len(log) \in 1 .. Len(log) /\ 1 \in 1 .. Len(log)
    BY <1>2, EmptySeq, LenProperties DEF TypeOK
  <2>2. WellFormed(log[Len(log)])
    BY <2>1 DEF ChainInv
  <2>3. CASE IsChained(log[Len(log)])
    BY <1>2, <2>3 DEF Continues, NewEntry, previous_hash, IsChained
  <2>4. CASE ~IsChained(log[Len(log)])
    <3>1. ~IsChained(log[1])
      <4>1. CASE Len(log) = 1
        BY <2>4, <4>1
      <4>2. CASE Len(log) # 1
        BY <2>1, <2>4, <4>2 DEF ChainInv
      <4>3. QED
        BY <4>1, <4>2
    <3>2. checkpoint.hash = NoHash
      BY <3>1 DEF AnchorInv
    <3>3. log[Len(log)].hash = NoHash
      BY <2>2, <2>4 DEF WellFormed, IsChained
    <3>4. QED
      BY <1>2, <2>4, <3>2, <3>3 DEF Continues, NewEntry, previous_hash, Anchor
  <2>5. QED
    BY <1>2, <2>3, <2>4
<1>3. QED
  BY <1>1, <1>2

\* An append extends the chain.
LEMMA AppendKeepsChain ==
    ASSUME IInv, NEW w \in Writers, Writes(w)
    PROVE  ChainInv'
<1> DEFINE e == NewEntry(prev[w], nextId)
<1> USE DEF IInv
<1>1. prev[w] = previous_hash(log, checkpoint) /\ prev[w] \in Hash /\ nextId \in Nat
  BY WritesEntry DEF WriterInv, TypeOK
<1>2. e \in Entry /\ IsChained(e) /\ WellFormed(e)
  BY <1>1, NewEntryType
<1>3. /\ Len(log) \in Nat
      /\ Len(log') = Len(log) + 1
      /\ \A i \in 1 .. Len(log) : log'[i] = log[i]
      /\ log'[Len(log) + 1] = e
  BY WrittenLog
<1>4. ASSUME NEW i \in 1 .. Len(log')
      PROVE  WellFormed(log'[i])
  BY <1>2, <1>3 DEF ChainInv
<1>5. ASSUME NEW i \in 2 .. Len(log')
      PROVE  Continues(log'[i - 1], log'[i])
  <2>1. CASE i \in 2 .. Len(log)
    BY <1>3, <2>1 DEF ChainInv
  <2>2. CASE i = Len(log) + 1
    <3>1. log # <<>>
      BY <1>3, <2>2, EmptySeq
    <3>2. Continues(log[Len(log)], e)
      BY <1>1, <3>1, PreviousHashContinues
    <3>3. log'[i - 1] = log[Len(log)] /\ log'[i] = e
      BY <1>3, <2>2
    <3>4. QED
      BY <3>2, <3>3
  <2>3. QED
    BY <1>3, <2>1, <2>2
<1>6. ASSUME NEW i \in 1 .. Len(log'), NEW j \in 1 .. Len(log'),
             i < j, IsChained(log'[i])
      PROVE  IsChained(log'[j])
  <2>1. CASE j = Len(log) + 1
    BY <1>2, <1>3, <2>1
  <2>2. CASE j # Len(log) + 1
    <3>1. i \in 1 .. Len(log) /\ j \in 1 .. Len(log)
      BY <1>3, <1>6, <2>2
    <3>2. QED
      BY <1>3, <1>6, <3>1 DEF ChainInv
  <2>3. QED
    BY <2>1, <2>2
<1>7. QED
  BY <1>4, <1>5, <1>6 DEF ChainInv

\* What a trim leaves of a chain is a chain.
LEMMA TrimKeepsChain ==
    ASSUME IInv, NEW w \in Writers, ReplaceLog(w)
    PROVE  ChainInv'
<1> DEFINE x == Excess(log, tail)
<1> USE DEF IInv
<1>1. log' = Kept(log, tail) /\ Len(log) > Keeps(tail)
  BY DEF ReplaceLog, WriterInv
<1>2. /\ x \in 1 .. Len(log)
      /\ x + Keeps(tail) = Len(log)
      /\ Len(log') = Keeps(tail)
      /\ \A i \in 1 .. Keeps(tail) : log'[i] = log[x + i]
  BY <1>1, KeptProperties DEF TypeOK
<1>3. Keeps(tail) \in Nat /\ Len(log) \in Nat
  BY KeepsType, LenProperties DEF TypeOK
<1>4. ASSUME NEW i \in 1 .. Len(log')
      PROVE  WellFormed(log'[i])
  <2>1. x + i \in 1 .. Len(log)
    BY <1>2, <1>3
  <2>2. QED
    BY <1>2, <2>1 DEF ChainInv
<1>5. ASSUME NEW i \in 2 .. Len(log')
      PROVE  Continues(log'[i - 1], log'[i])
  <2>1. x + i \in 2 .. Len(log) /\ x + (i - 1) = (x + i) - 1
    BY <1>2, <1>3
  <2>2. log'[i - 1] = log[(x + i) - 1] /\ log'[i] = log[x + i]
    BY <1>2, <1>3, <2>1
  <2>3. Continues(log[(x + i) - 1], log[x + i])
    BY <2>1 DEF ChainInv
  <2>4. QED
    BY <2>2, <2>3
<1>6. ASSUME NEW i \in 1 .. Len(log'), NEW j \in 1 .. Len(log'),
             i < j, IsChained(log'[i])
      PROVE  IsChained(log'[j])
  <2>1. x + i \in 1 .. Len(log) /\ x + j \in 1 .. Len(log) /\ x + i < x + j
    BY <1>2, <1>3, <1>6
  <2>2. log'[i] = log[x + i] /\ log'[j] = log[x + j]
    BY <1>2
  <2>3. QED
    BY <1>6, <2>1, <2>2 DEF ChainInv
<1>7. QED
  BY <1>4, <1>5, <1>6 DEF ChainInv

\* Only an append and a trim change the log.
LEMMA LogUnchanged ==
    ASSUME [Next]_vars,
           ~ \E w \in Writers : Writes(w) \/ ReplaceLog(w)
    PROVE  log' = log
BY DEF Next, WriterNext, vars, fileVars, Expire, Acquire, AcquireLost,
   ReadPrevious, ReadFails, TearEntry, CountLines, WriteCheckpoint, Release, Crash,
   Writes

LEMMA ChainStep ==
    ASSUME ~MayLapse, IInv, [Next]_vars
    PROVE  ChainInv'
<1>1. ASSUME NEW w \in Writers, Writes(w)
      PROVE  ChainInv'
  BY <1>1, AppendKeepsChain
<1>2. ASSUME NEW w \in Writers, ReplaceLog(w)
      PROVE  ChainInv'
  BY <1>2, TrimKeepsChain
<1>3. CASE ~ \E w \in Writers : Writes(w) \/ ReplaceLog(w)
  <2>1. log' = log
    BY <1>3, LogUnchanged
  <2>2. QED
    BY <2>1 DEF IInv, ChainInv
<1>4. QED
  BY <1>1, <1>2, <1>3

LEMMA FirstEntryVerifies ==
    ASSUME NEW l, NEW h
    PROVE  EntryVerifies(l, h, 1) <=>
              IF IsChained(l[1])
              THEN /\ l[1].prev = Anchor(h)
                   /\ l[1].hash = compute_hash(l[1].prev, l[1].id)
              ELSE h = NoHash
BY DEF EntryVerifies, ExpectedPrev, Started

LEMMA AppendKeepsAnchor ==
    ASSUME ~MayLapse, IInv, NEW w \in Writers, Writes(w)
    PROVE  AnchorInv'
<1> DEFINE e == NewEntry(prev[w], nextId)
<1> USE DEF IInv
<1>1. /\ prev[w] = previous_hash(log, checkpoint)
      /\ prev[w] \in Hash
      /\ nextId \in Nat
      /\ pc[w] = "append"
      /\ pc' = [pc EXCEPT ![w] = "count"] \/ pc' = [pc EXCEPT ![w] = "idle"]
      /\ UNCHANGED <<checkpoint, interrupted>>
  BY WritesEntry DEF WriterInv, TypeOK
<1>2. e \in Entry /\ IsChained(e) /\ WellFormed(e)
  BY <1>1, NewEntryType
<1>3. /\ Len(log) \in Nat
      /\ log' # <<>>
      /\ log # <<>> => log'[1] = log[1]
      /\ log = <<>> => log'[1] = e
  <2>1. log' = Append(log, e) /\ log \in Seq(Entry)
    BY WritesEntry DEF TypeOK
  <2>2. Len(log) \in Nat /\ log' # <<>>
    BY <1>2, <2>1, AppendProperties, LenProperties
  <2>3. CASE log # <<>>
    <3>1. 1 \in 1 .. Len(log)
      BY <2>1, <2>3, EmptySeq
    <3>2. QED
      BY <1>2, <2>1, <2>2, <2>3, <3>1, AppendedProperties
  <2>4. CASE log = <<>>
    <3>1. Len(log) = 0
      BY <2>4, EmptySeq
    <3>2. log'[0 + 1] = e
      BY <1>2, <2>1, <3>1, AppendedProperties
    <3>3. QED
      BY <2>2, <2>4, <3>2
  <2>5. QED
    BY <2>3, <2>4
<1>4. \A v \in Writers : pc[v] # "checkpoint" /\ pc'[v] # "checkpoint"
  <2>1. \A v \in Writers : v # w => pc[v] = "idle"
    BY <1>1, AtMostOne
  <2>2. QED
    BY <1>1, <2>1 DEF TypeOK
<1>5. CASE log = <<>>
  <2>1. checkpoint.hash = NoHash /\ prev[w] = GENESIS_HASH
    BY <1>1, <1>5, PreviousHashContinues DEF AnchorInv
  <2>2. e.prev = Anchor(checkpoint.hash) /\ e.hash = compute_hash(e.prev, e.id)
    BY <1>2, <2>1 DEF Anchor, NewEntry, WellFormed
  <2>3. EntryVerifies(log', checkpoint.hash, 1)
    BY <1>2, <1>3, <1>5, <2>2, FirstEntryVerifies
  <2>4. QED
    BY <1>1, <1>2, <1>3, <1>4, <1>5, <2>3 DEF AnchorInv, StartsFrom
<1>6. CASE log # <<>>
  <2>1. \A h : EntryVerifies(log, h, 1) <=> EntryVerifies(log', h, 1)
    BY <1>3, <1>6, FirstEntryVerifies
  <2>2. ~Trimming
    BY <1>4 DEF Trimming
  <2>3. QED
    BY <1>1, <1>3, <1>4, <1>6, <2>1, <2>2 DEF AnchorInv, StartsFrom
<1>7. QED
  BY <1>5, <1>6

LEMMA TrimKeepsAnchor ==
    ASSUME ~MayLapse, IInv, NEW w \in Writers, ReplaceLog(w)
    PROVE  AnchorInv'
<1> DEFINE x == Excess(log, tail)
<1> USE DEF IInv
<1>1. /\ lines[w] = log
      /\ lines' = lines /\ tail' = tail
      /\ log' = Kept(log, tail)
      /\ Len(log) > Keeps(tail)
      /\ pc[w] = "replace"
      /\ pc' = [pc EXCEPT ![w] = "checkpoint"]
      /\ UNCHANGED <<checkpoint, tail>>
  BY DEF ReplaceLog, WriterInv, Goto
<1>2. /\ x \in 1 .. Len(log)
      /\ x + Keeps(tail) = Len(log)
      /\ \A i \in 1 .. Keeps(tail) : log'[i] = log[x + i]
  BY <1>1, KeptProperties DEF TypeOK
<1>3. Keeps(tail) \in Nat \ {0} /\ Len(log) \in Nat
  BY KeepsType, LenProperties DEF TypeOK
<1>4. /\ log'[1] = log[x + 1]
      /\ x + 1 \in 2 .. Len(log)
      /\ (x + 1) - 1 = x
      /\ 1 \in 1 .. Len(log)
  BY <1>2, <1>3
<1>5. WellFormed(log[x]) /\ WellFormed(log[x + 1]) /\ Continues(log[x], log[x + 1])
  BY <1>2, <1>4 DEF ChainInv
<1>6. IsChained(log[x]) => IsChained(log[x + 1])
  BY <1>2, <1>4 DEF ChainInv
<1>7. IsChained(log[1]) => IsChained(log[x + 1])
  BY <1>4 DEF ChainInv
<1>8. EntryVerifies(log', log[x].hash, 1)
  <2>1. CASE IsChained(log[x])
    <3>1. log[x + 1].prev = Anchor(log[x].hash)
      BY <1>5, <1>6, <2>1 DEF Continues, Anchor, IsChained
    <3>2. QED
      BY <1>4, <1>5, <1>6, <2>1, <3>1, FirstEntryVerifies DEF WellFormed
  <2>2. CASE ~IsChained(log[x])
    <3>1. log[x].hash = NoHash
      BY <1>5, <2>2 DEF WellFormed, IsChained
    <3>2. IsChained(log[x + 1]) => log[x + 1].prev = Anchor(log[x].hash)
      BY <1>5, <2>2, <3>1 DEF Continues, Anchor
    <3>3. QED
      BY <1>4, <1>5, <3>1, <3>2, FirstEntryVerifies DEF WellFormed
  <2>3. QED
    BY <2>1, <2>2
<1>9. \A v \in Writers : pc'[v] = "checkpoint" <=> v = w
  <2>1. \A v \in Writers : v # w => pc[v] = "idle"
    BY <1>1, AtMostOne
  <2>2. QED
    BY <1>1, <2>1 DEF TypeOK
<1>10. log' = <<>> \/ ~IsChained(log'[1]) => checkpoint'.hash = NoHash
  <2>1. log' # <<>>
    <3>1. Len(log') = Keeps(tail)
      BY <1>1, KeptProperties DEF TypeOK
    <3>2. QED
      BY <1>3, <3>1, EmptySeq
  <2>2. QED
    BY <1>1, <1>4, <1>7, <2>1 DEF AnchorInv
<1>11. Trimming'
  BY <1>9 DEF Trimming
<1>12. \A v \in Writers :
          pc'[v] = "checkpoint" => StartsFrom(lines[v][Excess(lines[v], tail)].hash)'
  BY <1>1, <1>8, <1>9 DEF StartsFrom
<1>13. QED
  BY <1>10, <1>11, <1>12 DEF AnchorInv

LEMMA CheckpointKeepsAnchor ==
    ASSUME ~MayLapse, IInv, NEW w \in Writers, WriteCheckpoint(w)
    PROVE  AnchorInv'
<1> DEFINE h == lines[w][Excess(lines[w], tail)].hash
<1> USE DEF IInv
<1>1. /\ pc[w] = "checkpoint"
      /\ pc' = [pc EXCEPT ![w] = "release"]
      /\ log' = log
      /\ checkpoint'.hash = h
  BY DEF WriteCheckpoint, Goto
<1>2. StartsFrom(h)
  BY <1>1 DEF AnchorInv
<1>3. log # <<>>
  <2>1. Len(log) = Keeps(tail)
    BY <1>1, KeptProperties DEF WriterInv, TypeOK
  <2>2. QED
    BY <2>1, EmptySeq, KeepsType
<1>4. \A v \in Writers : pc'[v] # "checkpoint"
  <2>1. \A v \in Writers : v # w => pc[v] = "idle"
    BY <1>1, AtMostOne
  <2>2. QED
    BY <1>1, <2>1 DEF TypeOK
<1>5. ~IsChained(log[1]) => h = NoHash
  BY <1>2, <1>3, FirstEntryVerifies DEF StartsFrom
<1>6. QED
  BY <1>1, <1>2, <1>3, <1>4, <1>5 DEF AnchorInv, StartsFrom

LEMMA AnchorStep ==
    ASSUME ~MayLapse, IInv, [Next]_vars
    PROVE  AnchorInv'
<1> USE DEF IInv
<1>0. pc \in [Writers -> Steps]
  BY DEF TypeOK
<1>1. ASSUME NEW w \in Writers, Writes(w)
      PROVE  AnchorInv'
  BY <1>1, AppendKeepsAnchor
<1>2. ASSUME NEW w \in Writers, ReplaceLog(w)
      PROVE  AnchorInv'
  BY <1>2, TrimKeepsAnchor
<1>3. ASSUME NEW w \in Writers, WriteCheckpoint(w)
      PROVE  AnchorInv'
  BY <1>3, CheckpointKeepsAnchor
\* A writer in the middle of a trim dies: the chain is vouched for again when
\* the next trim completes.
<1>4. ASSUME NEW w \in Writers, Crash(w), pc[w] = "checkpoint"
      PROVE  AnchorInv'
  <2>1. interrupted' /\ log' = log /\ checkpoint' = checkpoint
    BY <1>4 DEF Crash, fileVars
  <2>2. \A v \in Writers : pc'[v] # "checkpoint"
    <3>1. \A v \in Writers : v # w => pc[v] = "idle"
      BY <1>4, AtMostOne
    <3>2. QED
      BY <1>0, <1>4, <3>1 DEF Crash, Goto
  <2>3. QED
    BY <2>1, <2>2 DEF AnchorInv
<1>5. ASSUME NEW w \in Writers,
             \/ Acquire(w) \/ AcquireLost(w) \/ ReadPrevious(w) \/ ReadFails(w)
             \/ TearEntry(w) \/ CountLines(w) \/ Release(w)
             \/ Crash(w) /\ pc[w] # "checkpoint"
      PROVE  AnchorInv'
  <2>1. log' = log /\ checkpoint' = checkpoint /\ interrupted' = interrupted
    BY <1>5 DEF Acquire, AcquireLost, ReadPrevious, ReadFails, TearEntry,
       CountLines, Release, Crash, fileVars, ghostVars
  <2>2. \A v \in Writers : pc'[v] = "checkpoint" <=> pc[v] = "checkpoint"
    BY <1>0, <1>5 DEF Acquire, AcquireLost, ReadPrevious, ReadFails, TearEntry,
       CountLines, Release, Crash, Goto
  <2>3. \A v \in Writers : pc[v] = "checkpoint" => lines'[v] = lines[v]
    <3>1. CASE CountLines(w)
      BY <3>1 DEF CountLines, TypeOK
    <3>2. CASE ~CountLines(w)
      BY <1>5, <3>2 DEF Acquire, AcquireLost, ReadPrevious, ReadFails, TearEntry,
         Release, Crash
    <3>3. QED
      BY <3>1, <3>2
  <2>4. Trimming' <=> Trimming
    BY <2>2 DEF Trimming
  <2>5. \A v \in Writers : pc[v] = "checkpoint" => tail' = tail
    <3>1. CASE TearEntry(w)
      BY <3>1, AtMostOne DEF TearEntry
    <3>2. CASE ~TearEntry(w)
      BY <1>5, <3>2 DEF Acquire, AcquireLost, ReadPrevious, ReadFails, CountLines,
         Release, Crash, fileVars
    <3>3. QED
      BY <3>1, <3>2
  <2>6. \A v \in Writers :
           pc'[v] = "checkpoint" => StartsFrom(lines[v][Excess(lines[v], tail)].hash)'
    BY <2>1, <2>2, <2>3, <2>5 DEF AnchorInv, StartsFrom
  <2>7. QED
    BY <2>1, <2>4, <2>6 DEF AnchorInv, StartsFrom
<1>6. CASE Expire \/ UNCHANGED vars
  <2>1. UNCHANGED <<log, tail, checkpoint, interrupted, pc, lines>>
    BY <1>6 DEF Expire, vars, fileVars, ghostVars
  <2>2. QED
    BY <2>1 DEF AnchorInv, StartsFrom, Trimming
<1>7. QED
  BY <1>1, <1>2, <1>3, <1>4, <1>5, <1>6 DEF Next, WriterNext, Writes

-----------------------------------------------------------------------------
(* The theorems *)

\* Before the first append: legacy lines, if any.
LEMMA InitialInvariant ==
    ASSUME Init
    PROVE  IInv
<1>1. legacy \in Nat /\ legacy \in 0 .. MaxLegacy
  BY LogAssumption DEF Init
<1>2. /\ log \in Seq(Entry)
      /\ Len(log) = legacy
      /\ \A i \in 1 .. legacy : log[i] = LegacyEntry(0)
  <2>1. LegacyEntry(0) \in Entry
    BY DEF LegacyEntry, Entry
  <2>2. log \in [1 .. legacy -> Entry] /\ \A i \in 1 .. legacy : log[i] = LegacyEntry(0)
    BY <2>1 DEF Init
  <2>3. log \in Seq(Entry)
    BY <1>1, <2>2, SeqDef
  <2>4. QED
    BY <1>1, <2>2, <2>3, LenProperties
<1>3. TypeOK
  <2>1. Mutex!TypeOK
    BY DEF Init, Mutex!Init, Mutex!TypeOK
  <2>2. pc \in [Writers -> Steps]
    BY DEF Init, Steps
  <2>3. prev \in [Writers -> Hash]
    BY EmptySeq DEF Init, Hash, GENESIS_HASH
  <2>4. lines \in [Writers -> Seq(Entry)]
    BY EmptySeq DEF Init
  <2>5. checkpoint \in Checkpoint
    BY DEF Init, Checkpoint, NoCheckpoint
  <2>6. tail \in Tails /\ interrupted \in BOOLEAN
    BY Zenon DEF Init, Tails
  <2>7. nextId \in Nat \ {0} /\ unrecorded \in Nat
    BY DEF Init
  <2>8. QED
    BY <1>1, <1>2, <2>1, <2>2, <2>3, <2>4, <2>5, <2>6, <2>7 DEF TypeOK
<1>4. LockInv /\ WriterInv
  BY DEF Init, Mutex!Init, LockInv, WriterInv
<1>5. \A i \in 1 .. Len(log) : ~IsChained(log[i]) /\ WellFormed(log[i])
  BY <1>2 DEF LegacyEntry, IsChained, WellFormed
<1>6. ChainInv
  <2>1. Len(log) \in Nat
    BY <1>1, <1>2
  <2>2. \A i \in 2 .. Len(log) : ~IsChained(log[i])
    BY <1>5, <2>1
  <2>3. QED
    BY <1>5, <2>2 DEF ChainInv, Continues
<1>7. AnchorInv
  <2>1. log # <<>> => ~IsChained(log[1])
    BY <1>1, <1>2, <1>5, EmptySeq
  <2>2. checkpoint.hash = NoHash
    BY DEF Init, NoCheckpoint
  <2>3. StartsFrom(checkpoint.hash)
    BY <2>1, <2>2, FirstEntryVerifies DEF StartsFrom
  <2>4. \A w \in Writers : pc[w] # "checkpoint"
    BY DEF Init
  <2>5. QED
    BY <2>2, <2>3, <2>4 DEF AnchorInv
<1>8. QED
  BY <1>3, <1>4, <1>6, <1>7 DEF IInv

\* The inductive invariant holds in every reachable state.
THEOREM InductiveInvariant ==
    ASSUME ~MayLapse
    PROVE  Spec => []IInv
<1>1. Init => IInv
  BY InitialInvariant
<1>2. IInv /\ [Next]_vars => IInv'
  BY TypeStep, LockStep, WriterStep, ChainStep, AnchorStep DEF IInv
<1>3. QED
  BY <1>1, <1>2, PTL DEF Spec

\* Type correctness.
THEOREM TypeCorrect ==
    ASSUME ~MayLapse
    PROVE  Spec => []TypeOK
<1>1. IInv => TypeOK
  BY DEF IInv
<1>2. QED
  BY <1>1, InductiveInvariant, PTL

\* The entries on disk continue one another, whatever crashed.
THEOREM Unbroken ==
    ASSUME ~MayLapse
    PROVE  Spec => []ChainUnbroken
<1>1. IInv => ChainUnbroken
  <2> SUFFICES ASSUME IInv, NEW i \in 2 .. Len(log), IsChained(log[i - 1])
               PROVE  log[i].prev = log[i - 1].hash
    BY DEF ChainUnbroken
  <2>1. Len(log) \in Nat
    BY LenProperties DEF IInv, TypeOK
  <2>2. i - 1 \in 1 .. Len(log) /\ i \in 1 .. Len(log) /\ i - 1 < i
    BY <2>1
  <2>3. IsChained(log[i])
    BY <2>2 DEF IInv, ChainInv
  <2>4. QED
    BY <2>3 DEF IInv, ChainInv, Continues
<1>2. QED
  BY <1>1, InductiveInvariant, PTL

\* Between trims, the invariant makes the log verify.
LEMMA SettledVerifies ==
    ASSUME IInv
    PROVE  VerifiesWhenSettled
<1> SUFFICES ASSUME ~Trimming, ~interrupted,
                    NEW i \in 1 .. Len(log)
             PROVE  EntryVerifies(log, checkpoint.hash, i)
  BY DEF VerifiesWhenSettled, Verifies
<1> USE DEF IInv
<1>1. Len(log) \in Nat /\ 1 \in 1 .. Len(log) /\ log # <<>>
  BY LenProperties, EmptySeq DEF TypeOK
<1>2. EntryVerifies(log, checkpoint.hash, 1)
  BY <1>1 DEF AnchorInv, StartsFrom
<1>3. CASE i = 1
  BY <1>2, <1>3
<1>4. CASE i # 1
  <2>1. i \in 2 .. Len(log) /\ i - 1 \in 1 .. Len(log) /\ i - 1 < i /\ i > 1
    BY <1>1, <1>4
  <2>2. WellFormed(log[i]) /\ Continues(log[i - 1], log[i])
    BY <2>1 DEF ChainInv
  <2>3. IsChained(log[i - 1]) => IsChained(log[i])
    BY <2>1 DEF ChainInv
  <2>4. ~IsChained(log[i - 1]) => checkpoint.hash = NoHash
    <3>1. ~IsChained(log[i - 1]) => ~IsChained(log[1])
      <4>1. CASE i = 2
        BY <4>1
      <4>2. CASE i # 2
        BY <1>1, <2>1, <4>2 DEF ChainInv
      <4>3. QED
        BY <4>1, <4>2
    <3>2. QED
      BY <3>1 DEF AnchorInv
  <2>5. CASE IsChained(log[i - 1])
    BY <2>1, <2>2, <2>3, <2>5
       DEF EntryVerifies, ExpectedPrev, WellFormed, Continues
  <2>6. CASE ~IsChained(log[i - 1])
    BY <2>2, <2>4, <2>6
       DEF EntryVerifies, ExpectedPrev, Started, Anchor, WellFormed, Continues
  <2>7. QED
    BY <2>5, <2>6
<1>5. QED
  BY <1>3, <1>4

\* The log verifies against its checkpoint whenever no trim is under way and
\* none was cut short.
THEOREM Verifiable ==
    ASSUME ~MayLapse
    PROVE  Spec => []VerifiesWhenSettled
<1>1. IInv => VerifiesWhenSettled
  BY SettledVerifies
<1>2. QED
  BY <1>1, InductiveInvariant, PTL

-----------------------------------------------------------------------------
(* Histories *)

\* The file only grows at its end or is cut at its beginning.
THEOREM NeverRewritten ==
    ASSUME ~MayLapse
    PROVE  Spec => HistoryNeverRewritten
<1> DEFINE Grows == Len(log') > Len(log) /\ SubSeq(log', 1, Len(log)) = log
           Cut == \E n \in 1 .. Len(log) : log' = SubSeq(log, n, Len(log))
<1>1. IInv /\ [Next]_vars => [Grows \/ Cut]_log
  <2> SUFFICES ASSUME IInv, [Next]_vars
               PROVE  [Grows \/ Cut]_log
    OBVIOUS
  <2> USE DEF IInv
  <2>1. ASSUME NEW w \in Writers, Writes(w)
        PROVE  Grows
    <3> DEFINE e == NewEntry(prev[w], nextId)
    <3>1. e \in Entry /\ log \in Seq(Entry) /\ log' = Append(log, e)
      BY <2>1, WritesEntry, NewEntryType DEF TypeOK
    <3>2. /\ log' \in Seq(Entry)
          /\ Len(log) \in Nat
          /\ Len(log') = Len(log) + 1
          /\ \A i \in 1 .. Len(log) : log'[i] = log[i]
      BY <3>1, AppendedProperties
    <3> DEFINE front == SubSeq(log', 1, Len(log))
    <3>3. \A i \in 1 .. Len(log) : log'[i] \in Entry
      BY <3>1, <3>2, ElementOfSeq
    <3>4. /\ front \in Seq(Entry)
          /\ Len(front) = Len(log)
          /\ \A i \in 1 .. Len(log) : front[i] = log'[i]
      BY <3>2, <3>3, SubSeqProperties
    <3>5. front = log
      BY <3>1, <3>2, <3>4, SeqEqual
    <3>6. QED
      BY <3>2, <3>5
  <2>2. ASSUME NEW w \in Writers, ReplaceLog(w)
        PROVE  Cut
    <3>1. log' = Kept(log, tail) /\ Len(log) > Keeps(tail)
      BY <2>2 DEF ReplaceLog, WriterInv
    <3>2. /\ Excess(log, tail) + Keeps(tail) = Len(log)
          /\ Excess(log, tail) \in 1 .. Len(log)
          /\ Len(log) \in Nat
          /\ Keeps(tail) \in Nat \ {0}
      BY <3>1, KeptProperties, KeepsType, LenProperties DEF TypeOK
    <3>3. Excess(log, tail) + 1 \in 1 .. Len(log)
      BY <3>2
    <3>4. QED
      BY <3>1, <3>3 DEF Kept
  <2>3. CASE ~ \E w \in Writers : Writes(w) \/ ReplaceLog(w)
    BY <2>3, LogUnchanged
  <2>4. QED
    BY <2>1, <2>2, <2>3
<1>2. QED
  BY <1>1, InductiveInvariant, PTL DEF Spec, HistoryNeverRewritten

\* Who can be where once an append has been torn: nobody is about to append to
\* a log whose last line does not parse, and nobody trims one that a writer tore.
TearInv ==
    /\ ~Readable => \A w \in Writers : pc[w] # "append"
    /\ tail \in {"unended", "partial"} =>
          \A w \in Writers : pc[w] \in {"idle", "read", "append", "release"}

LEMMA TearInvStep ==
    ASSUME ~MayLapse, IInv, TearInv, [Next]_vars
    PROVE  TearInv'
<1> USE DEF IInv, Goto
<1>0. pc \in [Writers -> Steps]
  BY DEF TypeOK
\* A writer that appends leaves the others idle.
<1>1. ASSUME NEW w \in Writers, Writes(w) \/ TearEntry(w)
      PROVE  TearInv'
  <2>1. \A v \in Writers : v # w => pc[v] = "idle"
    BY <1>1, AtMostOne, WritesEntry DEF TearEntry
  <2>2. CASE AppendEntry(w)
    <3>1. pc'[w] = "count" /\ \A v \in Writers : v # w => pc'[v] = "idle"
      BY <1>0, <2>1, <2>2 DEF AppendEntry
    <3>2. tail' \in {"ended", "glued"}
      BY <2>2 DEF AppendEntry, WriteEntry
    <3>3. QED
      BY <3>1, <3>2 DEF TearInv
  <2>3. CASE TearNewline(w) \/ TearEntry(w)
    <3>1. \A v \in Writers : pc'[v] = "idle"
      BY <1>0, <2>1, <2>3 DEF TearNewline, TearEntry
    <3>2. QED
      BY <3>1 DEF TearInv
  <2>4. QED
    BY <1>1, <2>2, <2>3 DEF Writes
\* The others leave the end of the log as it is.
<1>2. ASSUME NEW w \in Writers,
             \/ Acquire(w) \/ AcquireLost(w) \/ ReadPrevious(w) \/ ReadFails(w)
             \/ CountLines(w) \/ ReplaceLog(w)
             \/ WriteCheckpoint(w) \/ Release(w) \/ Crash(w)
      PROVE  TearInv'
  <2>1. tail' = tail
    BY <1>2 DEF Acquire, AcquireLost, ReadPrevious, ReadFails,
       CountLines, ReplaceLog, WriteCheckpoint, Release, Crash, fileVars
  <2>2. CASE ~Readable
    <3>1. \A v \in Writers : pc'[v] # "append"
      BY <1>0, <1>2, <2>2 DEF TearInv, Acquire, AcquireLost, ReadPrevious, ReadFails,
         CountLines, ReplaceLog, WriteCheckpoint, Release, Crash
    <3>2. tail = "partial" =>
             \A v \in Writers : pc'[v] \in {"idle", "read", "append", "release"}
      BY <1>0, <1>2 DEF TearInv, Acquire, AcquireLost, ReadPrevious, ReadFails,
         CountLines, ReplaceLog, WriteCheckpoint, Release, Crash
    <3>3. QED
      BY <2>1, <2>2, <3>1, <3>2 DEF TearInv, Readable
  <2>3. CASE Readable
    <3>1. tail = "unended" =>
             \A v \in Writers : pc'[v] \in {"idle", "read", "append", "release"}
      BY <1>0, <1>2 DEF TearInv, Acquire, AcquireLost, ReadPrevious, ReadFails,
         CountLines, ReplaceLog, WriteCheckpoint, Release, Crash
    <3>2. QED
      BY <2>1, <2>3, <3>1 DEF TearInv, Readable
  <2>4. QED
    BY <2>2, <2>3
<1>3. CASE Expire \/ UNCHANGED vars
  BY <1>3 DEF Expire, vars, fileVars, TearInv, Readable
<1>4. QED
  BY <1>1, <1>2, <1>3 DEF Next, WriterNext, Writes

\* A log whose last line does not parse takes no further entry, and one whose
\* last line lacks its newline takes one, which makes that line unreadable.
THEOREM TornFrozen ==
    ASSUME ~MayLapse
    PROVE  Spec => TornLogFrozen
<1> DEFINE Frozen ==
        /\ ~Readable =>
             /\ UNCHANGED tail
             /\ \E n \in 2 .. Len(log) : log' = SubSeq(log, n, Len(log))
        /\ tail = "unended" => ~Readable'
<1>1. Init => TearInv
  BY DEF Init, TearInv, Readable
<1>2. IInv /\ TearInv /\ [Next]_vars => TearInv'
  BY TearInvStep
<1>3. IInv /\ TearInv /\ [Next]_vars => [Frozen]_<<log, tail>>
  <2> SUFFICES ASSUME IInv, TearInv, [Next]_vars, <<log, tail>>' # <<log, tail>>
               PROVE  Frozen
    BY Zenon
  <2>1. ASSUME NEW w \in Writers, Writes(w)
        PROVE  Frozen
    <3>1. Readable /\ (tail = "unended" => tail' = "glued")
      BY <2>1, WritesEntry DEF TearInv, WriteEntry
    <3>2. QED
      BY <3>1 DEF Readable
  <2>2. ASSUME NEW w \in Writers, TearEntry(w)
        PROVE  Frozen
    BY <2>2 DEF TearEntry, TearInv, Readable
  <2>3. ASSUME NEW w \in Writers, ReplaceLog(w)
        PROVE  Frozen
    <3>1. /\ log' = Kept(log, tail) /\ Len(log) > Keeps(tail)
          /\ tail' = tail /\ tail # "unended"
      BY <2>3 DEF ReplaceLog, WriterInv, IInv, TearInv
    <3>2. /\ Excess(log, tail) + Keeps(tail) = Len(log)
          /\ Excess(log, tail) \in 1 .. Len(log)
          /\ Len(log) \in Nat
          /\ Keeps(tail) \in Nat \ {0}
      BY <3>1, KeptProperties, KeepsType, LenProperties DEF IInv, TypeOK
    <3>3. Excess(log, tail) + 1 \in 2 .. Len(log)
      BY <3>2
    <3>4. QED
      BY <3>1, <3>3 DEF Kept
  <2>4. CASE ~ \E w \in Writers : Writes(w) \/ TearEntry(w) \/ ReplaceLog(w)
    BY <2>4 DEF Next, WriterNext, vars, fileVars, Expire, Acquire, AcquireLost,
       ReadPrevious, ReadFails, CountLines, WriteCheckpoint, Release, Crash, Writes
  <2>5. QED
    BY <2>1, <2>2, <2>3, <2>4
<1>4. QED
  BY <1>1, <1>2, <1>3, InductiveInvariant, PTL DEF Spec, TornLogFrozen

-----------------------------------------------------------------------------
(* The log implements the ledger *)

\* The head of the chain moves only by an append, and then by its payload.
LEMMA HeadStep ==
    ASSUME ~MayLapse, IInv, HeadInv, [Next]_vars
    PROVE  \/ /\ nextId \in 1 .. MaxAppends
              /\ nextId' = nextId + 1
              /\ previous_hash(log, checkpoint)'
                    = Append(previous_hash(log, checkpoint), nextId)
           \/ /\ nextId' = nextId
              /\ previous_hash(log, checkpoint)' = previous_hash(log, checkpoint)
<1> USE DEF IInv
<1>1. ASSUME NEW w \in Writers, Writes(w)
      PROVE  /\ nextId \in 1 .. MaxAppends
             /\ nextId' = nextId + 1
             /\ previous_hash(log, checkpoint)'
                   = Append(previous_hash(log, checkpoint), nextId)
  <2> DEFINE e == NewEntry(prev[w], nextId)
  <2>1. /\ prev[w] = previous_hash(log, checkpoint)
        /\ prev[w] \in Hash
        /\ nextId \in 1 .. MaxAppends
        /\ nextId' = nextId + 1
    BY <1>1, WritesEntry, LogAssumption DEF WriterInv, TypeOK
  <2>2. e \in Entry /\ IsChained(e)
    BY <2>1, NewEntryType
  <2>3. /\ log' \in Seq(Entry)
        /\ Len(log) \in Nat
        /\ Len(log') = Len(log) + 1
        /\ log'[Len(log) + 1] = e
    BY <1>1, WrittenLog
  <2>4. log' # <<>> /\ log'[Len(log')].hash # NoHash
    BY <2>2, <2>3, EmptySeq DEF IsChained
  <2>5. previous_hash(log, checkpoint)' = e.hash
    BY <2>3, <2>4 DEF previous_hash
  <2>6. QED
    BY <2>1, <2>5 DEF NewEntry, compute_hash
<1>2. ASSUME NEW w \in Writers, ReplaceLog(w)
      PROVE  previous_hash(log, checkpoint)' = previous_hash(log, checkpoint)
  <2>1. log' = Kept(log, tail) /\ Len(log) > Keeps(tail) /\ log \in Seq(Entry)
    BY <1>2 DEF ReplaceLog, WriterInv, TypeOK
  <2>2. /\ Excess(log, tail) + Keeps(tail) = Len(log)
        /\ Len(log') = Keeps(tail)
        /\ log' \in Seq(Entry)
        /\ \A i \in 1 .. Keeps(tail) : log'[i] = log[Excess(log, tail) + i]
        /\ Keeps(tail) \in Nat \ {0}
    BY <2>1, KeptProperties, KeepsType
  <2>3. log'[Len(log')] = log[Len(log)] /\ log' # <<>>
    BY <2>2, EmptySeq
  <2>4. log # <<>> /\ IsChained(log[Len(log)])
    BY <1>2 DEF ReplaceLog, HeadInv
  <2>5. QED
    BY <2>3, <2>4 DEF previous_hash, IsChained
<1>3. ASSUME NEW w \in Writers, WriteCheckpoint(w)
      PROVE  previous_hash(log, checkpoint)' = previous_hash(log, checkpoint)
  <2>1. log # <<>> /\ IsChained(log[Len(log)]) /\ log' = log
    BY <1>3 DEF WriteCheckpoint, HeadInv
  <2>2. QED
    BY <2>1 DEF previous_hash, IsChained
<1>4. CASE ~ \E w \in Writers : Writes(w) \/ ReplaceLog(w) \/ WriteCheckpoint(w)
  <2>1. UNCHANGED <<log, checkpoint, nextId>>
    BY <1>4 DEF Next, WriterNext, vars, fileVars, Expire, Acquire, AcquireLost,
       ReadPrevious, ReadFails, TearEntry, CountLines, Release, Crash, Writes
  <2>2. QED
    BY <2>1 DEF previous_hash
<1>5. ASSUME NEW w \in Writers, ReplaceLog(w) \/ WriteCheckpoint(w)
      PROVE  nextId' = nextId
  BY <1>5 DEF ReplaceLog, WriteCheckpoint
<1>6. QED
  BY <1>1, <1>2, <1>3, <1>4, <1>5

LEMMA HeadInvStep ==
    ASSUME ~MayLapse, IInv, HeadInv, [Next]_vars
    PROVE  HeadInv'
<1> USE DEF IInv
<1> DEFINE head == previous_hash(log, checkpoint)
<1>0. pc \in [Writers -> Steps]
  BY DEF TypeOK
<1>1. ASSUME NEW i \in 1 .. Len(head')
      PROVE  head'[i] < nextId'
  <2>1. head \in Hash /\ nextId \in Nat
    BY PreviousHashType DEF TypeOK
  <2>2. CASE nextId' = nextId /\ head' = head
    BY <1>1, <2>2 DEF HeadInv
  <2>3. CASE nextId' = nextId + 1 /\ head' = Append(head, nextId)
    <3>1. /\ Len(head) \in Nat
          /\ Len(head') = Len(head) + 1
          /\ \A j \in 1 .. Len(head) : head'[j] = head[j]
          /\ head'[Len(head) + 1] = nextId
      BY <2>1, <2>3, AppendProperties, LenProperties DEF Hash
    <3>2. CASE i \in 1 .. Len(head)
      <4>1. head'[i] = head[i] /\ head[i] < nextId
        BY <3>1, <3>2 DEF HeadInv
      <4>2. head[i] \in Nat
        BY <2>1, <3>2, ElementOfSeq DEF Hash
      <4>3. QED
        BY <2>1, <2>3, <4>1, <4>2
    <3>3. CASE i = Len(head) + 1
      BY <2>1, <2>3, <3>1, <3>3
    <3>4. QED
      BY <1>1, <3>1, <3>2, <3>3
  <2>4. QED
    BY <2>2, <2>3, HeadStep
<1>2. ASSUME NEW v \in Writers, pc'[v] \in {"count", "replace", "checkpoint"}
      PROVE  log' # <<>> /\ IsChained(log'[Len(log')])
  <2>1. ASSUME NEW w \in Writers, Writes(w)
        PROVE  log' # <<>> /\ IsChained(log'[Len(log')])
    <3> DEFINE e == NewEntry(prev[w], nextId)
    <3>1. e \in Entry /\ IsChained(e)
      BY <2>1, NewEntryType DEF TypeOK
    <3>2. /\ log' \in Seq(Entry)
          /\ Len(log) \in Nat
          /\ Len(log') = Len(log) + 1
          /\ log'[Len(log) + 1] = e
      BY <2>1, WrittenLog
    <3>3. QED
      BY <3>1, <3>2, EmptySeq
  <2>2. ASSUME NEW w \in Writers, ReplaceLog(w)
        PROVE  log' # <<>> /\ IsChained(log'[Len(log')])
    <3>1. log' = Kept(log, tail) /\ Len(log) > Keeps(tail) /\ log \in Seq(Entry)
      BY <2>2 DEF ReplaceLog, WriterInv, TypeOK
    <3>2. /\ Excess(log, tail) + Keeps(tail) = Len(log)
          /\ Len(log') = Keeps(tail)
          /\ \A i \in 1 .. Keeps(tail) : log'[i] = log[Excess(log, tail) + i]
          /\ Keeps(tail) \in Nat \ {0}
      BY <3>1, KeptProperties, KeepsType
    <3>3. log'[Len(log')] = log[Len(log)] /\ log' # <<>>
      BY <3>2, EmptySeq
    <3>4. QED
      BY <2>2, <3>3 DEF ReplaceLog, HeadInv
  <2>3. CASE ~ \E w \in Writers : Writes(w) \/ ReplaceLog(w)
    <3>1. log' = log
      BY <2>3, LogUnchanged
    <3>2. pc[v] \in {"count", "replace", "checkpoint"}
      BY <1>0, <1>2, <2>3 DEF Next, WriterNext, vars, Expire, Acquire, AcquireLost,
         ReadPrevious, ReadFails, TearEntry, CountLines, WriteCheckpoint, Release,
         Crash, Goto, Writes
    <3>3. QED
      BY <3>1, <3>2 DEF HeadInv
  <2>4. QED
    BY <2>1, <2>2, <2>3
<1>3. QED
  BY <1>1, <1>2 DEF HeadInv

\* HashChainedLog implements ChainLedger: one history, extended at its end only.
THEOREM LedgerRefinement ==
    ASSUME ~MayLapse
    PROVE  Spec => ImplementsLedger
<1> DEFINE head == previous_hash(log, checkpoint)
<1>1. Init => head = <<>>
  <2> SUFFICES ASSUME Init
               PROVE  head = <<>>
    OBVIOUS
  <2>1. checkpoint.hash = NoHash
    BY DEF Init, NoCheckpoint
  <2>2. log # <<>> => log[Len(log)].hash = NoHash
    <3>1. IInv
      BY InitialInvariant
    <3>2. Len(log) \in Nat /\ (log # <<>> => Len(log) \in 1 .. Len(log))
      BY <3>1, LenProperties, EmptySeq DEF IInv, TypeOK
    <3>3. legacy \in Nat /\ log = [i \in 1 .. legacy |-> LegacyEntry(0)]
      BY LogAssumption DEF Init
    <3>4. Len(log) = legacy
      BY <3>1, <3>3, LenProperties DEF IInv, TypeOK
    <3>5. QED
      BY <3>2, <3>3, <3>4 DEF LegacyEntry
  <2>3. QED
    BY <2>1, <2>2 DEF previous_hash, Anchor, GENESIS_HASH
<1>2. Init => Ledger!Init /\ HeadInv
  <2> SUFFICES ASSUME Init
               PROVE  Ledger!Init /\ HeadInv
    OBVIOUS
  <2>1. \A w \in Writers : pc[w] = "idle"
    BY DEF Init
  <2>2. Len(head) = 0
    BY <1>1, EmptySeq
  <2>3. QED
    BY <1>1, <2>1, <2>2 DEF Ledger!Init, HeadInv
<1>3. IInv /\ HeadInv /\ [Next]_vars => HeadInv'
  BY HeadInvStep
<1>4. IInv /\ HeadInv /\ [Next]_vars => [Ledger!Next]_head
  <2> SUFFICES ASSUME IInv, HeadInv, [Next]_vars, head' # head
               PROVE  Ledger!Next
    OBVIOUS
  <2>1. nextId \in 1 .. MaxAppends /\ head' = Append(head, nextId)
    BY HeadStep
  <2>2. Ledger!Record(nextId)
    BY <2>1 DEF Ledger!Record, HeadInv
  <2>3. QED
    BY <2>1, <2>2 DEF Ledger!Next
<1>5. QED
  BY <1>2, <1>3, <1>4, InductiveInvariant, PTL
     DEF Spec, ImplementsLedger, Ledger!Spec

-----------------------------------------------------------------------------
(* Nothing is lost uncounted *)

LEMMA OnlyWriterInside ==
    ASSUME LockInv, NEW w \in Writers, pc[w] # "idle"
    PROVE  inside = {w} /\ \A v \in Writers : v # w => pc[v] = "idle"
BY DEF LockInv

LEMMA AccountStep ==
    ASSUME ~MayLapse, IInv, TrimsAccountedFor, [Next]_vars
    PROVE  TrimsAccountedFor'
<1> USE DEF IInv
<1>0. /\ pc \in [Writers -> Steps]
      /\ Len(log) \in Nat
      /\ checkpoint.count \in Nat
      /\ unrecorded \in Nat /\ legacy \in Nat /\ nextId \in Nat
      /\ Keeps(tail) \in Nat
  BY LenProperties, KeepsType, LogAssumption DEF TypeOK, Checkpoint
<1> DEFINE Total == Len(log) + checkpoint.count + unrecorded
\* The statement for a single writer, or for none.
<1>1. ASSUME NEW w \in Writers, pc[w] # "idle"
      PROVE  Total + InFlight(w) = legacy + nextId - 1
  BY <1>1, OnlyWriterInside DEF TrimsAccountedFor
<1>2. ASSUME NEW w \in Writers, pc[w] # "idle", inside' \subseteq {w},
             Total' + InFlight(w)' = legacy' + nextId' - 1,
             \A v \in Writers : v # w => pc'[v] = "idle",
             inside' = {} => pc'[w] = "idle"
      PROVE  TrimsAccountedFor'
  <2> SUFFICES ASSUME NEW v \in Writers, inside' \subseteq {v}
               PROVE  Total' + InFlight(v)' = legacy' + nextId' - 1
    BY DEF TrimsAccountedFor
  <2>1. CASE v = w
    BY <1>2, <2>1
  <2>2. CASE v # w
    <3>1. inside' = {}
      BY <1>2, <2>2
    <3>2. InFlight(v)' = InFlight(w)'
      BY <1>2, <2>2, <3>1 DEF InFlight
    <3>3. QED
      BY <1>2, <3>2
  <2>3. QED
    BY <2>1, <2>2
<1>3. ASSUME NEW w \in Writers, Writes(w)
      PROVE  TrimsAccountedFor'
  <2>1. Len(log') = Len(log) + 1
    BY <1>3, WrittenLog
  <2>2. /\ pc[w] = "append"
        /\ \/ pc' = [pc EXCEPT ![w] = "count"] /\ inside' = inside
           \/ pc' = [pc EXCEPT ![w] = "idle"] /\ inside' \subseteq inside
        /\ UNCHANGED <<checkpoint, unrecorded, legacy>>
        /\ nextId' = nextId + 1
    <3>1. \/ pc' = [pc EXCEPT ![w] = "count"] /\ inside' = inside
          \/ pc' = [pc EXCEPT ![w] = "idle"] /\ inside' \subseteq inside
      BY <1>3 DEF Writes, AppendEntry, TearNewline, Goto, mutexVars, Mutex!Leave
    <3>2. /\ pc[w] = "append" /\ nextId' = nextId + 1
          /\ UNCHANGED <<checkpoint, unrecorded, legacy>>
      BY <1>3, WritesEntry
    <3>3. QED
      BY <3>1, <3>2
  <2>3. Total' + InFlight(w)' = legacy' + nextId' - 1
    <3>1. InFlight(w) = 0 /\ InFlight(w)' = 0
      BY <1>0, <2>2 DEF InFlight
    <3>2. Total + InFlight(w) = legacy + nextId - 1
      BY <1>1, <2>2
    <3>3. Total' = Len(log) + 1 + checkpoint.count + unrecorded
      BY <2>1, <2>2
    <3>4. /\ Len(log) \in Nat /\ checkpoint.count \in Nat /\ unrecorded \in Nat
          /\ legacy \in Nat /\ nextId \in Nat
      BY <1>0
    <3>5. Total = legacy + nextId - 1
      BY <3>1, <3>2, <3>4
    <3>6. Total' = legacy + nextId
      BY <3>3, <3>4, <3>5
    <3>7. legacy' = legacy /\ nextId' = nextId + 1
      BY <2>2
    <3>8. QED
      BY <3>1, <3>4, <3>6, <3>7
  <2>4. inside = {w} /\ \A v \in Writers : v # w => pc[v] = "idle"
    BY <2>2, OnlyWriterInside
  <2>5. QED
    BY <1>0, <1>2, <2>2, <2>3, <2>4
<1>4. ASSUME NEW w \in Writers, ReplaceLog(w)
      PROVE  TrimsAccountedFor'
  <2>1. /\ pc[w] = "replace"
        /\ pc' = [pc EXCEPT ![w] = "checkpoint"]
        /\ UNCHANGED <<checkpoint, unrecorded, legacy, inside, nextId, lines, tail>>
        /\ log' = Kept(log, tail)
        /\ lines[w] = log
        /\ Len(log) > Keeps(tail)
    BY <1>4 DEF ReplaceLog, WriterInv, Goto, ghostVars, mutexVars
  <2>2. Len(log') = Keeps(tail) /\ Excess(log, tail) + Keeps(tail) = Len(log) /\ Excess(log, tail) \in Nat
    BY <2>1, KeptProperties DEF TypeOK
  <2>3. InFlight(w) = 0 /\ InFlight(w)' = Excess(log, tail)
    BY <1>0, <2>1 DEF InFlight
  <2>4. Total' + InFlight(w)' = legacy' + nextId' - 1
    <3>1. Total + InFlight(w) = legacy + nextId - 1
      BY <1>1, <2>1
    <3>2. Total' = Keeps(tail) + checkpoint.count + unrecorded
      BY <2>1, <2>2
    <3>3. QED
      BY <1>0, <2>1, <2>2, <2>3, <3>1, <3>2
  <2>5. inside = {w} /\ \A v \in Writers : v # w => pc[v] = "idle"
    BY <2>1, OnlyWriterInside
  <2>6. QED
    BY <1>0, <1>2, <2>1, <2>4, <2>5
<1>5. ASSUME NEW w \in Writers, WriteCheckpoint(w)
      PROVE  TrimsAccountedFor'
  <2>1. /\ pc[w] = "checkpoint"
        /\ pc' = [pc EXCEPT ![w] = "release"]
        /\ UNCHANGED <<log, unrecorded, legacy, inside, nextId, lines>>
        /\ checkpoint'.count = checkpoint.count + Excess(lines[w], tail)
    BY <1>5 DEF WriteCheckpoint, Goto, mutexVars
  <2>2. Excess(lines[w], tail) \in Nat
    BY <2>1, KeptProperties DEF TypeOK, WriterInv
  <2>3. InFlight(w) = Excess(lines[w], tail) /\ InFlight(w)' = 0
    BY <1>0, <2>1 DEF InFlight
  <2>4. Total' + InFlight(w)' = legacy' + nextId' - 1
    BY <1>0, <1>1, <2>1, <2>2, <2>3
  <2>5. inside = {w} /\ \A v \in Writers : v # w => pc[v] = "idle"
    BY <2>1, OnlyWriterInside
  <2>6. QED
    BY <1>0, <1>2, <2>1, <2>4, <2>5
<1>6. ASSUME NEW w \in Writers, Crash(w), pc[w] = "checkpoint"
      PROVE  TrimsAccountedFor'
  <2>1. /\ pc' = [pc EXCEPT ![w] = "idle"]
        /\ UNCHANGED <<log, checkpoint, legacy, nextId, lines>>
        /\ unrecorded' = unrecorded + Excess(lines[w], tail)
        /\ inside' \subseteq inside
    BY <1>6 DEF Crash, Goto, fileVars, Mutex!Leave
  <2>2. Excess(lines[w], tail) \in Nat
    BY <1>6, KeptProperties DEF TypeOK, WriterInv
  <2>3. InFlight(w) = Excess(lines[w], tail) /\ InFlight(w)' = 0
    BY <1>0, <1>6, <2>1 DEF InFlight
  <2>4. Total' + InFlight(w)' = legacy' + nextId' - 1
    BY <1>0, <1>1, <1>6, <2>1, <2>2, <2>3
  <2>5. inside = {w} /\ \A v \in Writers : v # w => pc[v] = "idle"
    BY <1>6, OnlyWriterInside
  <2>6. QED
    BY <1>0, <1>2, <1>6, <2>1, <2>4, <2>5
<1>7. ASSUME NEW w \in Writers,
             \/ ReadPrevious(w) \/ ReadFails(w) \/ TearEntry(w) \/ CountLines(w)
             \/ Release(w)
             \/ Crash(w) /\ pc[w] # "checkpoint"
      PROVE  TrimsAccountedFor'
  <2>1. /\ pc[w] # "idle" /\ pc[w] # "checkpoint"
        /\ UNCHANGED <<log, checkpoint, unrecorded, legacy, nextId>>
        /\ inside' \subseteq inside
    BY <1>7 DEF ReadPrevious, ReadFails, TearEntry, CountLines, Release, Crash,
       mutexVars, fileVars, ghostVars, Mutex!Leave
  <2>2. \/ pc' = [pc EXCEPT ![w] = "idle"]
        \/ pc' = [pc EXCEPT ![w] = "append"] /\ inside' = inside
        \/ pc' = [pc EXCEPT ![w] = "release"] /\ inside' = inside
        \/ pc' = [pc EXCEPT ![w] = "replace"] /\ inside' = inside
    BY <1>7 DEF ReadPrevious, ReadFails, TearEntry, CountLines, Release, Crash,
       Goto, mutexVars
  <2>3. InFlight(w) = 0 /\ InFlight(w)' = 0
    BY <1>0, <2>1, <2>2 DEF InFlight
  <2>4. Total' + InFlight(w)' = legacy' + nextId' - 1
    BY <1>1, <2>1, <2>3
  <2>5. inside = {w} /\ \A v \in Writers : v # w => pc[v] = "idle"
    BY <2>1, OnlyWriterInside
  <2>6. QED
    BY <1>0, <1>2, <2>1, <2>2, <2>4, <2>5
\* Entering: nobody was inside, and nothing was in flight.
<1>8. ASSUME NEW w \in Writers, Acquire(w)
      PROVE  TrimsAccountedFor'
  <2>1. /\ inside = {} /\ inside' = {w}
        /\ pc[w] = "idle"
        /\ pc' = [pc EXCEPT ![w] = "read"]
        /\ UNCHANGED <<log, checkpoint, unrecorded, legacy, nextId>>
    BY <1>8, LogAssumption
       DEF Acquire, Mutex!Enter, LockInv, TypeOK, Mutex!TypeOK, Goto, fileVars, ghostVars
  <2>2. InFlight(w) = 0 /\ InFlight(w)' = 0
    BY <1>0, <2>1 DEF InFlight
  <2>3. Total' + InFlight(w)' = legacy' + nextId' - 1
    BY <2>1, <2>2 DEF TrimsAccountedFor
  <2>4. QED
    BY <2>1, <2>3 DEF TrimsAccountedFor
<1>9. CASE (\E w \in Writers : AcquireLost(w)) \/ Expire \/ UNCHANGED vars
  <2>1. /\ UNCHANGED <<log, checkpoint, unrecorded, legacy, nextId, inside, pc, lines>>
        /\ tail' = tail
    BY <1>9 DEF AcquireLost, Expire, Mutex!Orphan, Mutex!Lapse, vars, mutexVars,
       fileVars, ghostVars
  <2>2. SUFFICES ASSUME NEW v \in Writers, inside' \subseteq {v}
                 PROVE  Total' + InFlight(v)' = legacy' + nextId' - 1
    BY DEF TrimsAccountedFor
  <2>3. InFlight(v)' = InFlight(v)
    BY <2>1 DEF InFlight
  <2>4. Total' = Total
    BY <2>1
  <2>5. Total + InFlight(v) = legacy + nextId - 1
    BY <2>1, <2>2 DEF TrimsAccountedFor
  <2>6. QED
    BY <2>1, <2>3, <2>4, <2>5
<1>10. QED
  <2>1. CASE Expire \/ UNCHANGED vars
    BY <1>9, <2>1
  <2>2. CASE \E w \in Writers : WriterNext(w)
    <3>1. PICK w \in Writers : WriterNext(w)
      BY <2>2
    <3>2. QED
      <4>1. CASE Crash(w)
        BY <1>6, <1>7, <4>1
      <4>2. CASE Writes(w) \/ ReplaceLog(w) \/ WriteCheckpoint(w)
        BY <1>3, <1>4, <1>5, <4>2
      <4>3. CASE \/ ReadPrevious(w) \/ ReadFails(w) \/ TearEntry(w)
                 \/ CountLines(w) \/ Release(w)
        BY <1>7, <4>3
      <4>4. CASE Acquire(w)
        BY <1>8, <4>4
      <4>5. CASE AcquireLost(w)
        BY <1>9, <4>5
      <4>6. QED
        BY <3>1, <4>1, <4>2, <4>3, <4>4, <4>5 DEF WriterNext, Writes
  <2>3. QED
    BY <2>1, <2>2 DEF Next

\* Every entry ever written is on disk, counted by the checkpoint, or was cut
\* off by a trim that a crash interrupted.
THEOREM TrimsCounted ==
    ASSUME ~MayLapse
    PROVE  Spec => []TrimsAccountedFor
<1>1. Init => TrimsAccountedFor
  <2> SUFFICES ASSUME Init, NEW w \in Writers
               PROVE  Len(log) + checkpoint.count + unrecorded + InFlight(w)
                         = legacy + nextId - 1
    BY DEF TrimsAccountedFor
  <2>1. legacy \in Nat /\ log = [i \in 1 .. legacy |-> LegacyEntry(0)]
    BY LogAssumption DEF Init
  <2>2. Len(log) = legacy
    <3>1. log \in Seq(Entry)
      BY InitialInvariant DEF IInv, TypeOK
    <3>2. QED
      BY <2>1, <3>1, LenProperties
  <2>3. checkpoint.count = 0 /\ unrecorded = 0 /\ InFlight(w) = 0 /\ nextId = 1
    BY DEF Init, NoCheckpoint, InFlight
  <2>4. QED
    BY <2>1, <2>2, <2>3
<1>2. IInv /\ TrimsAccountedFor /\ [Next]_vars => TrimsAccountedFor'
  BY AccountStep
<1>3. QED
  BY <1>1, <1>2, InductiveInvariant, PTL DEF Spec

-----------------------------------------------------------------------------
(* The verifier *)

\* A verifier that has not overlapped a trim has lines which still verify.
ReadInv ==
    vpc = "checkpoint" /\ ~overlapped =>
        /\ ~Trimming
        /\ ~interrupted
        /\ Verifies(vlines, checkpoint.hash)

AlarmInv == verdict = "broken" => overlapped

\* Outside of trims, the checkpoint stays, and no crash cuts one short.
LEMMA CheckpointKept ==
    ASSUME [Next]_vars, ~Trimming, ~interrupted
    PROVE  ~interrupted' /\ checkpoint' = checkpoint
<1>1. \A w \in Writers : ~WriteCheckpoint(w) /\ pc[w] # "checkpoint"
  BY DEF Trimming, WriteCheckpoint
<1>2. CASE UNCHANGED vars \/ Expire
  BY <1>2 DEF vars, fileVars, ghostVars, Expire
<1>3. ASSUME NEW w \in Writers, WriterNext(w)
      PROVE  ~interrupted' /\ checkpoint' = checkpoint
  BY <1>1, <1>3, WritesEntry DEF WriterNext, Writes, Acquire, AcquireLost, ReadPrevious,
     ReadFails, TearEntry, CountLines, ReplaceLog, Release, Crash, fileVars, ghostVars
<1>4. QED
  BY <1>2, <1>3 DEF Next

LEMMA ReadStep ==
    ASSUME IInv, ReadInv, AlarmInv, [VNext]_allVars
    PROVE  ReadInv' /\ AlarmInv'
<1>1. CASE UNCHANGED allVars
  BY <1>1 DEF allVars, vars, verifierVars, fileVars, ghostVars, ReadInv, AlarmInv, Trimming
<1>2. CASE VerifyReadLog
  <2>1. UNCHANGED <<pc, interrupted, checkpoint, log>> /\ verdict' # "broken"
    BY <1>2 DEF VerifyReadLog, vars, fileVars, ghostVars
  <2>2. CASE vpc' = "checkpoint" /\ ~overlapped'
    <3>1. vlines' = log /\ ~Trimming /\ ~interrupted
      BY <1>2, <2>2 DEF VerifyReadLog
    <3>2. Verifies(log, checkpoint.hash)
      BY <3>1, SettledVerifies DEF VerifiesWhenSettled
    <3>3. QED
      BY <2>1, <3>1, <3>2 DEF ReadInv, AlarmInv, Trimming
  <2>3. CASE ~(vpc' = "checkpoint" /\ ~overlapped')
    BY <2>1, <2>3 DEF ReadInv, AlarmInv
  <2>4. QED
    BY <2>2, <2>3
<1>3. CASE VerifyReadCheckpoint
  <2>1. /\ vpc = "checkpoint" /\ vpc' = "idle" /\ overlapped' = overlapped
        /\ verdict' = IF Verifies(vlines, checkpoint.hash) THEN "valid" ELSE "broken"
    BY <1>3 DEF VerifyReadCheckpoint
  <2>2. ~overlapped => verdict' = "valid"
    BY <2>1 DEF ReadInv
  <2>3. QED
    BY <2>1, <2>2 DEF ReadInv, AlarmInv
<1>4. CASE LogStep
  <2>1. /\ Next /\ vpc' = vpc /\ vlines' = vlines /\ verdict' = verdict
        /\ overlapped' = (overlapped \/ (vpc = "checkpoint" /\ Trimming'))
    BY <1>4, Zenon DEF LogStep
  <2>2. AlarmInv'
    BY <2>1 DEF AlarmInv
  <2>3. ASSUME vpc' = "checkpoint", ~overlapped'
        PROVE  ~Trimming' /\ ~interrupted' /\ Verifies(vlines', checkpoint'.hash)
    <3>1. vpc = "checkpoint" /\ ~overlapped /\ ~Trimming'
      BY <2>1, <2>3, Zenon
    <3>2. ~interrupted' /\ checkpoint' = checkpoint /\ Verifies(vlines, checkpoint.hash)
      BY <2>1, <3>1, CheckpointKept DEF ReadInv
    <3>3. QED
      BY <2>1, <3>1, <3>2
  <2>4. ReadInv'
    BY <2>3, Zenon DEF ReadInv
  <2>5. QED
    BY <2>2, <2>4
<1>5. QED
  BY <1>1, <1>2, <1>3, <1>4 DEF VNext

\* A verification of an untampered log (verify_log_file, which takes no lock)
\* answers "broken" only when a trim was unfinished while it read the two files:
\* appends of other replicas never cause a false alarm.
THEOREM NoFalseAlarm ==
    ASSUME ~MayLapse
    PROVE  VSpec => []AlarmMeansTrim
<1>1. VInit => Init /\ ReadInv /\ AlarmInv
  BY DEF VInit, ReadInv, AlarmInv
<1>2. [VNext]_allVars => [Next]_vars
  BY DEF VNext, VerifyReadLog, VerifyReadCheckpoint, LogStep, allVars
<1>3. VSpec => Spec
  BY <1>1, <1>2, PTL DEF VSpec, Spec
<1>4. IInv /\ ReadInv /\ AlarmInv /\ [VNext]_allVars => ReadInv' /\ AlarmInv'
  BY ReadStep
<1>5. AlarmInv => AlarmMeansTrim
  BY DEF AlarmInv, AlarmMeansTrim
<1>6. QED
  BY <1>1, <1>3, <1>4, <1>5, InductiveInvariant, PTL DEF VSpec

-----------------------------------------------------------------------------
(* The loop of verify_chain *)

\* The entries behind `next' verify, and expected_prev and started are what they
\* stand for.
Entries == input.entries
Anchored == input.checkpoint_hash

LoopInv ==
    /\ \A i \in 1 .. next - 1 : EntryVerifies(Entries, Anchored, i)
    /\ expected_prev = ExpectedPrev(Entries, Anchored, next)
    /\ started <=> Started(Entries, Anchored, next)

ResultInv ==
    /\ result = "broken" =>
          next <= Len(Entries) /\ ~EntryVerifies(Entries, Anchored, next)
    /\ result = "valid" => next = Len(Entries) + 1

CountInv ==
    /\ verified + legacy_count = next - 1
    /\ \A i \in 1 .. next - 1 : IsChained(Entries[i]) <=> i > legacy_count
    /\ legacy_count < next - 1 => started

LoopIInv == LoopTypeOK /\ LoopInv /\ ResultInv /\ CountInv

-----------------------------------------------------------------------------
LEMMA InputTypes ==
    ASSUME LoopTypeOK
    PROVE  /\ Entries \in Seq(Entry)
           /\ Len(Entries) \in Nat
           /\ \A i \in 1 .. Len(Entries) : Entries[i] \in Entry
           /\ Anchored \in Hash \cup {NoHash}
           /\ next \in Nat \ {0}
BY VerifyAssumption DEF LoopTypeOK, Entries, Anchored

LEMMA AnchorType ==
    ASSUME NEW h \in Hash \cup {NoHash}
    PROVE  Anchor(h) \in Hash
<1>1. GENESIS_HASH \in Hash
  BY DEF GENESIS_HASH, Hash
<1>2. QED
  BY <1>1 DEF Anchor

LEMMA LoopInitial ==
    ASSUME LoopInit
    PROVE  LoopIInv
<1>1. /\ input \in Inputs /\ next = 1 /\ verified = 0 /\ legacy_count = 0
      /\ result = "running"
      /\ expected_prev = Anchor(Anchored)
      /\ started = (Anchored # NoHash)
  BY DEF LoopInit, Anchored
<1>2. Len(Entries) \in Nat /\ Anchored \in Hash \cup {NoHash}
  BY <1>1, VerifyAssumption DEF Entries, Anchored
<1>3. started \in BOOLEAN
  BY <1>1, Zenon
<1>4. LoopTypeOK
  BY <1>1, <1>2, <1>3, AnchorType DEF LoopTypeOK, Entries
<1>5. LoopInv
  <2>1. expected_prev = ExpectedPrev(Entries, Anchored, next)
    BY <1>1 DEF ExpectedPrev
  <2>2. started <=> Started(Entries, Anchored, next)
    <3>1. Started(Entries, Anchored, next) <=> Anchored # NoHash
      BY <1>1 DEF Started
    <3>2. QED
      BY <1>1, <3>1, Zenon
  <2>3. QED
    BY <1>1, <2>1, <2>2 DEF LoopInv
<1>6. ResultInv /\ CountInv
  BY <1>1 DEF ResultInv, CountInv
<1>7. QED
  BY <1>4, <1>5, <1>6 DEF LoopIInv

\* What the code looks at when it is at an entry decides EntryVerifies.
LEMMA AtEntryVerifies ==
    ASSUME LoopIInv, AtEntry
    PROVE  EntryVerifies(Entries, Anchored, next) <=>
              IF IsChained(Entries[next])
              THEN /\ Entries[next].prev = expected_prev
                   /\ Entries[next].hash = compute_hash(expected_prev, Entries[next].id)
              ELSE ~started
BY DEF LoopIInv, LoopInv, EntryVerifies

LEMMA Unchanged ==
    ASSUME LoopIInv, UNCHANGED loopVars
    PROVE  LoopIInv'
BY DEF loopVars, LoopIInv, LoopTypeOK, LoopInv, ResultInv, CountInv, Entries, Anchored,
       EntryVerifies, ExpectedPrev, Started

\* Moving on: the entry at `next' verifies, and the next one is looked at.
LEMMA Advance ==
    ASSUME LoopIInv, AtEntry,
           EntryVerifies(Entries, Anchored, next),
           next' = next + 1,
           UNCHANGED <<input, result>>,
           expected_prev' = ExpectedPrev(Entries, Anchored, next + 1),
           started' <=> Started(Entries, Anchored, next + 1)
    PROVE  LoopInv' /\ ResultInv'
<1>1. Entries' = Entries /\ Anchored' = Anchored /\ next \in Nat /\ result' = "running"
  BY InputTypes DEF Entries, Anchored, AtEntry, LoopIInv
<1>2. \A i \in 1 .. next' - 1 : EntryVerifies(Entries, Anchored, i)
  BY <1>1 DEF LoopIInv, LoopInv
<1>3. QED
  BY <1>1, <1>2 DEF LoopInv, ResultInv, EntryVerifies, ExpectedPrev, Started

\* What is expected after an entry, and whether the chain has started by then.
LEMMA AfterEntry ==
    ASSUME NEW l, NEW h, NEW i \in Nat \ {0}
    PROVE  /\ ExpectedPrev(l, h, i + 1) = IF IsChained(l[i]) THEN l[i].hash ELSE Anchor(h)
           /\ Started(l, h, i + 1) <=> (h # NoHash \/ IsChained(l[i]))
<1> DEFINE n == i + 1
<1>1. n > 1 /\ n - 1 = i
  OBVIOUS
<1> HIDE DEF n
<1>2. ExpectedPrev(l, h, n) = IF IsChained(l[i]) THEN l[i].hash ELSE Anchor(h)
  BY <1>1 DEF ExpectedPrev
<1>3. Started(l, h, n) <=> (h # NoHash \/ IsChained(l[i]))
  BY <1>1 DEF Started
<1>4. QED
  BY <1>2, <1>3 DEF n

LEMMA CountLegacyStep ==
    ASSUME LoopIInv, CountLegacy
    PROVE  LoopIInv'
<1>1. /\ AtEntry
      /\ ~IsChained(Entries[next])
      /\ ~started
      /\ legacy_count' = legacy_count + 1
      /\ next' = next + 1
      /\ UNCHANGED <<input, expected_prev, started, verified, result>>
  BY DEF CountLegacy, Entries
<1>2. /\ next \in 1 .. Len(Entries) /\ Len(Entries) \in Nat
      /\ legacy_count \in Nat /\ verified \in Nat
  BY <1>1, InputTypes DEF AtEntry, LoopIInv, LoopTypeOK, Entries
<1>3. LoopTypeOK'
  BY <1>1, <1>2 DEF LoopIInv, LoopTypeOK, Entries
<1>4. ~Started(Entries, Anchored, next)
  BY <1>1 DEF LoopIInv, LoopInv
<1>5. /\ expected_prev = ExpectedPrev(Entries, Anchored, next + 1)
      /\ ~Started(Entries, Anchored, next + 1)
  <2>1. /\ Anchored = NoHash
        /\ ExpectedPrev(Entries, Anchored, next) = Anchor(Anchored)
    BY <1>4 DEF Started, ExpectedPrev
  <2>2. next \in Nat \ {0}
    BY <1>2
  <2>3. QED
    BY <1>1, <2>1, <2>2, AfterEntry DEF LoopIInv, LoopInv
<1>6. EntryVerifies(Entries, Anchored, next)
  BY <1>1, AtEntryVerifies
<1>7. LoopInv' /\ ResultInv'
  BY <1>1, <1>5, <1>6, Advance
<1>8. CountInv'
  <2>1. legacy_count = next - 1
    BY <1>1, <1>2 DEF LoopIInv, CountInv
  <2>2. \A i \in 1 .. next : ~IsChained(Entries[i])
    BY <1>1, <1>2, <2>1 DEF LoopIInv, CountInv
  <2>3. QED
    BY <1>1, <1>2, <2>1, <2>2 DEF CountInv, Entries, LoopIInv
<1>9. QED
  BY <1>3, <1>7, <1>8 DEF LoopIInv

LEMMA VerifyEntryStep ==
    ASSUME LoopIInv, VerifyEntry
    PROVE  LoopIInv'
<1>1. /\ AtEntry
      /\ IsChained(Entries[next])
      /\ Entries[next].prev = expected_prev
      /\ Entries[next].hash = compute_hash(expected_prev, Entries[next].id)
      /\ expected_prev' = Entries[next].hash
      /\ started' = TRUE
      /\ verified' = verified + 1
      /\ next' = next + 1
      /\ UNCHANGED <<input, legacy_count, result>>
  BY DEF VerifyEntry, Entries
<1>2. /\ next \in 1 .. Len(Entries) /\ Len(Entries) \in Nat
      /\ legacy_count \in Nat /\ verified \in Nat
      /\ Entries[next] \in Entry
  BY <1>1, InputTypes DEF AtEntry, LoopIInv, LoopTypeOK, Entries
<1>3. LoopTypeOK'
  <2>1. Entries[next].hash \in Hash
    BY <1>1, <1>2 DEF IsChained, Entry
  <2>2. QED
    BY <1>1, <1>2, <2>1 DEF LoopIInv, LoopTypeOK, Entries
<1>4. EntryVerifies(Entries, Anchored, next)
  BY <1>1, AtEntryVerifies
<1>5. /\ expected_prev' = ExpectedPrev(Entries, Anchored, next + 1)
      /\ Started(Entries, Anchored, next + 1)
  <2>1. next \in Nat \ {0}
    BY <1>2
  <2>2. QED
    BY <1>1, <2>1, AfterEntry
<1>6. LoopInv' /\ ResultInv'
  BY <1>1, <1>4, <1>5, Advance
<1>7. CountInv'
  <2>1. legacy_count <= next - 1
    BY <1>2 DEF LoopIInv, CountInv
  <2>2. \A i \in 1 .. next : IsChained(Entries[i]) <=> i > legacy_count
    BY <1>1, <1>2, <2>1 DEF LoopIInv, CountInv
  <2>3. QED
    BY <1>1, <1>2, <2>1, <2>2 DEF CountInv, Entries, LoopIInv
<1>8. QED
  BY <1>3, <1>6, <1>7 DEF LoopIInv

LEMMA AnswerStep ==
    ASSUME LoopIInv, LegacyInsideChain \/ BrokenLink \/ Finish
    PROVE  LoopIInv'
<1>1. UNCHANGED <<input, next, expected_prev, started, verified, legacy_count>>
  BY DEF LegacyInsideChain, BrokenLink, Broken, Finish
<1>2. LoopInv' /\ CountInv'
  BY <1>1 DEF LoopIInv, LoopInv, CountInv, Entries, Anchored, EntryVerifies, ExpectedPrev,
     Started
<1>3. CASE LegacyInsideChain \/ BrokenLink
  <2>1. AtEntry /\ result' = "broken" /\ next <= Len(Entries)
    BY <1>3 DEF LegacyInsideChain, BrokenLink, Broken, AtEntry, Entries
  <2>2. ~EntryVerifies(Entries, Anchored, next)
    BY <1>3, <2>1, AtEntryVerifies DEF LegacyInsideChain, BrokenLink, Entries
  <2>3. ResultInv'
    BY <1>1, <2>1, <2>2 DEF ResultInv, Entries, Anchored, EntryVerifies, ExpectedPrev,
       Started
  <2>4. LoopTypeOK'
    BY <1>1, <2>1 DEF LoopIInv, LoopTypeOK
  <2>5. QED
    BY <1>2, <2>3, <2>4 DEF LoopIInv
<1>4. CASE Finish
  <2>1. result' = "valid" /\ next = Len(Entries) + 1
    BY <1>4, InputTypes DEF Finish, LoopIInv, LoopTypeOK, Entries
  <2>2. ResultInv'
    BY <1>1, <2>1 DEF ResultInv, Entries
  <2>3. LoopTypeOK'
    BY <1>1, <2>1 DEF LoopIInv, LoopTypeOK
  <2>4. QED
    BY <1>2, <2>2, <2>3 DEF LoopIInv
<1>5. QED
  BY <1>3, <1>4

-----------------------------------------------------------------------------
\* The loop invariant.
THEOREM LoopInvariant == LoopSpec => []LoopIInv
<1>1. LoopInit => LoopIInv
  BY LoopInitial
<1>2. LoopIInv /\ [LoopNext]_loopVars => LoopIInv'
  BY CountLegacyStep, VerifyEntryStep, AnswerStep, Unchanged DEF LoopNext
<1>3. QED
  BY <1>1, <1>2, PTL DEF LoopSpec

\* verify_chain answers "valid" for the logs that verify, and only for those.
THEOREM AnswerCorrect == LoopSpec => []AnswerIsVerifies
<1>1. LoopIInv => AnswerIsVerifies
  <2> SUFFICES ASSUME LoopIInv
               PROVE  AnswerIsVerifies
    OBVIOUS
  <2>1. next \in Nat \ {0} /\ Len(Entries) \in Nat
    BY InputTypes DEF LoopIInv
  <2>2. result = "valid" => Verifies(Entries, Anchored)
    BY <2>1 DEF LoopIInv, ResultInv, LoopInv, Verifies
  <2>3. result = "broken" => ~Verifies(Entries, Anchored)
    BY <2>1 DEF LoopIInv, ResultInv, Verifies
  <2>4. QED
    BY <2>2, <2>3 DEF AnswerIsVerifies, Entries, Anchored
<1>2. QED
  BY <1>1, LoopInvariant, PTL

\* The counts it reports cover every line, the legacy ones first.
THEOREM CountsCorrect == LoopSpec => []CountsEveryLine
<1>1. LoopIInv => CountsEveryLine
  <2> SUFFICES ASSUME LoopIInv, result = "valid"
               PROVE  /\ verified + legacy_count = Len(Entries)
                      /\ \A i \in 1 .. Len(Entries) :
                            IsChained(Entries[i]) <=> i > legacy_count
    BY DEF CountsEveryLine, Entries
  <2>1. next = Len(Entries) + 1 /\ Len(Entries) \in Nat
    BY InputTypes DEF LoopIInv, ResultInv
  <2>2. QED
    BY <2>1 DEF LoopIInv, CountInv
<1>2. QED
  BY <1>1, LoopInvariant, PTL

-----------------------------------------------------------------------------
(* What verify_chain can detect *)

\* A set of numbers has a least element.
LEMMA Minimum ==
    ASSUME NEW T \in SUBSET Nat, T # {}
    PROVE  \E x \in T : \A y \in T : x <= y
<1> DEFINE R == OpToRel(<, Nat)
<1>1. IsWellFoundedOn(R, Nat)
  BY NatLessThanWellFounded
<1>2. R = {ss \in Nat \X Nat : ss[1] < ss[2]}
  BY DEF OpToRel
<1> HIDE DEF R
<1>3. \E x \in T : \A y \in T : ~ (<<y, x>> \in R)
  BY <1>1, WFMin
<1>4. \A x, y \in T : <<y, x>> \notin R => x <= y
  BY <1>2
<1> QED
  BY <1>3, <1>4

\* A set of numbers that has 0, and with each number the next, has all.
LEMMA Induction ==
    ASSUME NEW P, 0 \in P, \A n \in Nat : n \in P => n + 1 \in P
    PROVE  Nat \subseteq P
<1> SUFFICES ASSUME Nat \ P # {} PROVE FALSE
  OBVIOUS
<1>1. PICK x \in Nat \ P : \A y \in Nat \ P : x <= y
  BY Minimum
<1>2. x - 1 \in Nat
  BY <1>1
<1>3. x - 1 \in P
  BY <1>1, <1>2
<1> QED
  BY <1>1, <1>2, <1>3

\* Between a chained entry and the end of a valid log all entries are chained.
LEMMA ChainGoesOn ==
    ASSUME NEW e \in Seq(Entry), NEW h, Verifies(e, h),
           NEW i \in 1 .. Len(e), IsChained(e[i]), NEW j \in i .. Len(e)
    PROVE  IsChained(e[j])
<1> DEFINE P == {k \in Nat : i + k <= Len(e) => IsChained(e[i + k])}
<1>1. Len(e) \in Nat
  OBVIOUS
<1>2. 0 \in P
  OBVIOUS
<1>3. ASSUME NEW k \in Nat, k \in P
      PROVE  k + 1 \in P
  <2> SUFFICES ASSUME i + (k + 1) <= Len(e) PROVE IsChained(e[i + (k + 1)])
    OBVIOUS
  <2> DEFINE n == i + (k + 1)
  <2>1. n \in 1 .. Len(e) /\ n > 1 /\ n - 1 = i + k
    BY <1>1
  <2>2. IsChained(e[n - 1])
    BY <1>3, <2>1
  <2> HIDE DEF n
  <2>3. EntryVerifies(e, h, n)
    BY <2>1 DEF Verifies
  <2>4. IsChained(e[n])
    BY <2>1, <2>2, <2>3 DEF EntryVerifies, Started
  <2>5. QED
    BY <2>4 DEF n
<1>4. Nat \subseteq P
  <2> HIDE DEF P
  <2> QED
    BY <1>2, <1>3, Induction
<1>5. j - i \in Nat /\ i + (j - i) = j /\ j <= Len(e)
  BY <1>1
<1>6. QED
  BY <1>4, <1>5

\* The chained entries of a valid log are its last ones.
LEMMA ChainStarts ==
    ASSUME NEW e \in Seq(Entry), NEW h, Verifies(e, h)
    PROVE  \E n \in 0 .. Len(e) : ChainedBehind(e, n)
<1> DEFINE T == {i \in 1 .. Len(e) : IsChained(e[i])}
<1>1. Len(e) \in Nat
  OBVIOUS
<1>2. CASE T = {}
  <2>1. ChainedBehind(e, Len(e))
    BY <1>1, <1>2 DEF ChainedBehind
  <2>2. QED
    BY <1>1, <2>1
<1>3. CASE T # {}
  <2>1. T \in SUBSET Nat
    OBVIOUS
  <2>2. PICK i \in T : \A j \in T : i <= j
    BY <1>3, <2>1, Minimum
  <2>3. i \in 1 .. Len(e) /\ IsChained(e[i])
    OBVIOUS
  <2>4. \A j \in i .. Len(e) : IsChained(e[j])
    BY <2>3, ChainGoesOn
  <2>5. \A j \in 1 .. Len(e) : IsChained(e[j]) => i <= j
    BY <2>2
  <2>6. ChainedBehind(e, i - 1)
    <3>1. SUFFICES ASSUME NEW j \in 1 .. Len(e) PROVE IsChained(e[j]) <=> j > i - 1
      BY DEF ChainedBehind
    <3>2. IsChained(e[j]) => j > i - 1
      BY <2>3, <2>5
    <3>3. j > i - 1 => IsChained(e[j])
      BY <1>1, <2>3, <2>4
    <3>4. QED
      BY <3>2, <3>3
  <2>7. i - 1 \in 0 .. Len(e)
    BY <1>1, <2>3
  <2>8. QED
    BY <2>6, <2>7
<1>4. QED
  BY <1>2, <1>3

\* The k-th chained entry's hash covers k payloads more than the checkpoint.
LEMMA ChainGrows ==
    ASSUME NEW e \in Seq(Entry), NEW h \in Hash \cup {NoHash}, Verifies(e, h),
           NEW n \in 0 .. Len(e), ChainedBehind(e, n)
    PROVE  \A k \in 1 .. Len(e) - n :
              /\ IsChained(e[n + k])
              /\ e[n + k].hash \in Hash /\ e[n + k].prev \in Hash /\ e[n + k].id \in Nat
              /\ e[n + k].hash = Append(e[n + k].prev, e[n + k].id)
              /\ k > 1 => e[n + k].prev = e[n + k - 1].hash
              /\ Len(e[n + k].hash) = Len(Anchor(h)) + k
<1>1. Len(e) \in Nat /\ n \in Nat /\ n <= Len(e)
  OBVIOUS
<1>2. Anchor(h) \in Hash /\ Len(Anchor(h)) \in Nat
  BY AnchorType DEF Hash
<1>3. ASSUME NEW k \in 1 .. Len(e) - n
      PROVE  /\ IsChained(e[n + k])
             /\ e[n + k].hash \in Hash /\ e[n + k].prev \in Hash /\ e[n + k].id \in Nat
             /\ e[n + k].hash = Append(e[n + k].prev, e[n + k].id)
             /\ k = 1 => e[n + k].prev = Anchor(h)
             /\ k > 1 => e[n + k].prev = e[n + k - 1].hash
  <2> DEFINE i == n + k
  <2>1. i \in 1 .. Len(e) /\ i > n /\ (k = 1 => i - 1 = n) /\ (k > 1 => i > 1 /\ i - 1 > n)
    BY <1>1
  <2>2. n + k - 1 = i - 1
    BY <1>1
  <2> HIDE DEF i
  <2>3. IsChained(e[i]) /\ e[i] \in Entry
    BY <2>1 DEF ChainedBehind
  <2>4. e[i].hash \in Hash /\ e[i].prev \in Hash /\ e[i].id \in Nat
    BY <2>3 DEF IsChained, Entry
  <2>5. e[i].prev = ExpectedPrev(e, h, i) /\ e[i].hash = Append(e[i].prev, e[i].id)
    BY <2>1, <2>3 DEF Verifies, EntryVerifies, compute_hash
  <2>6. k = 1 => e[i].prev = Anchor(h)
    <3>1. ASSUME k = 1, i > 1
          PROVE  ~IsChained(e[i - 1])
      <4>1. i - 1 \in 1 .. Len(e) /\ i - 1 = n
        BY <1>1, <2>1, <3>1
      <4>2. QED
        BY <1>1, <4>1 DEF ChainedBehind
    <3>2. QED
      BY <2>5, <3>1 DEF ExpectedPrev
  <2>7. k > 1 => e[i].prev = e[i - 1].hash
    <3>1. ASSUME k > 1
          PROVE  IsChained(e[i - 1])
      <4>1. i - 1 \in 1 .. Len(e) /\ i - 1 > n
        BY <1>1, <2>1, <3>1
      <4>2. QED
        BY <4>1 DEF ChainedBehind
    <3>2. QED
      BY <2>1, <2>5, <3>1 DEF ExpectedPrev
  <2>8. QED
    BY <2>2, <2>3, <2>4, <2>5, <2>6, <2>7 DEF i
<1> DEFINE Grown(k) == Len(e[n + k].hash) = Len(Anchor(h)) + k
           P == {k \in Nat : k + 1 <= Len(e) - n => Grown(k + 1)}
<1>4. ASSUME NEW k \in 1 .. Len(e) - n
      PROVE  /\ k = 1 => Grown(k)
             /\ k > 1 /\ Grown(k - 1) => Grown(k)
  <2> DEFINE x == e[n + k]
  <2>1. Len(x.hash) = Len(x.prev) + 1
    <3>1. x.prev \in Seq(Nat) /\ x.id \in Nat /\ x.hash = Append(x.prev, x.id)
      BY <1>3 DEF Hash
    <3>2. QED
      BY <3>1, AppendProperties
  <2>2. k = 1 => x.prev = Anchor(h)
    BY <1>3
  <2>3. k > 1 => x.prev = e[n + (k - 1)].hash
    <3>1. n + (k - 1) = n + k - 1
      BY <1>1
    <3>2. QED
      BY <1>3, <3>1
  <2> HIDE DEF x
  <2>4. k = 1 => Len(x.hash) = Len(Anchor(h)) + k
    BY <1>2, <2>1, <2>2
  <2>5. k > 1 /\ Grown(k - 1) => Len(x.hash) = Len(Anchor(h)) + k
    <3>1. SUFFICES ASSUME k > 1, Grown(k - 1) PROVE Len(x.hash) = Len(Anchor(h)) + k
      OBVIOUS
    <3>2. Len(x.prev) = Len(Anchor(h)) + (k - 1)
      BY <2>3, <3>1
    <3>3. QED
      BY <1>2, <2>1, <3>2
  <2>6. QED
    BY <2>4, <2>5 DEF x
<1>5. 0 \in P
  <2>1. 0 + 1 = 1
    OBVIOUS
  <2>2. 1 <= Len(e) - n => 1 \in 1 .. Len(e) - n
    BY <1>1
  <2> HIDE DEF Grown
  <2>3. 1 <= Len(e) - n => Grown(1)
    BY <1>4, <2>2
  <2>4. QED
    BY <2>1, <2>3
<1>6. ASSUME NEW k \in Nat, k \in P
      PROVE  k + 1 \in P
  <2> HIDE DEF Grown
  <2> SUFFICES ASSUME (k + 1) + 1 <= Len(e) - n PROVE Grown((k + 1) + 1)
    OBVIOUS
  <2> DEFINE m == (k + 1) + 1
  <2>1. m \in 1 .. Len(e) - n /\ m > 1 /\ m - 1 = k + 1
    BY <1>1
  <2>2. Grown(k + 1)
    BY <1>1, <1>6
  <2> HIDE DEF m
  <2>3. Grown(m)
    BY <1>4, <2>1, <2>2
  <2>4. QED
    BY <2>3 DEF m
<1>7. Nat \subseteq P
  <2> HIDE DEF P
  <2> QED
    BY <1>5, <1>6, Induction
<1>8. ASSUME NEW k \in 1 .. Len(e) - n
      PROVE  Grown(k)
  <2> HIDE DEF Grown
  <2>1. k - 1 \in Nat /\ (k - 1) + 1 = k /\ k <= Len(e) - n
    BY <1>1
  <2>2. QED
    BY <1>7, <2>1
<1>9. QED
  BY <1>3, <1>8

\* A log that was only ever written to by the code, and trimmed, verifies: the
\* hash previous_hash found is the one verify_chain expects.
LEMMA WrittenVerifies ==
    ASSUME NEW e \in Seq(Entry), NEW h \in Hash \cup {NoHash}, AsWritten(e, h)
    PROVE  Verifies(e, h)
<1> SUFFICES ASSUME NEW i \in 1 .. Len(e) PROVE EntryVerifies(e, h, i)
  BY DEF Verifies
<1> DEFINE before == SubSeq(e, 1, i - 1)
           sidecar == [hash |-> h, count |-> 0]
<1>1. Len(e) \in Nat
  OBVIOUS
<1>2. /\ Len(before) = i - 1
      /\ i > 1 => before[Len(before)] = e[i - 1] /\ before # <<>>
      /\ i = 1 => before = <<>>
  <2>1. i - 1 \in Nat /\ i - 1 <= Len(e) /\ i - 1 \in Int
    BY <1>1
  <2>2. Len(before) = i - 1 /\ \A k \in 1 .. i - 1 : before[k] = e[k]
    BY <2>1
  <2>3. i = 1 => before = <<>>
    BY <2>1, <2>2
  <2>4. i > 1 => i - 1 \in 1 .. i - 1 /\ i - 1 # 0
    BY <2>1
  <2> HIDE DEF before
  <2>5. before = <<>> => Len(before) = 0
    OBVIOUS
  <2>6. QED
    BY <2>2, <2>3, <2>4, <2>5
<1> HIDE DEF before
<1>3. sidecar.hash = h
  OBVIOUS
<1>4. IsChained(e[i]) => e[i] = NewEntry(previous_hash(before, sidecar), e[i].id)
  BY DEF AsWritten, before
<1> HIDE DEF sidecar
<1>5. CASE ~IsChained(e[i])
  <2>1. h = NoHash /\ \A j \in 1 .. i - 1 : ~IsChained(e[j])
    BY <1>5 DEF AsWritten
  <2>2. i > 1 => i - 1 \in 1 .. i - 1
    BY <1>1
  <2>3. ~Started(e, h, i)
    BY <2>1, <2>2 DEF Started
  <2>4. QED
    BY <1>5, <2>3 DEF EntryVerifies
<1>6. CASE IsChained(e[i])
  <2> DEFINE p == previous_hash(before, sidecar)
  <2>1. p = ExpectedPrev(e, h, i)
    <3>1. CASE i = 1
      BY <1>2, <1>3, <3>1 DEF previous_hash, ExpectedPrev
    <3>2. CASE i > 1
      <4>1. i - 1 \in 1 .. Len(e)
        BY <1>1, <3>2
      <4>2. ~IsChained(e[i - 1]) => e[i - 1].hash = NoHash
        <5> DEFINE a == e[i - 1].id
        <5>1. ~IsChained(e[i - 1]) => e[i - 1] = LegacyEntry(a)
          BY <4>1 DEF AsWritten
        <5> HIDE DEF a
        <5>2. LegacyEntry(a).hash = NoHash
          BY DEF LegacyEntry
        <5>3. QED
          BY <5>1, <5>2
      <4>3. IsChained(e[i - 1]) => e[i - 1].hash # NoHash
        BY DEF IsChained
      <4>4. p = IF e[i - 1].hash # NoHash THEN e[i - 1].hash ELSE Anchor(h)
        BY <1>2, <1>3, <3>2 DEF previous_hash
      <4>5. QED
        BY <3>2, <4>2, <4>3, <4>4 DEF ExpectedPrev
    <3>3. QED
      BY <1>1, <3>1, <3>2
  <2> HIDE DEF p
  <2>2. e[i].prev = p /\ e[i].hash = compute_hash(p, e[i].id)
    BY <1>4, <1>6 DEF NewEntry, p
  <2>3. QED
    BY <1>6, <2>1, <2>2 DEF EntryVerifies
<1>7. QED
  BY <1>5, <1>6

\* A hash stands for what it covers.
LEMMA SameHashSameEntry ==
    ASSUME NEW x \in Entry, NEW y \in Entry, x.hash = y.hash,
           x.hash = Append(x.prev, x.id), x.prev \in Hash, x.id \in Nat,
           y.hash = Append(y.prev, y.id), y.prev \in Hash, y.id \in Nat
    PROVE  x = y
<1>1. x.prev = y.prev /\ x.id = y.id
  <2> DEFINE s == x.prev
             a == x.id
             t == y.prev
             b == y.id
  <2>1. s \in Seq(Nat) /\ t \in Seq(Nat) /\ a \in Nat /\ b \in Nat /\ Append(s, a) = Append(t, b)
    BY DEF Hash
  <2> HIDE DEF s, a, t, b
  <2>2. s = t /\ a = b
    BY <2>1, AppendInjective
  <2>3. QED
    BY <2>2 DEF s, a, t, b
<1>2. x = [id |-> x.id, prev |-> x.prev, hash |-> x.hash]
  BY DEF Entry
<1>3. y = [id |-> y.id, prev |-> y.prev, hash |-> y.hash]
  BY DEF Entry
<1>4. QED
  BY <1>1, <1>2, <1>3

\* Whoever changes a log and computes no hash anew can only have cut off its end,
\* or changed its legacy lines, if it still verifies.
THEOREM TamperEvident ==
    ASSUME NEW whole \in Seq(Entry), NEW part \in Seq(Entry), NEW h \in Hash \cup {NoHash},
           Verifies(whole, h), Verifies(part, h), Hashes(part) \subseteq Hashes(whole)
    PROVE  ChainBegins(part, whole)
<1>1. PICK m \in 0 .. Len(whole) : ChainedBehind(whole, m)
  BY ChainStarts
<1>2. PICK n \in 0 .. Len(part) : ChainedBehind(part, n)
  BY ChainStarts
<1> DEFINE Grows(e, c) ==
        \A k \in 1 .. Len(e) - c :
            /\ IsChained(e[c + k]) /\ e[c + k].hash = Append(e[c + k].prev, e[c + k].id)
            /\ e[c + k].prev \in Hash /\ e[c + k].id \in Nat
            /\ Len(e[c + k].hash) = Len(Anchor(h)) + k
<1>0. Grows(whole, m) /\ Grows(part, n)
  <2>1. Grows(whole, m)
    BY <1>1, ChainGrows
  <2>2. Grows(part, n)
    BY <1>2, ChainGrows
  <2>3. QED
    BY <2>1, <2>2
<1>3. Len(whole) \in Nat /\ Len(part) \in Nat /\ m \in Nat /\ n \in Nat
      /\ m <= Len(whole) /\ n <= Len(part)
  OBVIOUS
<1>4. Len(Anchor(h)) \in Nat
  BY AnchorType DEF Hash
<1>5. ASSUME NEW k \in 1 .. Len(part) - n
      PROVE  k \in 1 .. Len(whole) - m /\ part[n + k] = whole[m + k]
  <2> DEFINE i == n + k
             x == part[i]
  <2>1. i \in 1 .. Len(part)
    BY <1>3
  <2>2. /\ IsChained(x) /\ x.hash = Append(x.prev, x.id) /\ x.prev \in Hash /\ x.id \in Nat
        /\ Len(x.hash) = Len(Anchor(h)) + k
    BY <1>0
  <2>3. x.hash \in Hashes(part)
    BY <2>1, <2>2 DEF Hashes
  <2>4. x \in Entry
    BY <2>1
  <2> HIDE DEF x
  <2>5. PICK j \in 1 .. Len(whole) : IsChained(whole[j]) /\ whole[j].hash = x.hash
    <3>1. x.hash \in Hashes(whole)
      BY <2>3
    <3>2. DOMAIN whole = 1 .. Len(whole)
      OBVIOUS
    <3>3. QED
      BY <3>1, <3>2 DEF Hashes
  <2>6. j > m
    BY <1>1, <2>5 DEF ChainedBehind
  <2> DEFINE l == j - m
             y == whole[j]
  <2>7. l \in 1 .. Len(whole) - m /\ m + l = j
    BY <1>3, <2>6
  <2>8. y \in Entry
    OBVIOUS
  <2> HIDE DEF l
  <2>9. /\ y.hash = Append(y.prev, y.id) /\ y.prev \in Hash /\ y.id \in Nat
        /\ Len(y.hash) = Len(Anchor(h)) + l
    BY <1>0, <2>7
  <2>10. y.hash = x.hash
    BY <2>5
  <2> HIDE DEF y
  <2>11. l = k
    BY <1>4, <2>2, <2>7, <2>9, <2>10
  <2>12. x = y
    BY <2>2, <2>4, <2>8, <2>9, <2>10, SameHashSameEntry
  <2>13. QED
    BY <2>7, <2>11, <2>12 DEF x, y
<1>6. Len(part) - n <= Len(whole) - m
  <2>1. CASE Len(part) - n = 0
    BY <1>3, <2>1
  <2>2. CASE Len(part) - n # 0
    <3>1. Len(part) - n \in 1 .. Len(part) - n
      BY <1>3, <2>2
    <3> DEFINE d == Len(part) - n
    <3> HIDE DEF d
    <3>2. d \in 1 .. Len(whole) - m
      BY <1>5, <3>1 DEF d
    <3>3. QED
      BY <1>3, <3>2 DEF d
  <2>3. QED
    BY <2>1, <2>2
<1>7. QED
  BY <1>1, <1>2, <1>5, <1>6 DEF ChainBegins

\* What external anchoring would add (hash_chain.py): who knows the last hash of
\* a log knows all that is chained behind the checkpoint, even if everything was
\* computed anew.
THEOREM HeadPinsHistory ==
    ASSUME NEW one \in Seq(Entry), NEW two \in Seq(Entry), NEW h \in Hash \cup {NoHash},
           Verifies(one, h), Verifies(two, h), one # <<>>, two # <<>>,
           IsChained(one[Len(one)]), one[Len(one)].hash = two[Len(two)].hash,
           IsChained(two[Len(two)])
    PROVE  ChainBegins(one, two) /\ ChainBegins(two, one)
<1>1. PICK n \in 0 .. Len(one) : ChainedBehind(one, n)
  BY ChainStarts
<1>2. PICK m \in 0 .. Len(two) : ChainedBehind(two, m)
  BY ChainStarts
<1>3. /\ Len(one) \in Nat /\ Len(two) \in Nat /\ m \in Nat /\ n \in Nat
      /\ Len(one) > 0 /\ Len(two) > 0
  BY EmptySeq
<1>4. Len(Anchor(h)) \in Nat
  BY AnchorType DEF Hash
<1>5. n < Len(one) /\ m < Len(two)
  <2>1. Len(one) \in 1 .. Len(one) /\ Len(two) \in 1 .. Len(two)
    BY <1>3
  <2>2. QED
    BY <1>1, <1>2, <2>1 DEF ChainedBehind
<1> DEFINE N == Len(one) - n
<1>6. N \in Nat \ {0} /\ n + N = Len(one)
  BY <1>3, <1>5
<1>7. Len(two) - m = N
  <2> DEFINE M == Len(two) - m
  <2>1. M \in Nat \ {0} /\ m + M = Len(two)
    BY <1>3, <1>5
  <2>0. /\ \A k \in 1 .. Len(one) - n : Len(one[n + k].hash) = Len(Anchor(h)) + k
        /\ \A k \in 1 .. Len(two) - m : Len(two[m + k].hash) = Len(Anchor(h)) + k
    <3>1. \A k \in 1 .. Len(one) - n : Len(one[n + k].hash) = Len(Anchor(h)) + k
      BY <1>1, ChainGrows
    <3>2. \A k \in 1 .. Len(two) - m : Len(two[m + k].hash) = Len(Anchor(h)) + k
      BY <1>2, ChainGrows
    <3>3. QED
      BY <3>1, <3>2
  <2>2. Len(one[n + N].hash) = Len(Anchor(h)) + N
    <3> HIDE DEF N
    <3>1. N \in 1 .. N
      BY <1>6
    <3>2. N = Len(one) - n
      BY DEF N
    <3>3. N \in 1 .. Len(one) - n
      BY <3>1, <3>2
    <3>4. QED
      BY <2>0, <3>3
  <2>3. Len(two[m + M].hash) = Len(Anchor(h)) + M
    <3> HIDE DEF M
    <3>1. M \in 1 .. M
      BY <2>1
    <3>2. M = Len(two) - m
      BY DEF M
    <3>3. M \in 1 .. Len(two) - m
      BY <3>1, <3>2
    <3>4. QED
      BY <2>0, <3>3
  <2>4. Len(Anchor(h)) + N = Len(Anchor(h)) + M
    BY <1>6, <2>1, <2>2, <2>3, Zenon
  <2> HIDE DEF N, M
  <2>5. M = N
    BY <1>4, <1>6, <2>1, <2>4
  <2>6. QED
    BY <2>5 DEF M
<1>8. m + N = Len(two)
  BY <1>3, <1>7
<1> DEFINE x(k) == one[n + k]
           y(k) == two[m + k]
           Linked(z) == /\ z.hash = Append(z.prev, z.id) /\ z.prev \in Hash /\ z.id \in Nat
                        /\ z \in Entry
<1>9. \A k \in 1 .. N : /\ Linked(x(k)) /\ (k > 1 => x(k).prev = x(k - 1).hash)
                        /\ Linked(y(k)) /\ (k > 1 => y(k).prev = y(k - 1).hash)
  <2> SUFFICES ASSUME NEW k \in 1 .. N
               PROVE  /\ Linked(x(k)) /\ (k > 1 => x(k).prev = x(k - 1).hash)
                      /\ Linked(y(k)) /\ (k > 1 => y(k).prev = y(k - 1).hash)
    OBVIOUS
  <2>1. /\ n + k \in 1 .. Len(one) /\ n + (k - 1) = n + k - 1
        /\ m + k \in 1 .. Len(two) /\ m + (k - 1) = m + k - 1
        /\ k \in 1 .. Len(one) - n /\ k \in 1 .. Len(two) - m
    <3>1. 1 .. Len(one) - n = 1 .. N /\ 1 .. Len(two) - m = 1 .. N
      BY <1>7
    <3> HIDE DEF N
    <3>2. k \in 1 .. N /\ N \in Nat
      BY <1>6
    <3>3. /\ n + k \in 1 .. Len(one) /\ n + (k - 1) = n + k - 1
          /\ m + k \in 1 .. Len(two) /\ m + (k - 1) = m + k - 1
      BY <1>3, <1>6, <1>8, <3>2
    <3>4. QED
      BY <3>1, <3>2, <3>3
  <2>2. one[n + k] \in Entry /\ two[m + k] \in Entry
    BY <2>1
  <2>3. /\ one[n + k].hash = Append(one[n + k].prev, one[n + k].id)
        /\ one[n + k].prev \in Hash /\ one[n + k].id \in Nat
        /\ k > 1 => one[n + k].prev = one[n + k - 1].hash
    BY <1>1, <2>1, ChainGrows
  <2>4. /\ two[m + k].hash = Append(two[m + k].prev, two[m + k].id)
        /\ two[m + k].prev \in Hash /\ two[m + k].id \in Nat
        /\ k > 1 => two[m + k].prev = two[m + k - 1].hash
    BY <1>2, <2>1, ChainGrows
  <2>5. QED
    BY <2>1, <2>2, <2>3, <2>4
<1>10. \A k \in 1 .. N : x(k).hash = y(k).hash =>
          x(k) = y(k) /\ (k > 1 => x(k - 1).hash = y(k - 1).hash)
  <2>1. \A z, u : Linked(z) /\ Linked(u) /\ z.hash = u.hash => z = u
    BY SameHashSameEntry
  <2> HIDE DEF N, x, y, Linked
  <2>2. QED
    BY <1>9, <2>1
<1>11. x(N).hash = y(N).hash
  BY <1>6, <1>8, Zenon
<1> DEFINE P == {d \in Nat : d < N => x(N - d).hash = y(N - d).hash}
<1> HIDE DEF x, y, N
<1>12. 0 \in P
  BY <1>6, <1>11
<1>13. ASSUME NEW d \in Nat, d \in P
       PROVE  d + 1 \in P
  <2> SUFFICES ASSUME d + 1 < N PROVE x(N - (d + 1)).hash = y(N - (d + 1)).hash
    OBVIOUS
  <2>1. N - d \in 1 .. N /\ N - d > 1 /\ (N - d) - 1 = N - (d + 1)
    BY <1>6
  <2>2. x(N - d).hash = y(N - d).hash
    BY <1>6, <1>13
  <2>3. x((N - d) - 1).hash = y((N - d) - 1).hash
    BY <1>10, <2>1, <2>2
  <2>4. QED
    BY <2>1, <2>3
<1>14. Nat \subseteq P
  <2> HIDE DEF P
  <2> QED
    BY <1>12, <1>13, Induction
<1>15. \A k \in 1 .. N : x(k) = y(k)
  <2> SUFFICES ASSUME NEW k \in 1 .. N PROVE x(k) = y(k)
    OBVIOUS
  <2>1. N - k \in Nat /\ N - k < N /\ N - (N - k) = k
    BY <1>6
  <2>2. x(N - (N - k)).hash = y(N - (N - k)).hash
    BY <1>14, <2>1
  <2>3. QED
    BY <1>10, <2>1, <2>2
<1>16. /\ \A k \in 1 .. Len(one) - n : one[n + k] = two[m + k]
       /\ \A k \in 1 .. Len(two) - m : two[m + k] = one[n + k]
       /\ Len(one) - n <= Len(two) - m /\ Len(two) - m <= Len(one) - n
  <2>1. \A k \in 1 .. N : one[n + k] = two[m + k]
    BY <1>15 DEF x, y
  <2>2. Len(one) - n = N
    BY DEF N
  <2>3. 1 .. Len(one) - n = 1 .. N /\ 1 .. Len(two) - m = 1 .. N
    BY <1>7, <2>2
  <2>4. N <= N
    BY <1>6
  <2>5. QED
    BY <1>7, <2>1, <2>2, <2>3, <2>4
<1>17. QED
  BY <1>1, <1>2, <1>16 DEF ChainBegins

\* verify_chain detects what the hash chain makes detectable, whatever it is
\* given, and never calls a log broken that was left as it was written.
THEOREM TamperingDetected == LoopSpec => []DetectsTampering
<1>1. LoopIInv /\ AnswerIsVerifies => DetectsTampering
  <2> SUFFICES ASSUME LoopIInv, AnswerIsVerifies PROVE DetectsTampering
    OBVIOUS
  <2> DEFINE e == input.entries
             h == input.checkpoint_hash
  <2>1. e \in Seq(Entry) /\ h \in Hash \cup {NoHash}
    BY VerifyAssumption DEF LoopIInv, LoopTypeOK
  <2>2. result = "broken" => ~AsWritten(e, h)
    BY <2>1, WrittenVerifies DEF AnswerIsVerifies
  <2>3. ASSUME result = "valid", NEW other \in Inputs, AsWritten(other.entries, other.checkpoint_hash),
               other.checkpoint_hash = h, Hashes(e) \subseteq Hashes(other.entries)
        PROVE  ChainBegins(e, other.entries)
    <3>1. Verifies(e, h)
      BY <2>3 DEF AnswerIsVerifies
    <3>2. other.entries \in Seq(Entry)
      BY VerifyAssumption
    <3>3. Verifies(other.entries, h)
      BY <2>1, <2>3, <3>2, WrittenVerifies
    <3>4. QED
      BY <2>1, <2>3, <3>1, <3>2, <3>3, TamperEvident
  <2>4. QED
    BY <2>2, <2>3 DEF DetectsTampering
<1>2. LoopSpec => [](LoopIInv /\ AnswerIsVerifies)
  BY LoopInvariant, AnswerCorrect, PTL
<1>3. QED
  BY <1>1, <1>2, PTL

=============================================================================
