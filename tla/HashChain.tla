----------------------------- MODULE HashChain -----------------------------
(***************************************************************************)
(* app/core/hash_chain.py: the entries of a hash-chained log, the hash a   *)
(* new entry continues from, and what it means for a log to verify.        *)
(*                                                                         *)
(* SHA-256 is taken to be collision-free.  A hash then stands for exactly  *)
(* what went into it, the previous hash and the entry's payload, and so    *)
(* for the whole chain of payloads up to the entry: that sequence is its   *)
(* value here.  A payload is a number (the entry's uuid).                  *)
(***************************************************************************)
EXTENDS Naturals, Sequences

CONSTANT NoHash     \* an absent or null `hash', `prev_hash' or checkpoint

Hash == Seq(Nat)

\* The well-known starting point of a chain.
GENESIS_HASH == <<>>

compute_hash(prev, id) == Append(prev, id)

\* A line of the log; the entries of before the upgrade have neither hash.
Entry == [id : Nat, prev : Hash \cup {NoHash}, hash : Hash \cup {NoHash}]

LegacyEntry(id) == [id |-> id, prev |-> NoHash, hash |-> NoHash]

NewEntry(prev, id) == [id |-> id, prev |-> prev, hash |-> compute_hash(prev, id)]

IsChained(e) == e.hash # NoHash /\ e.prev # NoHash

\* The sidecar file.  A missing file reads like one that never recorded a trim.
Checkpoint == [hash : Hash \cup {NoHash}, count : Nat]
NoCheckpoint == [hash |-> NoHash, count |-> 0]

\* Where a chain continues from when no chained entry precedes it in the file.
Anchor(checkpointHash) ==
    IF checkpointHash # NoHash THEN checkpointHash ELSE GENESIS_HASH

\* previous_hash: the last entry's hash, else the checkpoint's, else genesis.
previous_hash(log, checkpoint) ==
    IF log # <<>> /\ log[Len(log)].hash # NoHash
    THEN log[Len(log)].hash
    ELSE Anchor(checkpoint.hash)

\* Mutant of ExpectedPrev: the checkpoint is not consulted.
ExpectedPrevWithoutCheckpoint(log, checkpointHash, i) ==
    IF i > 1 /\ IsChained(log[i - 1]) THEN log[i - 1].hash ELSE GENESIS_HASH

\* What verify_chain expects the i-th entry to continue from.
ExpectedPrev(log, checkpointHash, i) ==
    IF i > 1 /\ IsChained(log[i - 1])
    THEN log[i - 1].hash
    ELSE Anchor(checkpointHash)

\* Has the chain started before the i-th entry?
Started(log, checkpointHash, i) ==
    \/ checkpointHash # NoHash
    \/ i > 1 /\ IsChained(log[i - 1])

\* The checks verify_chain makes of the i-th entry, the earlier ones having
\* passed: a legacy entry only before the chain starts, a chained one with
\* the right predecessor and the hash of its own content.
EntryVerifies(log, checkpointHash, i) ==
    IF IsChained(log[i])
    THEN /\ log[i].prev = ExpectedPrev(log, checkpointHash, i)
         /\ log[i].hash = compute_hash(log[i].prev, log[i].id)
    ELSE ~Started(log, checkpointHash, i)

\* verify_chain(...).valid.
Verifies(log, checkpointHash) ==
    \A i \in 1 .. Len(log) : EntryVerifies(log, checkpointHash, i)

=============================================================================
