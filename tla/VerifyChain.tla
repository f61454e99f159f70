----------------------------- MODULE VerifyChain -----------------------------
(***************************************************************************)
(* The loop of verify_chain (app/core/hash_chain.py) over the lines of a   *)
(* log.  `Verifies' of HashChain says what the answer means; this is how   *)
(* the code comes to it.                                                   *)
(***************************************************************************)
EXTENDS HashChain

CONSTANT Inputs     \* the [entries, checkpoint_hash] it may be called with

ASSUME VerifyAssumption ==
    /\ NoHash \notin Hash
    /\ Inputs \subseteq [entries : Seq(Entry), checkpoint_hash : Hash \cup {NoHash}]

VARIABLES
    input,
    next,           \* the index of the next entry
    expected_prev,
    started,
    verified,
    legacy_count,
    result

loopVars == <<input, next, expected_prev, started, verified, legacy_count, result>>

LoopTypeOK ==
    /\ input \in Inputs
    /\ next \in 1 .. Len(input.entries) + 1
    /\ expected_prev \in Hash
    /\ started \in BOOLEAN
    /\ verified \in Nat
    /\ legacy_count \in Nat
    /\ result \in {"running", "valid", "broken"}

LoopInit ==
    /\ input \in Inputs
    /\ next = 1
    /\ expected_prev = Anchor(input.checkpoint_hash)
    /\ started = (input.checkpoint_hash # NoHash)
    /\ verified = 0
    /\ legacy_count = 0
    /\ result = "running"

AtEntry == result = "running" /\ next <= Len(input.entries)

Broken ==
    /\ result' = "broken"
    /\ UNCHANGED <<input, next, expected_prev, started, verified, legacy_count>>

CountLegacy ==
    /\ AtEntry
    /\ ~IsChained(input.entries[next])
    /\ ~started
    /\ legacy_count' = legacy_count + 1
    /\ next' = next + 1
    /\ UNCHANGED <<input, expected_prev, started, verified, result>>

LegacyInsideChain ==
    /\ AtEntry
    /\ ~IsChained(input.entries[next])
    /\ started
    /\ Broken

\* Another prev_hash than expected, or a hash that is not that of the content.
BrokenLink ==
    /\ AtEntry
    /\ LET entry == input.entries[next] IN
       /\ IsChained(entry)
       /\ \/ entry.prev # expected_prev
          \/ entry.hash # compute_hash(expected_prev, entry.id)
    /\ Broken

\* Mutant of VerifyEntry: the chain is not noted to have started.
VerifyEntryWithoutStarting ==
    /\ AtEntry
    /\ LET entry == input.entries[next] IN
       /\ IsChained(entry)
       /\ entry.prev = expected_prev
       /\ entry.hash = compute_hash(expected_prev, entry.id)
       /\ expected_prev' = entry.hash
    /\ verified' = verified + 1
    /\ next' = next + 1
    /\ UNCHANGED <<input, started, legacy_count, result>>

\* Mutant of VerifyEntry: the hash is not recomputed from the content.
VerifyLinkOnly ==
    /\ AtEntry
    /\ LET entry == input.entries[next] IN
       /\ IsChained(entry)
       /\ entry.prev = expected_prev
       /\ expected_prev' = entry.hash
    /\ started' = TRUE
    /\ verified' = verified + 1
    /\ next' = next + 1
    /\ UNCHANGED <<input, legacy_count, result>>

VerifyEntry ==
    /\ AtEntry
    /\ LET entry == input.entries[next] IN
       /\ IsChained(entry)
       /\ entry.prev = expected_prev
       /\ entry.hash = compute_hash(expected_prev, entry.id)
       /\ expected_prev' = entry.hash
    /\ started' = TRUE
    /\ verified' = verified + 1
    /\ next' = next + 1
    /\ UNCHANGED <<input, legacy_count, result>>

Finish ==
    /\ result = "running"
    /\ next > Len(input.entries)
    /\ result' = "valid"
    /\ UNCHANGED <<input, next, expected_prev, started, verified, legacy_count>>

LoopNext == CountLegacy \/ LegacyInsideChain \/ BrokenLink \/ VerifyEntry \/ Finish

LoopSpec == LoopInit /\ [][LoopNext]_loopVars

-----------------------------------------------------------------------------
\* The answer is the right one: valid exactly for the logs that verify.
AnswerIsVerifies ==
    /\ result = "valid" => Verifies(input.entries, input.checkpoint_hash)
    /\ result = "broken" => ~Verifies(input.entries, input.checkpoint_hash)

\* In a valid log all legacy entries come first, and every line is counted
\* once, in verified_count or in legacy_unchained_count.
CountsEveryLine ==
    result = "valid" =>
        /\ verified + legacy_count = Len(input.entries)
        /\ \A i \in 1 .. Len(input.entries) :
              IsChained(input.entries[i]) <=> i > legacy_count

\* A log as it was written and trimmed: legacy lines, and then entries that each
\* continue from what previous_hash found when it was appended.
AsWritten(entries, checkpoint_hash) ==
    \A i \in 1 .. Len(entries) :
        IF IsChained(entries[i])
        THEN entries[i] = NewEntry(previous_hash(SubSeq(entries, 1, i - 1),
                                                 [hash |-> checkpoint_hash, count |-> 0]),
                                   entries[i].id)
        ELSE /\ entries[i] = LegacyEntry(entries[i].id)
             /\ checkpoint_hash = NoHash
             /\ \A j \in 1 .. i - 1 : ~IsChained(entries[j])

\* The chained entries of a log begin behind its line n.
ChainedBehind(entries, n) ==
    \A i \in 1 .. Len(entries) : IsChained(entries[i]) <=> i > n

\* The chained entries of `part' are the first ones of `whole'.
ChainBegins(part, whole) ==
    \E n \in 0 .. Len(part), m \in 0 .. Len(whole) :
        /\ ChainedBehind(part, n) /\ ChainedBehind(whole, m)
        /\ Len(part) - n <= Len(whole) - m
        /\ \A k \in 1 .. Len(part) - n : part[n + k] = whole[m + k]

Hashes(entries) == {entries[i].hash : i \in {j \in DOMAIN entries : IsChained(entries[j])}}

\* "editing, deleting, or reordering any past entry ... verify_chain() below
\* detects that" (hash_chain.py), stated for what it can hold of.  Whatever is
\* done to a log, as long as no hash is computed anew: if the outcome is valid,
\* its chained entries are the first of those that were there, in their order
\* and with their content.  A log left as it was written is never called broken.
DetectsTampering ==
    /\ result = "broken" => ~AsWritten(input.entries, input.checkpoint_hash)
    /\ result = "valid" =>
          \A log \in Inputs :
              /\ AsWritten(log.entries, log.checkpoint_hash)
              /\ log.checkpoint_hash = input.checkpoint_hash
              /\ Hashes(input.entries) \subseteq Hashes(log.entries)
              => ChainBegins(input.entries, log.entries)

=============================================================================
