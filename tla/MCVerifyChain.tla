---------------------------- MODULE MCVerifyChain ----------------------------
(***************************************************************************)
(* Inputs for VerifyChain: logs that were written as the code writes them, *)
(* trimmed or not, and what one change to such a file makes of it.         *)
(***************************************************************************)
EXTENDS VerifyChain, FiniteSetsExt, SequencesExt

CONSTANTS
    MaxLegacy,      \* bound: lines from before the upgrade
    MaxChained      \* bound: lines since

\* The hash of the n-th chained entry, which covers the payloads 1 .. n.
HashOf(n) == [i \in 1 .. n |-> i]

\* A log of some legacy lines and some chained ones, before any trim.
Written(legacies, chained) ==
    [i \in 1 .. legacies + chained |->
        IF i <= legacies THEN LegacyEntry(i)
                         ELSE NewEntry(HashOf(i - legacies - 1), i - legacies)]

\* What is left of it, and of the checkpoint, when the first `cut' lines of it
\* have been trimmed.
Trimmed(legacies, chained, cut) ==
    [entries |-> SubSeq(Written(legacies, chained), cut + 1, legacies + chained),
     checkpoint_hash |-> IF cut = 0 THEN NoHash ELSE Written(legacies, chained)[cut].hash]

Honest ==
    UNION {UNION {{Trimmed(legacies, chained, cut) : cut \in 0 .. legacies + chained}
                    : chained \in 0 .. MaxChained} : legacies \in 0 .. MaxLegacy}

\* One entry's content edited, one entry removed, two exchanged, or a line
\* without hashes put in.
Tampered(log) ==
    LET e == log.entries
        D == DOMAIN e
        With(entries) == [log EXCEPT !.entries = entries]
    IN  {With([e EXCEPT ![i].id = 0]) : i \in D}
          \cup {With(RemoveAt(e, i)) : i \in D}
          \cup {With([e EXCEPT ![i] = e[j], ![j] = e[i]]) : i \in D, j \in D}
          \cup {With(InsertAt(e, i, LegacyEntry(0))) : i \in 1 .. Len(e) + 1}

HonestAndTampered == Honest \cup UNION {Tampered(log) : log \in Honest}

=============================================================================
