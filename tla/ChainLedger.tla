---------------------------- MODULE ChainLedger ----------------------------
(***************************************************************************)
(* What a hash-chained log promises (app/core/hash_chain.py and the        *)
(* "Tamper-evident" paragraphs of audit.py and guardrail_events.py): there *)
(* is one history, and it changes only by entries added at its end, each   *)
(* with a payload of its own.                                              *)
(***************************************************************************)
EXTENDS Naturals, Sequences

CONSTANT MaxAppends

VARIABLE ledger

Init == ledger = <<>>

Record(id) ==
    /\ \A i \in 1 .. Len(ledger) : ledger[i] < id
    /\ ledger' = Append(ledger, id)

Next == \E id \in 1 .. MaxAppends : Record(id)

Spec == Init /\ [][Next]_ledger

=============================================================================
