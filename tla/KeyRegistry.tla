----------------------------- MODULE KeyRegistry -----------------------------
(***************************************************************************)
(* What the key-management API promises (README, "Admin API"): keys change *)
(* one at a time, or the registry goes back, as a whole, to what it was at *)
(* some time; and somebody can always manage keys.  KeyStoreAdmin          *)
(* implements this.                                                        *)
(***************************************************************************)
EXTENDS KeyStoreFile

VARIABLES
    keys,       \* the registry
    past        \* everything it has been so far

Init ==
    /\ keys \in Files
    /\ Manageable(keys)
    /\ past = {keys}

\* The registry becomes what it is next, and somebody can still manage keys.
Becomes ==
    /\ keys' \in Files
    /\ Manageable(keys')
    /\ past' = past \cup {keys'}

\* Key k is created, changed or deleted; the others stay what they are.
Change(k) ==
    /\ Becomes
    /\ \A j \in Keys \ {k} : keys'[j] = keys[j]

\* The registry is what it was at some time.
Restore ==
    /\ Becomes
    /\ keys' \in past

Next == Restore \/ \E k \in Keys : Change(k)

Spec == Init /\ [][Next]_<<keys, past>>

=============================================================================
