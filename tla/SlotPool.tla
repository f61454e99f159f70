------------------------------ MODULE SlotPool ------------------------------
(***************************************************************************)
(* What a model's concurrency limiter promises: at most Limit clients are  *)
(* inside, and the others are let in in the order of their arrival.  How   *)
(* and when a freed slot reaches the next client is left open.             *)
(***************************************************************************)
EXTENDS Naturals, FiniteSets, SequencesExt

CONSTANTS Clients, Limit

VARIABLES
    inside,   \* the clients that hold a slot
    line      \* the clients that wait for one, oldest first

vars == <<inside, line>>

Outside == Clients \ (inside \cup Range(line))

Init ==
    /\ inside = {}
    /\ line = <<>>

\* A client that finds a free slot, and nobody waiting for it, takes it.
Enter(c) ==
    /\ c \in Outside
    /\ line = <<>>
    /\ Cardinality(inside) < Limit
    /\ inside' = inside \cup {c}
    /\ UNCHANGED line

\* Otherwise it waits behind those who came before.
Join(c) ==
    /\ c \in Outside
    /\ line # <<>> \/ Cardinality(inside) = Limit
    /\ line' = Append(line, c)
    /\ UNCHANGED inside

\* A free slot goes to the client that has waited longest.
Admit ==
    /\ line # <<>>
    /\ Cardinality(inside) < Limit
    /\ inside' = inside \cup {Head(line)}
    /\ line' = Tail(line)

\* A waiting client goes away.
GiveUp(i) ==
    /\ line' = RemoveAt(line, i)
    /\ UNCHANGED inside

Leave(c) ==
    /\ c \in inside
    /\ inside' = inside \ {c}
    /\ UNCHANGED line

Next ==
    \/ \E c \in Clients : Enter(c) \/ Join(c) \/ Leave(c)
    \/ Admit
    \/ \E i \in DOMAIN line : GiveUp(i)

Spec == Init /\ [][Next]_vars

=============================================================================
