----------------------- MODULE MCGuardrailsConfigAdmin -----------------------
(* An instance of GuardrailsConfigAdmin for TLC: a replica that edits and     *)
(* reads, and one that edits.                                                *)
EXTENDS GuardrailsConfigAdmin, TLC

CONSTANTS r1, r2, t1, t2, l1, l2, p1, p2, v1, v2

HomeOfEach == (t1 :> r1) @@ (t2 :> r2) @@ (l1 :> r1) @@ (l2 :> r1)
Swap(a, b) == Permutations({a, b})
Symmetry == {l @@ p @@ v : l \in Swap(l1, l2), p \in Swap(p1, p2), v \in Swap(v1, v2)}

=============================================================================
