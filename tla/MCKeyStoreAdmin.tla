--------------------------- MODULE MCKeyStoreAdmin ---------------------------
(* Instances of KeyStoreAdmin for TLC: where the tasks and threads live.   *)
EXTENDS KeyStoreAdmin, TLC

CONSTANTS t1, t2, th1, th2, r1, r2

TwoReplicas == t1 :> r1 @@ t2 :> r2 @@ th1 :> r1 @@ th2 :> r2
OneReplica == t1 :> r1 @@ t2 :> r1 @@ th1 :> r1 @@ th2 :> r1
OneThread == t1 :> r1 @@ t2 :> r1 @@ th1 :> r1
NoThreads == t1 :> r1 @@ t2 :> r2

\* With NoThreads the two replicas are alike, each with its task, and so are
\* the keys.
Same == t1 :> t1 @@ t2 :> t2 @@ r1 :> r1 @@ r2 :> r2
Exchanged == t1 :> t2 @@ t2 :> t1 @@ r1 :> r2 @@ r2 :> r1
Alike == {keys @@ replicas : keys \in Permutations(Keys), replicas \in {Same, Exchanged}}

=============================================================================
