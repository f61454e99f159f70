-------------------------- MODULE MCAdminWriteLock --------------------------
(* An instance of AdminWriteLock for TLC: three tasks share a process, the  *)
(* fourth is alone in another one.                                         *)
EXTENDS AdminWriteLock

CONSTANTS t1, t2, t3, t4, r1, r2

TwoReplicas == t1 :> r1 @@ t2 :> r1 @@ t3 :> r1 @@ t4 :> r2

=============================================================================
