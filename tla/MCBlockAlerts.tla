---------------------------- MODULE MCBlockAlerts ----------------------------
(* An instance of BlockAlerts for TLC. *)
EXTENDS BlockAlerts, TLC

AnyTask == Permutations(Tasks)

=============================================================================
