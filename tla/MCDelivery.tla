----------------------------- MODULE MCDelivery -----------------------------
(* Small instances of ScheduledDelivery. *)
EXTENDS ScheduledDelivery, TLC

Symmetry == Permutations(Managers) \cup Permutations(Jobs)
=============================================================================
