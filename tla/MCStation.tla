------------------------------ MODULE MCStation ------------------------------
(* Instances of Station for TLC. *)
EXTENDS Station, TLC

Symmetry == Permutations(Tags) \cup Permutations(ReservationIds)
=============================================================================
