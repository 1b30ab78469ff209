---------------------------- MODULE MCOnboarding ----------------------------
(* A small instance of Onboarding for TLC. *)
EXTENDS Onboarding, TLC

\* Users differ: only some are for migration.
Symmetry == Permutations(Requests) \cup Permutations(Devices)
=============================================================================
