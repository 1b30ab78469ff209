----------------------------- MODULE MCBiometric -----------------------------
(* A small instance of Biometric for TLC. *)
EXTENDS Biometric, TLC

CONSTANTS k1, k2, u1, u2

MCKeyOf == k1 :> u1 @@ k2 :> u2
Symmetry == Permutations(Requests) \cup Permutations(Devices) \cup Permutations(Challenges)
=============================================================================
