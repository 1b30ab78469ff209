--------------------------- MODULE MCClipPayments ---------------------------
(* Small instances of ClipPayments for TLC. *)
EXTENDS ClipPayments, TLC

Symmetry == Permutations(Requests) \cup Permutations(Charges) \cup Permutations(Sessions)
=============================================================================
