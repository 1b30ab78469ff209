---------------------------- MODULE MCSipPayments ----------------------------
(* Small instances of SipPayments for TLC. *)
EXTENDS SipPayments, TLC

Symmetry == Permutations(Requests) \cup Permutations(Keys)
=============================================================================
