----------------------------- MODULE MCTransfers -----------------------------
(* A small instance of Transfers for TLC. *)
EXTENDS Transfers, TLC

CONSTANTS u1, u2, o1, o2, a1, a2

\* u1 transfers to an alias and cashes out.
MCKind == o1 :> "internal" @@ o2 :> "spei"
MCSender == o1 :> u1 @@ o2 :> u1
MCTarget == o1 :> a1 @@ o2 :> a1
MCMaxAttempts == o1 :> 2 @@ o2 :> 1
Symmetry == Permutations(Requests)
=============================================================================
