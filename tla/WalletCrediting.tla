--------------------------- MODULE WalletCrediting ---------------------------
(***************************************************************************)
(* What the payment components promise about the customer's money, whatever*)
(* requests, retries, webhooks and failures happen in between: a payment   *)
(* is credited to the wallet only after its provider has been paid for it, *)
(* and at most once.                                                       *)
(***************************************************************************)
EXTENDS Naturals

CONSTANT Payments

VARIABLES
    paid,      \* payments whose provider has received the money
    credits    \* how often the wallet was credited for each payment

Init ==
    /\ paid = {}
    /\ credits = [p \in Payments |-> 0]

Pay(p) ==
    /\ paid' = paid \cup {p}
    /\ UNCHANGED credits

Credit(p) ==
    /\ p \in paid
    /\ credits[p] = 0
    /\ credits' = [credits EXCEPT ![p] = 1]
    /\ UNCHANGED paid

Next == \E p \in Payments : Pay(p) \/ Credit(p)

Spec == Init /\ [][Next]_<<paid, credits>>
=============================================================================
