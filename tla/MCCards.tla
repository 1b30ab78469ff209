------------------------------- MODULE MCCards -------------------------------
(***************************************************************************)
(* Small instances of Cards for TLC, with a history variable: the cards      *)
(* whose row may disagree with the issuer because handlers failed or         *)
(* overlapped.                                                               *)
(***************************************************************************)
EXTENDS Cards, FiniteSets, TLC

VARIABLE behind

\* The handlers that have the issuer's answer about c and not written the row yet.
Writers(c) ==
    {r \in Requests : req[r].card = c /\ req[r].pc \in
        {"activateInfo", "activateSave", "stopSave", "unstopSave", "unlinkSave", "scriptSave"}}

\* A call that is answered brings the row up to date, unless another handler of the card
\* has its write still to come; an answer or a write that is lost leaves it behind.
Behind(c) ==
    IF Writers(c)' \ Writers(c) # {} THEN Writers(c) # {}
    ELSE \/ c \in behind
         \/ issuer'[c].state # issuer[c].state /\ issuer[c].state # "none"
         \/ Writers(c) \ Writers(c)' # {} /\ cards'[c] = cards[c]

MCInit == Init /\ behind = {}

MCNext == Next /\ behind' = {c \in CardIds : Behind(c)}

MCSpec == MCInit /\ [][MCNext]_<<vars, behind>>

\* "BLOCKED: Tarjeta bloqueada temporalmente", "ACTIVE: Tarjeta activada por el
\* usuario": the row of a user's card says what the issuer does, except while a handler
\* has still to write it, or after handlers of the card overlapped or failed between
\* the issuer and the row, until the next call that succeeds alone.
RowMatchesIssuer ==
    \A c \in CardIds : cards[c].userId # None /\ Writers(c) = {} /\ c \notin behind =>
        /\ cards[c].status = "BLOCKED" <=> issuer[c].state = "stopped"
        /\ cards[c].status = "ACTIVE" <=> issuer[c].state = "active"

\* Bound: once the issuer has made one card no other is followed.
OneCard == Cardinality({c \in CardIds : issuer[c].state # "none"}) <= 1

Symmetry == Permutations(Requests)
=============================================================================
