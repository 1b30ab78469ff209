----------------------------- MODULE UserWallet -----------------------------
(***************************************************************************)
(* The crypto wallet of a user: UserWalletService.createOrGetWallet looks   *)
(* for the row, has Crossmint make a wallet and stores it.  The row is      *)
(* unique per user; nothing spans the three steps, and what Crossmint does  *)
(* when the user already has a wallet there is a parameter.  Nothing bounds *)
(* the failures; the module is proved about in AccountProofs.               *)
(***************************************************************************)

CONSTANTS
    Users,
    Wallets,      \* wallet ids Crossmint may hand out
    Requests,
    Duplicates,   \* what Crossmint may do on a second wallet of a user: make "another",
                  \* answer "conflict"
    None

\* What the theorems about this module require of the constants.
ConstantsOK == None \notin Users \cup Wallets

VARIABLES
    made,      \* Crossmint: the user each wallet was made for
    row,       \* UserWallet: the wallet stored for each user
    shown,     \* history: the wallets each user was answered with
    req

vars == <<made, row, shown, req>>

-----------------------------------------------------------------------------
Request == [pc : {"idle", "create", "insert"}, user : Users \cup {None},
            wallet : Wallets \cup {None}]
IdleRequest == [pc |-> "idle", user |-> None, wallet |-> None]

TypeOK ==
    /\ made \in [Wallets -> Users \cup {None}]
    /\ row \in [Users -> Wallets \cup {None}]
    /\ shown \in [Users -> SUBSET Wallets]
    /\ req \in [Requests -> Request]

Init ==
    /\ made = [w \in Wallets |-> None]
    /\ row = [u \in Users |-> None]
    /\ shown = [u \in Users |-> {}]
    /\ req = [r \in Requests |-> IdleRequest]

At(r, label) == req[r].pc = label
Finish(r) == req' = [req EXCEPT ![r] = IdleRequest]
HasWallet(u) == \E w \in Wallets : made[w] = u

-----------------------------------------------------------------------------
\* The row is answered when there is one; otherwise Crossmint is asked.
createOrGetWallet(r, u) ==
    /\ At(r, "idle")
    /\ IF row[u] # None
       THEN shown' = [shown EXCEPT ![u] = @ \cup {row[u]}] /\ UNCHANGED req
       ELSE req' = [req EXCEPT ![r] = [pc |-> "create", user |-> u, wallet |-> None]]
            /\ UNCHANGED shown
    /\ UNCHANGED <<made, row>>

getWalletByUser(u) ==
    /\ row[u] # None
    /\ shown' = [shown EXCEPT ![u] = @ \cup {row[u]}]
    /\ UNCHANGED <<made, row, req>>

\* Crossmint makes a wallet and answers with it.
createWallet(r) ==
    /\ At(r, "create")
    /\ "another" \in Duplicates \/ ~HasWallet(req[r].user)
    /\ \E w \in Wallets :
        /\ made[w] = None
        /\ made' = [made EXCEPT ![w] = req[r].user]
        /\ req' = [req EXCEPT ![r].pc = "insert", ![r].wallet = w]
    /\ UNCHANGED <<row, shown>>

\* 409: errorMap turns it into BadRequestError and the request is refused.
WalletExists(r) ==
    /\ At(r, "create")
    /\ "conflict" \in Duplicates /\ HasWallet(req[r].user)
    /\ Finish(r)
    /\ UNCHANGED <<made, row, shown>>

\* user_id is unique: the insert fails when the row is there by now, and the
\* error reaches the caller.
create(r) ==
    /\ At(r, "insert")
    /\ IF row[req[r].user] = None
       THEN /\ row' = [row EXCEPT ![req[r].user] = req[r].wallet]
            /\ shown' = [shown EXCEPT ![req[r].user] = @ \cup {req[r].wallet}]
       ELSE UNCHANGED <<row, shown>>
    /\ Finish(r)
    /\ UNCHANGED made

\* The call to Crossmint fails before or after the wallet is made, or a database
\* call fails.
Fail(r) ==
    /\ ~At(r, "idle")
    /\ Finish(r)
    /\ UNCHANGED <<made, row, shown>>

Ask(u) == \E r \in Requests : createOrGetWallet(r, u)
Handler(r) == createWallet(r) \/ WalletExists(r) \/ create(r)

Next ==
    \/ \E u \in Users : Ask(u) \/ getWalletByUser(u)
    \/ \E r \in Requests : Handler(r) \/ Fail(r)

Spec == Init /\ [][Next]_vars

-----------------------------------------------------------------------------
(* Properties *)

\* Whatever requests overlap or fail, every answer a user ever gets names the same
\* wallet, the one stored.
OneWalletShown == \A u \in Users : \A w \in shown[u] : w = row[u]

\* A stored wallet is one that Crossmint made for that user, and no two users share it.
OwnWallet == \A u \in Users : row[u] # None => made[row[u]] = u
=============================================================================
