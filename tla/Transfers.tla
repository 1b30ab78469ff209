------------------------------ MODULE Transfers ------------------------------
(***************************************************************************)
(* Money out of a wallet: internal transfers by email or alias and SPEI     *)
(* cash-outs.  The backoffice moves the money in the middle of the handler; *)
(* names, receipt and notifications come after it, each in a statement of   *)
(* its own that may fail.  Nothing ties a repeated request to the first     *)
(* one.  An order is what a person wants done once; the app may send it     *)
(* again at any time, also while an earlier request for it runs.            *)
(***************************************************************************)
EXTENDS Naturals

CONSTANTS
    Users,
    Onboarded,    \* users with an external_customer_id
    Nameless,     \* users whose local row has no name
    Targets,      \* emails and aliases
    Aliases,      \* the targets that are aliases: they may change hands
    Orders,
    Kind,         \* of an order: "internal" or "spei"
    Sender,       \* of an order
    Target,       \* of an internal order
    Requests,
    MaxAttempts,  \* bound on the requests sent for an order
    Faults,       \* "backoffice", "names", "db", "cards": cards come and go meanwhile
    None

ASSUME ConstantsAssumption ==
    /\ Onboarded \subseteq Users /\ Nameless \subseteq Users
    /\ Aliases \subseteq Targets
    /\ Kind \in [Orders -> {"internal", "spei"}]
    /\ Sender \in [Orders -> Users] /\ Target \in [Orders -> Targets]
    /\ MaxAttempts \in [Orders -> Nat]
    /\ Faults \subseteq {"backoffice", "names", "db", "cards"}
    /\ None \notin Users

VARIABLES
    physical,   \* Cards: whether a sender has a physical card, linked to the processor or not
    holder,     \* Users: who holds an email or alias
    moved,      \* backoffice: how often the money moved for a try
    receipts,   \* TransferReceipt: <<try, payee>>
    attempts,   \* how often an order was sent
    answer,     \* the answer to a try
    paid,       \* history: <<try, payee>> of the moves
    req

vars == <<physical, holder, moved, receipts, attempts, answer, paid, req>>
world == <<physical, holder>>
money == <<moved, paid>>

-----------------------------------------------------------------------------
Senders == {Sender[o] : o \in Orders}
Tries == UNION {{o} \X (1 .. MaxAttempts[o]) : o \in Orders}   \* the n-th request sent for o
Pins == {"none", "right", "wrong"}
Types == {"email", "alias", "missing"}
Possession == {"none", "unlinked", "linked"}
Request == [pc : {"idle", "cards", "viewPin", "recipient", "profile", "call", "names",
                  "receipt", "notifyRecipient", "notifySender"},
            try : Tries \cup {None}, pin : Pins, type : Types, payee : Users \cup {None},
            cardless : BOOLEAN]   \* history: no physical card at some time before the check
IdleRequest == [pc |-> "idle", try |-> None, pin |-> "none", type |-> "missing",
                payee |-> None, cardless |-> FALSE]
PaidLabels == {"names", "receipt", "notifyRecipient", "notifySender"}

TypeOK ==
    /\ physical \in [Senders -> Possession]
    /\ holder \in [Targets -> Users \cup {None}]
    /\ moved \in [Tries -> Nat]
    /\ receipts \subseteq Tries \X (Users \cup {None})
    /\ paid \subseteq Tries \X (Users \cup {None})
    /\ attempts \in [Orders -> Nat] /\ \A o \in Orders : attempts[o] <= MaxAttempts[o]
    /\ answer \in [Tries -> {"none", "ok", "invalid", "refused", "error"}]
    /\ req \in [Requests -> Request]

Init ==
    /\ physical \in [Senders -> Possession]
    /\ holder \in {h \in [Targets -> Users \cup {None}] :
                    \A a, b \in Aliases : h[a] = h[b] /\ h[a] # None => a = b}
    /\ moved = [t \in Tries |-> 0]
    /\ receipts = {} /\ paid = {}
    /\ attempts = [o \in Orders |-> 0]
    /\ answer = [t \in Tries |-> "none"]
    /\ req = [r \in Requests |-> IdleRequest]

At(r, label) == req[r].pc = label
Goto(r, label) == req' = [req EXCEPT ![r].pc = label]
Try(r) == req[r].try
Ord(r) == Try(r)[1]
Answer(r, a) ==
    /\ answer' = [answer EXCEPT ![Try(r)] = a]
    /\ req' = [req EXCEPT ![r] = IdleRequest]

-----------------------------------------------------------------------------
(* Requests and their checks *)

\* The app sends an order, for the first time or again.  transferType is not optional
\* for the validator.
SendOrder(r, o, pin, type) ==
    /\ At(r, "idle") /\ attempts[o] < MaxAttempts[o]
    /\ Kind[o] = "spei" => type = "missing"
    /\ attempts' = [attempts EXCEPT ![o] = @ + 1]
    /\ IF Kind[o] = "internal" /\ type = "missing"
       THEN answer' = [answer EXCEPT ![<<o, attempts[o] + 1>>] = "invalid"] /\ UNCHANGED req
       ELSE /\ req' = [req EXCEPT ![r] = [pc |-> "cards", try |-> <<o, attempts[o] + 1>>,
                            pin |-> pin, type |-> type, payee |-> None,
                            cardless |-> physical[Sender[o]] = "none"]]
            /\ UNCHANGED answer
    /\ UNCHANGED <<world, money, receipts>>

AfterPin(r) == IF Kind[Ord(r)] = "internal" THEN "recipient" ELSE "call"

\* mutant: a card that is not linked is skipped
SkipUnlinked(r) ==
    /\ At(r, "cards")
    /\ LET card == physical[Sender[Ord(r)]] IN
        IF card # "linked" THEN Goto(r, AfterPin(r)) /\ UNCHANGED answer
        ELSE IF req[r].pin = "none" THEN Answer(r, "refused")
        ELSE Goto(r, "viewPin") /\ UNCHANGED answer
    /\ UNCHANGED <<world, money, receipts, attempts>>

\* validateTransferCardPin: without a physical card there is no PIN to ask for.
validateTransferCardPin(r) ==
    /\ At(r, "cards")
    /\ LET card == physical[Sender[Ord(r)]] IN
        IF card = "none" THEN Goto(r, AfterPin(r)) /\ UNCHANGED answer
        ELSE IF req[r].pin = "none" \/ card = "unlinked" THEN Answer(r, "refused")
        ELSE Goto(r, "viewPin") /\ UNCHANGED answer
    /\ UNCHANGED <<world, money, receipts, attempts>>

viewPinForCustomer(r) ==
    /\ At(r, "viewPin")
    /\ \/ req[r].pin = "right" /\ Goto(r, AfterPin(r)) /\ UNCHANGED answer
       \/ req[r].pin = "wrong" /\ Answer(r, "refused")
       \/ "backoffice" \in Faults /\ Answer(r, "error")
    /\ UNCHANGED <<world, money, receipts, attempts>>

\* findByEmail or findByAlias, as the request says.
Lookup(r) ==
    LET t == Target[Ord(r)] IN
    IF (req[r].type = "alias") = (t \in Aliases) THEN holder[t] ELSE None

findRecipient(r) ==
    /\ At(r, "recipient")
    /\ IF Lookup(r) \in {None, Sender[Ord(r)]}
       THEN Answer(r, "refused")
       ELSE req' = [req EXCEPT ![r].pc = "profile", ![r].payee = Lookup(r)] /\ UNCHANGED answer
    /\ UNCHANGED <<world, money, receipts, attempts>>

findProfileByUserId(r) ==
    /\ At(r, "profile")
    /\ IF req[r].payee \in Onboarded THEN Goto(r, "call") /\ UNCHANGED answer
       ELSE Answer(r, "refused")
    /\ UNCHANGED <<world, money, receipts, attempts>>

-----------------------------------------------------------------------------
(* The move and what follows it *)

Move(r) ==
    /\ moved' = [moved EXCEPT ![Try(r)] = @ + 1]
    /\ paid' = paid \cup {<<Try(r), req[r].payee>>}

\* mutant: a lost answer makes the backoffice be asked again
CallAgain(r) ==
    /\ At(r, "call")
    /\ Move(r)
    /\ \/ Goto(r, "names")
       \/ "backoffice" \in Faults /\ Goto(r, "call")
    /\ UNCHANGED <<world, receipts, attempts, answer>>

\* POST /wallet/v1/transfer or /wallet/v1/spei-cashout.
backofficeTransfer(r) ==
    /\ At(r, "call")
    /\ Move(r)
    /\ Goto(r, "names")
    /\ UNCHANGED <<world, receipts, attempts, answer>>

\* The call fails before the money moves, or its answer is lost after it.
CallFails(r) ==
    /\ At(r, "call") /\ "backoffice" \in Faults
    /\ Answer(r, "error")
    /\ UNCHANGED money \/ Move(r)
    /\ UNCHANGED <<world, receipts, attempts>>

\* Both names of an internal receipt, the sender's of a cash-out.
Named(r) == {Sender[Ord(r)]} \cup (IF req[r].payee = None THEN {} ELSE {req[r].payee})

\* The backoffice's names, or when it fails those of the local rows.
resolveUserDisplayName(r) ==
    /\ At(r, "names")
    /\ \/ Goto(r, "receipt") /\ UNCHANGED answer
       \/ "names" \in Faults /\ Named(r) \cap Nameless # {} /\ Answer(r, "error")
    /\ UNCHANGED <<world, money, receipts, attempts>>

\* mutant: the answer does not wait for the receipt
ReceiptLater(r, payee) ==
    /\ At(r, "receipt")
    /\ \/ receipts' = receipts \cup {<<Try(r), payee>>}
       \/ UNCHANGED receipts
    /\ IF Kind[Ord(r)] = "internal" THEN Goto(r, "notifyRecipient") /\ UNCHANGED answer
       ELSE Answer(r, "ok")
    /\ UNCHANGED <<world, money, attempts>>

StoreReceipt(r, payee) ==
    /\ At(r, "receipt")
    /\ receipts' = receipts \cup {<<Try(r), payee>>}
    /\ IF Kind[Ord(r)] = "internal" THEN Goto(r, "notifyRecipient") /\ UNCHANGED answer
       ELSE Answer(r, "ok")
    /\ UNCHANGED <<world, money, attempts>>

\* mutant: the receipt looks the recipient up again
ReceiptForHolder(r) ==
    StoreReceipt(r, IF Kind[Ord(r)] = "internal" THEN holder[Target[Ord(r)]] ELSE None)

persistReceipt(r) == StoreReceipt(r, req[r].payee)

sendToUser(r) ==
    /\ \/ At(r, "notifyRecipient") /\ Goto(r, "notifySender") /\ UNCHANGED answer
       \/ At(r, "notifySender") /\ Answer(r, "ok")
    /\ UNCHANGED <<world, money, receipts, attempts>>

\* A database call fails: before the move nothing happened, after it the money is gone.
DbFails(r) ==
    /\ "db" \in Faults /\ req[r].pc \notin {"idle", "viewPin", "call"}
    /\ Answer(r, "error")
    /\ UNCHANGED <<world, money, receipts, attempts>>

-----------------------------------------------------------------------------
(* Meanwhile *)

\* UserService.addAlias: a free alias is taken, the user's former one becomes free.
addAlias(u, a) ==
    /\ holder[a] = None
    /\ holder' = [t \in Targets |-> IF t = a THEN u
                                    ELSE IF t \in Aliases /\ holder[t] = u THEN None
                                    ELSE holder[t]]
    /\ UNCHANGED <<physical, money, receipts, attempts, answer, req>>

\* A physical card is assigned, activated, unlinked, or given to another user by an
\* overlapping assignment; a user may have several, and the linked one counts.
CardsChange(u) ==
    /\ "cards" \in Faults
    /\ \E p \in Possession \ {physical[u]} : physical' = [physical EXCEPT ![u] = p]
    /\ req' = [r \in Requests |->
                IF At(r, "cards") /\ Sender[Ord(r)] = u /\ physical'[u] = "none"
                THEN [req[r] EXCEPT !.cardless = TRUE] ELSE req[r]]
    /\ UNCHANGED <<holder, money, receipts, attempts, answer>>

Handler(r) ==
    \/ validateTransferCardPin(r) \/ viewPinForCustomer(r) \/ findRecipient(r)
    \/ findProfileByUserId(r) \/ backofficeTransfer(r) \/ CallFails(r)
    \/ resolveUserDisplayName(r) \/ persistReceipt(r) \/ sendToUser(r) \/ DbFails(r)

Next ==
    \/ \E r \in Requests :
        \/ \E o \in Orders, pin \in Pins, type \in Types : SendOrder(r, o, pin, type)
        \/ Handler(r)
    \/ \E u \in Senders : CardsChange(u)
    \/ \E u \in Users, a \in Aliases : addAlias(u, a)

Spec == Init /\ [][Next]_vars

-----------------------------------------------------------------------------
(* Properties *)

\* What the app may conclude from an answer before it sends the order again: a refusal
\* means that this request moved no money, a success that it moved it once, and whatever
\* fails no request moves it twice.  (After an error the money may have moved.)
AnswerTellsMove ==
    \A t \in Tries :
        /\ moved[t] <= 1
        /\ answer[t] = "ok" => moved[t] = 1
        /\ answer[t] \in {"invalid", "refused"} => moved[t] = 0

\* A receipt names a user who was really paid by that request, and nobody is paid by an
\* order of their own, whatever aliases change hands between the lookup and the receipt.
ReceiptNamesPayee ==
    /\ receipts \subseteq paid
    /\ \A p \in paid : p[2] # Sender[p[1][1]]

\* A request answered with success has a receipt of its own, also when other requests
\* for the same order failed or overlap with it.
SuccessHasReceipt ==
    \A t \in Tries : answer[t] = "ok" => \E p \in receipts : p[1] = t

\* Money moves only with the right PIN of a linked card, unless the sender was without
\* a physical card at some time between the arrival of the request and its check.
PinGuardsMoney ==
    [][\A t \in Tries : moved'[t] # moved[t] =>
          \E r \in Requests : /\ Try(r) = t /\ At(r, "call")
                              /\ req[r].pin = "right" \/ req[r].cardless]_vars

\* "based on queryType param, defaults to email": a transfer without the parameter is one
\* by email.
DefaultsToEmail == \A t \in Tries : answer[t] # "invalid"
=============================================================================
