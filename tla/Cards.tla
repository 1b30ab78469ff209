-------------------------------- MODULE Cards --------------------------------
(***************************************************************************)
(* Debit cards: the routes, middlewares and CardService behind /cards, the  *)
(* issuer's batch notification, and the operator scripts that order and    *)
(* activate cards.  Requests and scripts interleave at every awaited call; *)
(* nothing is locked and only request-bulk-cards-no-user uses a database   *)
(* transaction.  The issuer (the backoffice) is external: it makes cards,  *)
(* moves them through ordered, active, stopped and retired, and refuses a  *)
(* call that does not fit the state of the card.                           *)
(***************************************************************************)
EXTENDS Naturals

CONSTANTS
    Users,
    CardIds,      \* cardIdentifier; bounds the rows created
    Physical,     \* cards of type PHYSICAL, the others are VIRTUAL
    WithProfile,  \* users with a BackofficeCustomerProfile,
    WithCustomer, \* those whose profile has an external_customer_id,
    WithWallet,   \* and those whose profile has an ewallet_id
    ScriptUser,   \* the user with id 9
    DefaultWallet, \* the wallet with id 1
    Requests,     \* HTTP requests and scripts running at the same time
    Operations,   \* which of AllOperations the instance exercises
    Faults,       \* which of FaultKinds may happen
    None          \* null

FaultKinds == {"issuer", "abort"}
CardOperations == {"activate", "details", "stop", "unstop", "cvv", "unlink"}
ScriptOperations == {"activateScript", "usersScript", "noUserScript"}
AllOperations == CardOperations \cup ScriptOperations
                    \cup {"assign", "virtual", "request", "notification"}

ASSUME ConstantsAssumption ==
    /\ Physical \subseteq CardIds
    /\ WithProfile \subseteq Users
    /\ WithCustomer \subseteq WithProfile /\ WithWallet \subseteq WithProfile
    /\ ScriptUser \in Users
    /\ Operations \subseteq AllOperations /\ Faults \subseteq FaultKinds
    /\ None \notin Users \cup CardIds \cup {DefaultWallet}
    /\ DefaultWallet \notin Users

VARIABLES
    cards,     \* the table `Cards`
    batches,   \* the table `BulkBatch`: the cards of each referenceBatch
    issuer,    \* external: the issuer's record of each card
    orders,    \* external: the batches the issuer was asked for
    held,      \* history: <<user, card>> pairs of owners past and present
    lost,      \* history: cards whose order ended with an error before they were stored
    req        \* the requests in flight, with their local variables

vars == <<cards, batches, issuer, orders, held, lost, req>>
orderVars == <<batches, orders, lost>>

-----------------------------------------------------------------------------
\* prosperaCardId: the issuer's id of the card is stored; batch: bulkBatchId is set
Row == [status : {"ABSENT", "PENDING", "INACTIVE", "ACTIVE", "BLOCKED"},
        userId : Users \cup {None}, prosperaCardId : BOOLEAN, batch : BOOLEAN]
IssuerCard == [state : {"none", "ordered", "active", "stopped", "retired"},
               customer : Users \cup {None},   \* customer_id of the activation; None: of nobody
               balance : Users \cup {None, DefaultWallet}]   \* whose ewallet_id it spends from
PC == {"idle", "own", "pin", "activateRead", "activateIssuer", "activateInfo",
       "activateSave", "detailsRead", "cvvRead", "stopRead", "stopIssuer", "stopSave",
       "unstopRead", "unstopIssuer", "unstopSave", "unlinkRead", "unlinkIssuer",
       "unlinkSave", "assignRead", "assignSave", "virtualIssuer", "virtualSave",
       "available", "take", "pickup", "order", "saveBatch", "saveCards", "saveAll",
       "notify", "scriptNext", "scriptIssuer", "scriptSave"}
Storing == {"saveBatch", "saveCards", "saveAll"}   \* cards are ordered and not stored yet
Request == [pc : PC, op : Operations \cup {None},
            user : Users \cup {None}, card : CardIds \cup {None},
            todo : SUBSET ((CardIds \cup {None}) \X (Users \cup {None}))]

TypeOK ==
    /\ cards \in [CardIds -> Row]
    /\ batches \subseteq SUBSET CardIds /\ orders \subseteq SUBSET CardIds
    /\ issuer \in [CardIds -> IssuerCard]
    /\ held \subseteq Users \X CardIds /\ lost \subseteq CardIds
    /\ req \in [Requests -> Request]

NoRow == [status |-> "ABSENT", userId |-> None, prosperaCardId |-> FALSE, batch |-> FALSE]
NewCard == [state |-> "none", customer |-> None, balance |-> None]
IdleRequest == [pc |-> "idle", op |-> None, user |-> None, card |-> None, todo |-> {}]

Init ==
    /\ cards = [c \in CardIds |-> NoRow]
    /\ batches = {} /\ orders = {}
    /\ issuer = [c \in CardIds |-> NewCard]
    /\ held = {} /\ lost = {}
    /\ req = [r \in Requests |-> IdleRequest]

At(r, label) == req[r].pc = label

Goto(r, label) == req' = [req EXCEPT ![r] = IF label = "idle" THEN IdleRequest
                                            ELSE [@ EXCEPT !.pc = label]]

Finish(r) == Goto(r, "idle")

Card(r) == cards[req[r].card]

\* Writes the row of r's card and goes on; only an owner can be added to held.
Save(r, row, next) ==
    /\ cards' = [cards EXCEPT ![req[r].card] = row]
    /\ held' = IF row.userId = None THEN held
               ELSE held \cup {<<row.userId, req[r].card>>}
    /\ Goto(r, next)

\* external: a call about r's card.  The issuer refuses it, or its record becomes
\* `record` and the caller goes on; with a fault the call or its answer is lost.
IssuerCall(r, accepts, record, next, failed) ==
    /\ \/ /\ accepts
          /\ issuer' = [issuer EXCEPT ![req[r].card] = record]
          /\ \/ Goto(r, next)
             \/ "issuer" \in Faults /\ Goto(r, failed)
       \/ /\ ~accepts \/ "issuer" \in Faults
          /\ Goto(r, failed)
          /\ UNCHANGED issuer
    /\ UNCHANGED <<cards, held, orderVars>>

IssuerState(r) == issuer[req[r].card].state

-----------------------------------------------------------------------------
(* The routes of /cards/:cardId and their middlewares *)

\* mutant: a route without the ownership check
FirstStepWithoutCheck(op) ==
    CASE op = "stop" -> "pin" [] op = "activate" -> "activateRead" [] OTHER -> "own"

\* Every /:cardId route checks the ownership first.
FirstStep(op) == "own"

\* details, stop and unstop go on to the PIN; the others to the service
AfterOwnership(op) ==
    CASE op \in {"details", "stop", "unstop"} -> "pin"
      [] op = "activate" -> "activateRead"
      [] op = "cvv" -> "cvvRead"
      [] op = "unlink" -> "unlinkRead"

AfterPin(op) == CASE op = "details" -> "detailsRead"
                  [] op = "stop" -> "stopRead"
                  [] op = "unstop" -> "unstopRead"

\* authenticateToken puts the user into the request.
CardRequest(r, op, u, c) ==
    /\ At(r, "idle") /\ op \in CardOperations \cap Operations
    /\ req' = [req EXCEPT ![r] = [IdleRequest EXCEPT !.pc = FirstStep(op), !.op = op,
                                                     !.user = u, !.card = c]]
    /\ UNCHANGED <<cards, issuer, held, orderVars>>

validateCardOwnership(r) ==
    /\ At(r, "own")
    /\ IF Card(r).status # "ABSENT" /\ Card(r).userId = req[r].user
       THEN Goto(r, AfterOwnership(req[r].op)) ELSE Finish(r)
    /\ UNCHANGED <<cards, issuer, held, orderVars>>

\* The PIN sent by the user may be wrong; only physical cards have one.
validateCardPin(r) ==
    /\ At(r, "pin")
    /\ \/ Card(r).prosperaCardId /\ Goto(r, AfterPin(req[r].op))
       \/ ~Card(r).prosperaCardId /\ Finish(r)
       \/ Card(r).prosperaCardId /\ req[r].card \in Physical /\ Finish(r)
    /\ UNCHANGED <<cards, issuer, held, orderVars>>

-----------------------------------------------------------------------------
(* activateCard *)

\* The wallet of the row's owner is looked up (an unknown one throws) and the batch
\* dereferenced, which throws for a card without one; the customer is the caller.
activateCard(r) ==
    /\ At(r, "activateRead")
    /\ IF Card(r).userId \in WithWallet /\ Card(r).batch
       THEN req' = [req EXCEPT ![r] = [@ EXCEPT !.pc = "activateIssuer",
                                        !.todo = {<<req[r].card, Card(r).userId>>}]]
       ELSE Finish(r)
    /\ UNCHANGED <<cards, issuer, held, orderVars>>

\* mutant: the card is saved as ACTIVE without the issuer's activation
ActivateUnchecked(r) ==
    /\ At(r, "activateIssuer")
    /\ Goto(r, "activateInfo")
    /\ UNCHANGED <<cards, issuer, held, orderVars>>

ActivateAtIssuer(r) ==
    /\ At(r, "activateIssuer")
    /\ \E p \in req[r].todo :
        IssuerCall(r, IssuerState(r) = "ordered",
                   [state |-> "active", customer |-> req[r].user, balance |-> p[2]],
                   "activateInfo", "idle")

\* The masked number is fetched before the row is written.
ActivateInfo(r) ==
    /\ At(r, "activateInfo")
    /\ \/ Goto(r, "activateSave")
       \/ "issuer" \in Faults /\ Finish(r)
    /\ UNCHANGED <<cards, issuer, held, orderVars>>

\* mutant: the row takes the issuer's word for the state
ActivateWithIssuerWord(r) ==
    /\ At(r, "activateSave")
    /\ Save(r, [Card(r) EXCEPT !.status = IssuerState(r), !.prosperaCardId = TRUE], "idle")
    /\ UNCHANGED <<issuer, orderVars>>

ActivateSave(r) ==
    /\ At(r, "activateSave")
    /\ Save(r, [Card(r) EXCEPT !.status = "ACTIVE", !.prosperaCardId = TRUE], "idle")
    /\ UNCHANGED <<issuer, orderVars>>

-----------------------------------------------------------------------------
(* Details, CVV, stop, unstop and unlink *)

\* What the service answers from the issuer once the row has its id.
AskIssuer(r, label) ==
    /\ At(r, label)
    /\ IF Card(r).prosperaCardId
       THEN IssuerCall(r, TRUE, issuer[req[r].card], "idle", "idle")
       ELSE Finish(r) /\ UNCHANGED <<cards, issuer, held, orderVars>>

getCardDetailsById(r) == AskIssuer(r, "detailsRead")

\* The CVV of a physical card is read, that of a virtual card replaced.
showCardCvv(r) == AskIssuer(r, "cvvRead")

ReadIssued(r, label, next) ==
    /\ At(r, label)
    /\ IF Card(r).prosperaCardId THEN Goto(r, next) ELSE Finish(r)
    /\ UNCHANGED <<cards, issuer, held, orderVars>>

stopCard(r) ==
    \/ ReadIssued(r, "stopRead", "stopIssuer")
    \/ /\ At(r, "stopIssuer")
       /\ IssuerCall(r, IssuerState(r) \in {"active", "stopped"},
                     [issuer[req[r].card] EXCEPT !.state = "stopped"], "stopSave", "idle")
    \/ /\ At(r, "stopSave")
       /\ Save(r, [Card(r) EXCEPT !.status = "BLOCKED"], "idle")
       /\ UNCHANGED <<issuer, orderVars>>

\* mutant: a refusal of the issuer is ignored
UnstopRefused(r) ==
    \/ ReadIssued(r, "unstopRead", "unstopIssuer")
    \/ /\ At(r, "unstopIssuer")
       /\ IssuerCall(r, IssuerState(r) \in {"active", "stopped"},
                     [issuer[req[r].card] EXCEPT !.state = "active"], "unstopSave", "unstopSave")
    \/ /\ At(r, "unstopSave")
       /\ Save(r, [Card(r) EXCEPT !.status = "ACTIVE"], "idle")
       /\ UNCHANGED <<issuer, orderVars>>

\* "Skipping validation and proceeding directly to unstop"
unstopCard(r) ==
    \/ ReadIssued(r, "unstopRead", "unstopIssuer")
    \/ /\ At(r, "unstopIssuer")
       /\ IssuerCall(r, IssuerState(r) \in {"active", "stopped"},
                     [issuer[req[r].card] EXCEPT !.state = "active"], "unstopSave", "idle")
    \/ /\ At(r, "unstopSave")
       /\ Save(r, [Card(r) EXCEPT !.status = "ACTIVE"], "idle")
       /\ UNCHANGED <<issuer, orderVars>>

UnlinkRead(r, next) ==
    /\ At(r, "unlinkRead")
    /\ IF Card(r).userId # None /\ Card(r).prosperaCardId THEN Goto(r, next) ELSE Finish(r)
    /\ UNCHANGED <<cards, issuer, held, orderVars>>

RetireCard(r, next) ==
    /\ At(r, "unlinkIssuer")
    /\ IssuerCall(r, IssuerState(r) # "retired",
                  [issuer[req[r].card] EXCEPT !.state = "retired"], next, "idle")

UnlinkSave(r, next) ==
    /\ At(r, "unlinkSave")
    /\ Save(r, [Card(r) EXCEPT !.userId = None, !.status = "INACTIVE"], next)
    /\ UNCHANGED <<issuer, orderVars>>

\* mutant: the row is given up before the issuer retired the card
UnlinkFirst(r) == UnlinkRead(r, "unlinkSave") \/ UnlinkSave(r, "unlinkIssuer")
                    \/ RetireCard(r, "idle")

unlinkCard(r) == UnlinkRead(r, "unlinkIssuer") \/ RetireCard(r, "unlinkSave")
                    \/ UnlinkSave(r, "idle")

-----------------------------------------------------------------------------
(* assignCard and createVirtualCard *)

AssignRequest(r, u, c) ==
    /\ At(r, "idle") /\ "assign" \in Operations
    /\ req' = [req EXCEPT ![r] = [IdleRequest EXCEPT !.pc = "assignRead", !.op = "assign",
                                                     !.user = u, !.card = c]]
    /\ UNCHANGED <<cards, issuer, held, orderVars>>

assignCard(r) ==
    \/ /\ At(r, "assignRead")
       /\ IF Card(r).status # "ABSENT" /\ Card(r).userId = None
          THEN Goto(r, "assignSave") ELSE Finish(r)
       /\ UNCHANGED <<cards, issuer, held, orderVars>>
    \/ /\ At(r, "assignSave")
       /\ Save(r, [Card(r) EXCEPT !.userId = req[r].user], "idle")
       /\ UNCHANGED <<issuer, orderVars>>

Fresh == {c \in CardIds : issuer[c].state = "none"}

\* The identifier is random; the issuer makes the card active at once.
createVirtualCard(r, u) ==
    \/ /\ At(r, "idle") /\ "virtual" \in Operations /\ u \in WithWallet
       /\ \E c \in Fresh \ Physical :
            /\ \A s \in Requests : req[s].card # c
            /\ req' = [req EXCEPT ![r] = [IdleRequest EXCEPT !.pc = "virtualIssuer",
                                            !.op = "virtual", !.user = u, !.card = c]]
       /\ UNCHANGED <<cards, issuer, held, orderVars>>
    \/ /\ At(r, "virtualIssuer") /\ req[r].user = u
       /\ issuer' = [issuer EXCEPT ![req[r].card] =
                        [state |-> "active", customer |-> u, balance |-> u]]
       /\ \/ Goto(r, "virtualSave")
          \/ "issuer" \in Faults /\ Finish(r)
       /\ UNCHANGED <<cards, held, orderVars>>
    \/ /\ At(r, "virtualSave") /\ req[r].user = u
       /\ Save(r, [NoRow EXCEPT !.status = "ACTIVE", !.userId = u,
                                !.prosperaCardId = TRUE], "idle")
       /\ UNCHANGED <<issuer, orderVars>>

-----------------------------------------------------------------------------
(* requestPhysicalCard *)

findExistingPhysicalCard(u) ==
    {c \in Physical : cards[c].userId = u /\ cards[c].status \in {"ACTIVE", "INACTIVE"}}

findAvailablePhysicalCards ==
    {c \in Physical : cards[c].userId = None /\ cards[c].status \in {"PENDING", "INACTIVE"}}

requestPhysicalCard(r, u) ==
    /\ At(r, "idle") /\ "request" \in Operations
    /\ findExistingPhysicalCard(u) = {}
    /\ req' = [req EXCEPT ![r] = [IdleRequest EXCEPT !.pc = "available", !.op = "request",
                                                     !.user = u]]
    /\ UNCHANGED <<cards, issuer, held, orderVars>>

\* A random card of the inventory, or a new order when there is none.
PickFromInventory(r) ==
    /\ At(r, "available")
    /\ IF findAvailablePhysicalCards = {}
       THEN req' = [req EXCEPT ![r] = [@ EXCEPT !.pc = "order",
                                                !.todo = {<<None, req[r].user>>}]]
       ELSE \E c \in findAvailablePhysicalCards :
                req' = [req EXCEPT ![r] = [@ EXCEPT !.pc = "take", !.card = c]]
    /\ UNCHANGED <<cards, issuer, held, orderVars>>

TakeFromInventory(r) ==
    /\ At(r, "take")
    /\ Save(r, [Card(r) EXCEPT !.userId = req[r].user], "pickup")
    /\ UNCHANGED <<issuer, orderVars>>

\* The delivery address or the pickup point; nothing reads the row again.
createPickup(r) ==
    /\ At(r, "pickup")
    /\ Finish(r)
    /\ UNCHANGED <<cards, issuer, held, orderVars>>

\* Fresh identifiers: one for a user, or some number for the inventory.
NumberedFor(u) ==
    {P \in SUBSET ((Fresh \cap Physical) \X {u}) :
        P # {} /\ (u # None => \E p \in P : P = {p})}

\* POST /debit/v1/bulkOrderCard.  With a fault the order or its answer is lost, or
\* the answer lacks the reference, which throws.
bulkOrderCard(r) ==
    /\ At(r, "order")
    /\ \/ \E q \in req[r].todo : \E P \in NumberedFor(q[2]) :
            LET made == {p[1] : p \in P} IN
            /\ issuer' = [c \in CardIds |-> IF c \in made
                            THEN [issuer[c] EXCEPT !.state = "ordered"] ELSE issuer[c]]
            /\ orders' = orders \cup {made}
            /\ \/ /\ req' = [req EXCEPT ![r] = [@ EXCEPT !.todo = P, !.pc =
                                IF req[r].op = "noUserScript" THEN "saveAll" ELSE "saveBatch"]]
                  /\ UNCHANGED lost
               \/ "issuer" \in Faults /\ Finish(r) /\ lost' = lost \cup made
       \/ "issuer" \in Faults /\ Finish(r) /\ UNCHANGED <<issuer, orders, lost>>
    /\ UNCHANGED <<cards, held, batches>>

BatchOf(r) == {p[1] : p \in req[r].todo}

\* BulkBatchRepository.create throws for a referenceBatch that is there already, and
\* the cards in `unstored` are then never stored.
createBulkBatch(r, next, unstored) ==
    IF BatchOf(r) \in batches
    THEN Finish(r) /\ lost' = lost \cup unstored /\ UNCHANGED batches
    ELSE batches' = batches \cup {BatchOf(r)} /\ Goto(r, next) /\ UNCHANGED lost

\* mutant: an order whose batch is there already is taken for stored
SaveBatchOnce(r) ==
    /\ At(r, "saveBatch")
    /\ createBulkBatch(r, "saveCards", {})
    /\ UNCHANGED <<cards, issuer, held, orders>>

SaveBatch(r) ==
    /\ At(r, "saveBatch")
    /\ createBulkBatch(r, "saveCards", BatchOf(r))
    /\ UNCHANGED <<cards, issuer, held, orders>>

OrderedRow(u, status) == [NoRow EXCEPT !.status = status, !.userId = u, !.batch = TRUE]

\* Stores the ordered card p[1] for its user p[2]; the handler goes on as `next`.
StoreCard(r, p, status, next) ==
    /\ At(r, "saveCards")
    /\ cards' = [cards EXCEPT ![p[1]] = OrderedRow(p[2], status)]
    /\ held' = held \cup {<<p[2], p[1]>>}
    /\ req' = [req EXCEPT ![r] = next]
    /\ UNCHANGED <<issuer, orderVars>>

createCard(r) ==
    /\ req[r].op = "request"
    /\ \E p \in req[r].todo :
        StoreCard(r, p, "PENDING", [req[r] EXCEPT !.pc = "pickup", !.card = p[1], !.todo = {}])

-----------------------------------------------------------------------------
(* handleBulkOrderCardNotification *)

\* external: the issuer reports a batch, with the ids of the cards it made, and
\* repeats the report while it is refused.
Notification(r, b) ==
    /\ At(r, "idle") /\ "notification" \in Operations
    /\ b \in orders
    /\ req' = [req EXCEPT ![r] = [IdleRequest EXCEPT !.pc = "notify", !.op = "notification",
                                                     !.todo = b \X {None}]]
    /\ UNCHANGED <<cards, issuer, held, orderVars>>

\* "Create or update bulk batch record" only creates.  The ids are then stored card
\* by card, one step here: updateMany skips a card without row, and nothing else
\* depends on the order of the writes.
handleBulkOrderCardNotification(r) ==
    /\ At(r, "notify")
    /\ createBulkBatch(r, "idle", {})
    /\ cards' = [c \in CardIds |->
                    IF BatchOf(r) \notin batches /\ c \in BatchOf(r) /\ cards[c].status # "ABSENT"
                    THEN [cards[c] EXCEPT !.prosperaCardId = TRUE] ELSE cards[c]]
    /\ UNCHANGED <<issuer, held, orders>>

-----------------------------------------------------------------------------
(* GET /cards/status *)

\* The status getCardStatusByUser shows; old: created more than five days ago.
userStatus(c, old) ==
    CASE cards[c].status = "INACTIVE" /\ ~cards[c].prosperaCardId -> "PENDING"
      [] cards[c].status = "PENDING" /\ old -> "INACTIVE"
      [] OTHER -> cards[c].status

-----------------------------------------------------------------------------
(* Operator scripts *)

StartScript(r, op, label, todo) ==
    /\ At(r, "idle") /\ op \in Operations
    /\ req' = [req EXCEPT ![r] = [IdleRequest EXCEPT !.pc = label, !.op = op, !.todo = todo]]
    /\ UNCHANGED <<cards, issuer, held, orderVars>>

requestBulkCardsNoUser(r) == StartScript(r, "noUserScript", "order", {<<None, None>>})

\* The batch and its cards are stored in one transaction.
SaveBulkCards(r) ==
    /\ At(r, "saveAll")
    /\ createBulkBatch(r, "idle", BatchOf(r))
    /\ cards' = [c \in CardIds |-> IF c \in BatchOf(r) /\ BatchOf(r) \notin batches
                                   THEN OrderedRow(None, "INACTIVE") ELSE cards[c]]
    /\ UNCHANGED <<issuer, held, orders>>

\* The query is for user 9, who needs a backoffice profile and no physical card.
requestPhysicalCardsForUsers(r) ==
    /\ ScriptUser \in WithProfile /\ \A c \in Physical : cards[c].userId # ScriptUser
    /\ StartScript(r, "usersScript", "order", {<<None, ScriptUser>>})

SaveCardsForUsers(r) ==
    /\ req[r].op = "usersScript"
    /\ \E p \in req[r].todo : StoreCard(r, p, "INACTIVE", IdleRequest)

\* Every inactive card that came with a batch, with the owner it has now.
activatePhysicalCards(r) ==
    StartScript(r, "activateScript", "scriptNext",
        {<<c, cards[c].userId>> : c \in {d \in Physical : cards[d].status = "INACTIVE"
                                                          /\ cards[d].batch}})

\* A card without owner raises a TypeError that is caught for the card, and one whose
\* owner has no profile is skipped.
ScriptNext(r) ==
    /\ At(r, "scriptNext")
    /\ \/ req[r].todo = {} /\ Finish(r)
       \/ \E p \in req[r].todo :
            req' = [req EXCEPT ![r] = IF p[2] \in WithProfile
                        THEN [req[r] EXCEPT !.pc = "scriptIssuer", !.card = p[1],
                                            !.user = p[2], !.todo = @ \ {p}]
                        ELSE [req[r] EXCEPT !.todo = @ \ {p}]]
    /\ UNCHANGED <<cards, issuer, held, orderVars>>

\* mutant: every card goes to wallet 1
ScriptActivateOnOne(r) ==
    /\ At(r, "scriptIssuer")
    /\ IssuerCall(r, IssuerState(r) = "ordered",
                  [state |-> "active",
                   customer |-> IF req[r].user \in WithCustomer THEN req[r].user ELSE None,
                   balance |-> DefaultWallet],
                  "scriptSave", "scriptNext")

\* The id of the user stands in for a missing external_customer_id, and is no
\* customer_id of the issuer's, and wallet 1 for a missing ewallet_id.
ScriptActivate(r) ==
    /\ At(r, "scriptIssuer")
    /\ IssuerCall(r, IssuerState(r) = "ordered",
                  [state |-> "active",
                   customer |-> IF req[r].user \in WithCustomer THEN req[r].user ELSE None,
                   balance |-> IF req[r].user \in WithWallet THEN req[r].user ELSE DefaultWallet],
                  "scriptSave", "scriptNext")

\* The keys the issuer may answer with go to BackofficeAuthState, see Onboarding.
\* A failed write is caught for the card.
ScriptSave(r) ==
    /\ At(r, "scriptSave")
    /\ \/ Save(r, [Card(r) EXCEPT !.status = "ACTIVE", !.prosperaCardId = TRUE], "scriptNext")
       \/ "abort" \in Faults /\ Goto(r, "scriptNext") /\ UNCHANGED <<cards, held>>
    /\ UNCHANGED <<issuer, orderVars>>

-----------------------------------------------------------------------------
\* A failed call of the database ends a handler, a crash all of them one by one.
Abort(r) ==
    /\ "abort" \in Faults
    /\ ~At(r, "idle")
    /\ Finish(r)
    /\ lost' = IF req[r].pc \in Storing THEN lost \cup BatchOf(r) ELSE lost
    /\ UNCHANGED <<cards, issuer, held, batches, orders>>

Handler(r) ==
    \/ validateCardOwnership(r) \/ validateCardPin(r)
    \/ activateCard(r) \/ ActivateAtIssuer(r) \/ ActivateInfo(r) \/ ActivateSave(r)
    \/ getCardDetailsById(r) \/ showCardCvv(r) \/ stopCard(r) \/ unstopCard(r)
    \/ unlinkCard(r) \/ assignCard(r)
    \/ PickFromInventory(r) \/ TakeFromInventory(r) \/ createPickup(r)
    \/ bulkOrderCard(r) \/ SaveBatch(r) \/ createCard(r)
    \/ handleBulkOrderCardNotification(r) \/ SaveBulkCards(r) \/ SaveCardsForUsers(r)
    \/ ScriptNext(r) \/ ScriptActivate(r) \/ ScriptSave(r)

Next ==
    \E r \in Requests :
        \/ \E op \in CardOperations, u \in Users, c \in CardIds : CardRequest(r, op, u, c)
        \/ \E u \in Users, c \in CardIds : AssignRequest(r, u, c)
        \/ \E u \in Users : createVirtualCard(r, u) \/ requestPhysicalCard(r, u)
        \/ \E b \in SUBSET CardIds : Notification(r, b)
        \/ requestBulkCardsNoUser(r) \/ requestPhysicalCardsForUsers(r)
        \/ activatePhysicalCards(r)
        \/ Handler(r) \/ Abort(r)

Spec == Init /\ [][Next]_vars

-----------------------------------------------------------------------------
(* Properties *)

\* Whatever requests, scripts and lost answers interleave, the issuer is asked to
\* serve a card (activate, show, stop, retire) only for a user who held it: the
\* middleware chain of card.routes.ts and the owner the script reads.
OnlyHoldersServed ==
    \A r \in Requests :
        req[r].pc \in {"activateIssuer", "stopIssuer", "unstopIssuer", "unlinkIssuer",
                       "detailsRead", "cvvRead", "scriptIssuer"}
            => <<req[r].user, req[r].card>> \in held

\* A card is shown as ACTIVE or BLOCKED only if the issuer activated it once and
\* its id is stored, although rows are written after awaits by several handlers.
ActiveOnlyIfActivated ==
    \A c \in CardIds : cards[c].status \in {"ACTIVE", "BLOCKED"} =>
        cards[c].prosperaCardId /\ issuer[c].state \in {"active", "stopped", "retired"}

\* unlinkCard gives a card up only after the issuer retired it, also when other
\* handlers write the row in between.
UnlinkedIsRetired ==
    [][\A c \in CardIds : cards[c].userId # None /\ cards'[c].userId = None
            => issuer[c].state = "retired"]_vars

\* A physical card is activated for a customer, and spends from a wallet, of someone who
\* held it, although the wallet is taken from the row as read after the ownership
\* check and the customer from the caller; and only the script, for a user without
\* wallet, puts a card on wallet 1.
SpendsForHolder ==
    \A c \in Physical :
        /\ {issuer[c].customer, issuer[c].balance} \cap Users \subseteq {u \in Users : <<u, c>> \in held}
        /\ issuer[c].balance = DefaultWallet => issuer[c].customer \notin WithWallet

\* Every card that was ordered from the issuer has a row, or its handler is about to store
\* it, or ended with an error; also when the issuer's notification creates the batch
\* record first, which requestPhysicalCard and the scripts then fail to create.
OrderedCardsRecorded ==
    \A c \in Physical : issuer[c].state # "none" =>
        \/ cards[c].status # "ABSENT"
        \/ c \in lost
        \/ \E r \in Requests : req[r].pc \in Storing /\ c \in BatchOf(r)

\* "You already have a physical card requested or active": a user never has two.
OnePhysicalCard ==
    \A u \in Users : \A c, d \in Physical :
        cards[c].userId = u /\ cards[d].userId = u => c = d

\* "Create or update bulk batch record": a notification stores the card ids of its
\* batch (handleBulkOrderCardNotification).
NotificationStored ==
    [][\A r \in Requests : At(r, "notify") /\ ~At(r, "notify")' =>
            \A c \in BatchOf(r) : cards[c].status # "ABSENT" => cards'[c].prosperaCardId]_vars

\* "Physical card requested successfully": the card a user is given can still be
\* activated at the issuer.
GivenCardUsable == \A r \in Requests : At(r, "pickup") => IssuerState(r) # "retired"

\* "PENDING: Tarjeta solicitada, no entregada (INACTIVE + prosperaCardId null)": a
\* request is answered PENDING, and the status list in the same answer says so too.
AnsweredAsShown ==
    \A r \in Requests : At(r, "pickup") => userStatus(req[r].card, FALSE) = "PENDING"
=============================================================================
