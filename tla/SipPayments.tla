----------------------------- MODULE SipPayments -----------------------------
(***************************************************************************)
(* QR payments through the SIP/BMSC bank: BmscPaymentService and           *)
(* BmscPaymentRepository.  A request for a QR and a callback of the bank    *)
(* are handlers that interleave at every awaited call; no lock is taken.   *)
(* The bank, which shows a QR to its customers and reports the payment of  *)
(* one until it gets an acknowledgement, and the backoffice ledger are     *)
(* external.                                                               *)
(***************************************************************************)
EXTENDS Naturals

CONSTANTS
    Orders,     \* order ids, the `alias` of the bank; bounds the rows created
    Keys,       \* idempotency keys: user, amount, currency and UTC minute
    Requests,   \* HTTP requests being served at the same time
    Onboarded,  \* orders whose user has complete backoffice data
    Faults,     \* which of FaultKinds may happen
    None        \* undefined / null

FaultKinds == {"bank", "backoffice", "db", "notify", "crash"}

ASSUME ConstantsAssumption ==
    /\ Onboarded \subseteq Orders
    /\ Faults \subseteq FaultKinds
    /\ None \notin Orders \cup Keys

VARIABLES
    payments,      \* the SIP rows of the table `payments`
    transactions,  \* TOPUP rows of `Transactions` per prosperaReference
    qrs,           \* external: orders the bank has a QR for
    paid,          \* external: what the bank was paid for an order
    undelivered,   \* external: paid orders whose callback is not acknowledged
    ledger,        \* external: externalTransactionIds the backoffice has seen
    credits,       \* external: how often the wallet was credited per order
    unchecked,     \* history: orders accepted on a callback that left out what differs
    req            \* the requests in flight, with their local variables

vars == <<payments, transactions, qrs, paid, undelivered, ledger, credits, unchecked, req>>

-----------------------------------------------------------------------------
QrPC == {"create", "generate", "saveQr"}
CallbackPC == {"fail", "readPayload", "complete", "findTopup", "createTopup",
               "topup", "record", "merge", "notify"}

\* qr: response_payload holds the image of the QR; topup: its topup marker
Row == [key : Keys \cup {None},
        status : {"ABSENT", "PENDING", "COMPLETED", "FAILED"},
        qr : BOOLEAN,
        topup : BOOLEAN]
Request == [pc : {"idle"} \cup QrPC \cup CallbackPC,
            order : Orders \cup {None},
            key : Keys \cup {None},
            base : [qr : BOOLEAN, topup : BOOLEAN]]  \* payload read by the merge

TypeOK ==
    /\ payments \in [Orders -> Row]
    /\ transactions \in [Orders -> Nat]
    /\ qrs \subseteq Orders
    /\ paid \in [Orders -> {"no", "match", "mismatch"}]
    /\ undelivered \subseteq Orders
    /\ ledger \subseteq Keys
    /\ credits \in [Orders -> Nat]
    /\ unchecked \subseteq Orders
    /\ req \in [Requests -> Request]

NoPayload == [qr |-> FALSE, topup |-> FALSE]
IdleRequest == [pc |-> "idle", order |-> None, key |-> None, base |-> NoPayload]

Init ==
    /\ payments = [o \in Orders |-> [key |-> None, status |-> "ABSENT",
                                     qr |-> FALSE, topup |-> FALSE]]
    /\ transactions = [o \in Orders |-> 0]
    /\ qrs = {}
    /\ paid = [o \in Orders |-> "no"]
    /\ undelivered = {}
    /\ ledger = {}
    /\ credits = [o \in Orders |-> 0]
    /\ unchecked = {}
    /\ req = [r \in Requests |-> IdleRequest]

At(r, label) == req[r].pc = label

Goto(r, label) == req' = [req EXCEPT ![r] = [@ EXCEPT !.pc = label]]

Finish(r) == req' = [req EXCEPT ![r] = IdleRequest]

-----------------------------------------------------------------------------
(* createSipQr *)

KeyUsed(k) == \E o \in Orders : payments[o].key = k

\* A known key is answered from the stored row and changes nothing.
createSipQr(r, k) ==
    /\ At(r, "idle")
    /\ ~KeyUsed(k)
    /\ req' = [req EXCEPT ![r] = [IdleRequest EXCEPT !.pc = "create", !.key = k]]
    /\ UNCHANGED <<payments, transactions, qrs, paid, unchecked, undelivered, ledger, credits>>

\* mutant: no unique index on idempotency_key
CreateWithoutUniqueKey(r) ==
    /\ At(r, "create")
    /\ \E o \in Orders :
        /\ payments[o].status = "ABSENT"
        /\ payments' = [payments EXCEPT ![o] = [key |-> req[r].key, status |-> "PENDING",
                                                qr |-> FALSE, topup |-> FALSE]]
        /\ req' = [req EXCEPT ![r] = [IdleRequest EXCEPT !.pc = "generate", !.order = o]]
    /\ UNCHANGED <<transactions, qrs, paid, unchecked, undelivered, ledger, credits>>

\* The row is inserted under a fresh order id; the unique index on
\* idempotency_key rejects the slower of two requests with the same key.
createSipPayment(r) ==
    /\ At(r, "create")
    /\ IF KeyUsed(req[r].key)
       THEN Finish(r) /\ UNCHANGED payments
       ELSE \E o \in Orders :
            /\ payments[o].status = "ABSENT"
            /\ payments' = [payments EXCEPT ![o] = [key |-> req[r].key, status |-> "PENDING",
                                                    qr |-> FALSE, topup |-> FALSE]]
            /\ req' = [req EXCEPT ![r] = [IdleRequest EXCEPT !.pc = "generate", !.order = o]]
    /\ UNCHANGED <<transactions, qrs, paid, unchecked, undelivered, ledger, credits>>

\* With a bank fault the QR is made and the answer is lost.
generateQr(r) ==
    /\ At(r, "generate")
    /\ qrs' = qrs \cup {req[r].order}
    /\ \/ Goto(r, "saveQr")
       \/ "bank" \in Faults /\ Finish(r)
    /\ UNCHANGED <<payments, transactions, paid, unchecked, undelivered, ledger, credits>>

\* response_payload becomes the bank's answer; the QR goes to the customer.
saveSipQrResponse(r) ==
    /\ At(r, "saveQr")
    /\ payments' = [payments EXCEPT ![req[r].order] =
                        [@ EXCEPT !.qr = TRUE, !.topup = FALSE]]
    /\ Finish(r)
    /\ UNCHANGED <<transactions, qrs, paid, unchecked, undelivered, ledger, credits>>

-----------------------------------------------------------------------------
(* handleSipCallback *)

\* mutant: amount and currency are not compared
CallbackUnvalidated(r, o, told) ==
    /\ At(r, "idle")
    /\ paid[o] # "no"
    /\ payments[o].status # "ABSENT"
    /\ IF payments[o].status = "COMPLETED"
       THEN undelivered' = undelivered \ {o} /\ UNCHANGED req
       ELSE /\ req' = [req EXCEPT ![r] =
                        [IdleRequest EXCEPT !.order = o, !.pc = "readPayload"]]
            /\ UNCHANGED undelivered
    /\ UNCHANGED <<payments, transactions, qrs, paid, unchecked, ledger, credits>>

\* A COMPLETED payment is acknowledged at once.  Otherwise amount and currency, when
\* the bank tells them (`told`; both are optional), decide between markFailed and
\* completion.
handleSipCallback(r, o, told) ==
    /\ At(r, "idle")
    /\ paid[o] # "no"
    /\ payments[o].status # "ABSENT"
    /\ IF payments[o].status = "COMPLETED"
       THEN undelivered' = undelivered \ {o} /\ UNCHANGED <<req, unchecked>>
       ELSE LET differs == paid[o] = "mismatch" IN
            /\ req' = [req EXCEPT ![r] =
                        [IdleRequest EXCEPT !.order = o,
                            !.pc = IF differs /\ told THEN "fail" ELSE "readPayload"]]
            /\ unchecked' = unchecked \cup {p \in {o} : differs /\ ~told}
            /\ UNCHANGED undelivered
    /\ UNCHANGED <<payments, transactions, qrs, paid, ledger, credits>>

\* The payload is replaced by the reason; the callback is refused.
markFailed(r) ==
    /\ At(r, "fail")
    /\ payments' = [payments EXCEPT ![req[r].order] =
                        [@ EXCEPT !.status = "FAILED", !.qr = FALSE, !.topup = FALSE]]
    /\ Finish(r)
    /\ UNCHANGED <<transactions, qrs, paid, unchecked, undelivered, ledger, credits>>

\* Either merge reads the payload and writes it back in a later statement.
ReadPayload(r) ==
    /\ req[r].pc \in {"readPayload", "record"}
    /\ req' = [req EXCEPT ![r] =
                [@ EXCEPT !.pc = IF At(r, "record") THEN "merge" ELSE "complete",
                          !.base = [qr |-> payments[req[r].order].qr,
                                    topup |-> payments[req[r].order].topup]]]
    /\ UNCHANGED <<payments, transactions, qrs, paid, unchecked, undelivered, ledger, credits>>

\* What completing a payment writes, and where the handler goes on.
Complete(r, payload, next) ==
    /\ At(r, "complete")
    /\ payments' = [payments EXCEPT ![req[r].order] =
                        [@ EXCEPT !.status = "COMPLETED", !.qr = payload.qr,
                                  !.topup = payload.topup]]
    /\ req' = [req EXCEPT ![r] = [@ EXCEPT !.pc = next, !.base = NoPayload]]
    /\ UNCHANGED <<transactions, qrs, paid, unchecked, undelivered, ledger, credits>>

\* mutants: the callback replaces the payload; the topup marker is stored with the
\* callback; the transaction is left out
CompleteWithoutMerge(r) == Complete(r, NoPayload, "findTopup")
CompleteMarksTopup(r) == Complete(r, [req[r].base EXCEPT !.topup = TRUE], "findTopup")
CompleteWithoutTransaction(r) == Complete(r, req[r].base, "topup")

\* The callback is merged into the payload read before.
completeSipPayment(r) == Complete(r, req[r].base, "findTopup")

\* After the transaction is found or created the payment is read again (what is used
\* of it never changes) and the topup request is built, which
\* throws for a user without complete backoffice data.
AfterTransaction(r) ==
    IF req[r].order \in Onboarded THEN Goto(r, "topup") ELSE Finish(r)

createTopupIfNotExists(r) ==
    /\ At(r, "findTopup")
    /\ IF transactions[req[r].order] > 0 THEN AfterTransaction(r) ELSE Goto(r, "createTopup")
    /\ UNCHANGED <<payments, transactions, qrs, paid, unchecked, undelivered, ledger, credits>>

CreateTransaction(r) ==
    /\ At(r, "createTopup")
    /\ transactions' = [transactions EXCEPT ![req[r].order] = @ + 1]
    /\ AfterTransaction(r)
    /\ UNCHANGED <<payments, qrs, paid, unchecked, undelivered, ledger, credits>>

\* mutant: a repeated topup is sent under a key of its own
FreshTransactionId(r) == IF payments[req[r].order].key \in ledger
                         THEN req[r].order ELSE payments[req[r].order].key

\* The key the backoffice recognises a repeated topup by.
externalTransactionId(r) == payments[req[r].order].key

\* external: a new externalTransactionId credits the wallet
TopUpCredits(r) ==
    /\ At(r, "topup")
    /\ externalTransactionId(r) \notin ledger
    /\ ledger' = ledger \cup {externalTransactionId(r)}
    /\ credits' = [credits EXCEPT ![req[r].order] = @ + 1]
    /\ Goto(r, "record")
    /\ UNCHANGED <<payments, transactions, qrs, paid, unchecked, undelivered>>

\* external: a known one is answered 409; here no handler catches it
TopUpConflict(r) ==
    /\ At(r, "topup")
    /\ externalTransactionId(r) \in ledger
    /\ Finish(r)
    /\ UNCHANGED <<payments, transactions, qrs, paid, unchecked, undelivered, ledger, credits>>

\* Any other error: the wallet was not credited, or it was and the answer is lost.
TopUpFails(r) ==
    /\ At(r, "topup")
    /\ "backoffice" \in Faults
    /\ \/ UNCHANGED <<ledger, credits>>
       \/ /\ externalTransactionId(r) \notin ledger
          /\ ledger' = ledger \cup {externalTransactionId(r)}
          /\ credits' = [credits EXCEPT ![req[r].order] = @ + 1]
    /\ Finish(r)
    /\ UNCHANGED <<payments, transactions, qrs, paid, unchecked, undelivered>>

\* mergeWebhookProcessingResult: the marker is spread over the payload read before.
RecordTopup(r) ==
    /\ At(r, "merge")
    /\ payments' = [payments EXCEPT ![req[r].order] =
                        [@ EXCEPT !.status = "COMPLETED", !.qr = req[r].base.qr,
                                  !.topup = TRUE]]
    /\ req' = [req EXCEPT ![r] = [@ EXCEPT !.pc = "notify", !.base = NoPayload]]
    /\ UNCHANGED <<transactions, qrs, paid, unchecked, undelivered, ledger, credits>>

\* The push notification is sent and the callback acknowledged.
Acknowledge(r) ==
    /\ At(r, "notify")
    /\ undelivered' = undelivered \ {req[r].order}
    /\ Finish(r)
    /\ UNCHANGED <<payments, transactions, qrs, paid, unchecked, ledger, credits>>

\* A failed call ends either handler with nothing further written (at "topup" it is
\* the second read of the payment).
RequestThrow(r) ==
    /\ \/ "db" \in Faults /\ req[r].pc \in {"create", "saveQr", "fail", "readPayload",
                              "complete", "findTopup", "createTopup", "topup", "record",
                              "merge"}
       \/ "bank" \in Faults /\ At(r, "generate")
       \/ "notify" \in Faults /\ At(r, "notify")
    /\ Finish(r)
    /\ UNCHANGED <<payments, transactions, qrs, paid, unchecked, undelivered, ledger, credits>>

-----------------------------------------------------------------------------
(* Environment *)

\* external: a customer pays a QR they were shown, once (unicoUso)
CustomerPays(o) ==
    /\ payments[o].qr
    /\ paid[o] = "no"
    /\ \E a \in {"match", "mismatch"} : paid' = [paid EXCEPT ![o] = a]
    /\ undelivered' = undelivered \cup {o}
    /\ UNCHANGED <<payments, transactions, qrs, ledger, credits, unchecked, req>>

Crash ==
    /\ "crash" \in Faults
    /\ \E r \in Requests : ~At(r, "idle")
    /\ req' = [r \in Requests |-> IdleRequest]
    /\ UNCHANGED <<payments, transactions, qrs, paid, unchecked, undelivered, ledger, credits>>

-----------------------------------------------------------------------------
Handler(r) ==
    \/ createSipPayment(r) \/ generateQr(r) \/ saveSipQrResponse(r)
    \/ markFailed(r) \/ ReadPayload(r) \/ completeSipPayment(r)
    \/ createTopupIfNotExists(r) \/ CreateTransaction(r)
    \/ TopUpCredits(r) \/ TopUpConflict(r) \/ RecordTopup(r) \/ Acknowledge(r)

Next ==
    \/ \E r \in Requests :
        \/ \E k \in Keys : createSipQr(r, k)
        \/ \E o \in Orders, told \in BOOLEAN : handleSipCallback(r, o, told)
        \/ Handler(r) \/ TopUpFails(r) \/ RequestThrow(r)
    \/ \E o \in Orders : CustomerPays(o)
    \/ Crash

Spec == Init /\ [][Next]_vars

-----------------------------------------------------------------------------
(* Properties *)

\* Refinement: whatever callbacks, duplicates, lost answers and crashes
\* interleave, the wallet is credited at most once per order and only for an order
\* the bank was paid in full, or paid otherwise and reported without the amount or
\* currency that differs (handleSipCallback and topUp).
Crediting == INSTANCE WalletCrediting WITH
                Payments <- Orders,
                paid <- {o \in Orders : paid[o] = "match"} \cup unchecked, credits <- credits
CreditedOnceAndOnlyIfPaid == Crediting!Spec

\* "preventing duplicate QR records from retries or double-clicks": the bank
\* never has two QRs for one idempotency key, however requests for it interleave.
NoDuplicateQr ==
    \A o1, o2 \in qrs : payments[o1].key = payments[o2].key => o1 = o2

\* A payment whose payload says topup COMPLETED was credited, although the payload
\* is read and written back by callbacks that run at the same time.
TopupMarkerSound == \A o \in Orders : payments[o].topup => credits[o] > 0

\* Money reaches the wallet only after its TOPUP transaction was recorded, also
\* when handlers die half way and callbacks are repeated.
TransactionBeforeCredit ==
    \A o \in Orders : credits[o] > 0 => transactions[o] > 0

\* The stored QR survives every interleaving of merges, so that a repeated
\* createSipQr can answer from the row of a paid order.
QrKept == \A o \in Orders : paid[o] = "match" => payments[o].qr

\* "idempotent by prosperaReference": createTopupIfNotExists leaves one TOPUP
\* transaction per reference.
OneTransactionPerReference == \A o \in Orders : transactions[o] <= 1

\* "payment already completed, acknowledge without re-processing": the bank stops
\* repeating a callback only if the payment was credited or is being credited.
NoCreditForgotten ==
    \A o \in Orders : paid[o] = "match" /\ credits[o] = 0 =>
        o \in undelivered \/ \E r \in Requests : req[r].order = o

\* "Persist topup result into payment.response_payload for traceability": a topup
\* marker that handleSipCallback stored stays.
TopupRecordKept == [][\A o \in Orders : payments[o].topup => payments'[o].topup]_vars
=============================================================================
