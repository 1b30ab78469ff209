---------------------------- MODULE ClipPayments ----------------------------
(***************************************************************************)
(* Card payments through the Clip provider: PaymentService,                *)
(* PaymentRepository and the helpers they use.  The server is one Node     *)
(* process: a handler runs alone between two awaits, so every awaited call *)
(* is one action here and any other request may run between two of them.   *)
(* The values a handler read before an await are kept in its record        *)
(* req[r], where they go stale exactly as the local variables of the code  *)
(* do.  The Clip provider, the MySQL named locks and the backoffice wallet *)
(* ledger are external and modelled from how the code uses them.           *)
(***************************************************************************)
EXTENDS Naturals, FiniteSets

CONSTANTS
    Payments,      \* primary keys of the table `payments`
    Charges,       \* provider payment ids; bounds the charges that are made
    Requests,      \* HTTP requests being served at the same time
    Sessions,      \* MySQL connections of the Prisma pool
    Onboarded,     \* payments whose user has complete backoffice data
    Faults,        \* which of FaultKinds may happen
    MaxLockDepth,  \* bound: a connection that has nested so many GET_LOCKs of
                   \* one name gets no new one
    None           \* undefined / null

FaultKinds == {"provider", "backoffice", "db", "notify", "crash"}

ASSUME ConstantsAssumption ==
    /\ Onboarded \subseteq Payments
    /\ Faults \subseteq FaultKinds
    /\ MaxLockDepth \in Nat
    /\ None \notin Payments \cup Charges \cup Sessions
    /\ Payments \cap Charges = {}

VARIABLES
    payments,      \* the table: status, provider_payment_id and the status of
                   \* the key `topup` of the JSON column response_payload
    charges,       \* external: the provider's payments
    undelivered,   \* external: charges whose approval is still to be delivered,
                   \* i.e. the webhook telling of it has had no 2xx answer yet
    ledger,        \* external: externalTransactionIds the backoffice has seen
    credits,       \* external: how often the wallet was credited per payment
    lock,          \* external: MySQL named lock per idempotency key
    req            \* the requests in flight, with their local variables

vars == <<payments, charges, undelivered, ledger, credits, lock, req>>

-----------------------------------------------------------------------------
PaymentStatus == {"PENDING", "PROCESSING", "COMPLETED", "FAILED", "CANCELLED"}
TopupStatus == {"NONE", "COMPLETED", "FAILED"}
ProviderStatus == {"pending", "approved", "rejected", "cancelled", "refunded"}
Outcome == {"none", "credited", "conflict", "failed"}

ProcessPC == {"reset", "post", "store"}
VerifyPC == {"get", "save"}
LockedPC == {"reread", "confirm", "readPayload", "writePayload",
             "topup", "record", "notify", "release"}
PC == {"idle", "lock"} \cup ProcessPC \cup VerifyPC \cup LockedPC

Row == [status : PaymentStatus \cup {"ABSENT"},
        provider_payment_id : Charges \cup {None},
        topup : TopupStatus]
Charge == [payment : Payments \cup {None}, status : ProviderStatus \cup {"none"}]
Lock == [owner : Sessions \cup {None}, depth : Nat]
Request == [pc : PC,
            payment : Payments \cup {None},
            charge : Charges \cup {None},
            session : Sessions \cup {None}, \* the connection GET_LOCK runs on
            approval : BOOLEAN,         \* the webhook that tells of an approval
            seen : ProviderStatus \cup {"none"}, \* status in the provider's answer
            stale : TopupStatus,        \* topup status in lockedPayment
            base : TopupStatus,         \* topup status in the payload the merge read
            outcome : Outcome,          \* how topUp ended
            ok : BOOLEAN]               \* will be answered with 2xx

TypeOK ==
    /\ payments \in [Payments -> Row]
    /\ charges \in [Charges -> Charge]
    /\ undelivered \subseteq Charges
    /\ ledger \subseteq Payments \cup Charges
    /\ credits \in [Payments -> Nat]
    /\ lock \in [Payments -> Lock]
    /\ req \in [Requests -> Request]

IdleRequest == [pc |-> "idle", payment |-> None, charge |-> None,
                session |-> None, approval |-> FALSE, seen |-> "none", stale |-> "NONE",
                base |-> "NONE", outcome |-> "none", ok |-> FALSE]

FreeLock == [owner |-> None, depth |-> 0]

Init ==
    /\ payments = [p \in Payments |-> [status |-> "ABSENT",
                                       provider_payment_id |-> None,
                                       topup |-> "NONE"]]
    /\ charges = [c \in Charges |-> [payment |-> None, status |-> "none"]]
    /\ undelivered = {}
    /\ ledger = {}
    /\ credits = [p \in Payments |-> 0]
    /\ lock = [p \in Payments |-> FreeLock]
    /\ req = [r \in Requests |-> IdleRequest]

-----------------------------------------------------------------------------
(* Status mappings *)

\* mutant: statuses without a case are passed through
MapUnknownStatusThrough(s) ==
    CASE s = "approved"  -> "COMPLETED"
      [] s = "pending"   -> "PROCESSING"
      [] s = "rejected"  -> "FAILED"
      [] s = "cancelled" -> "CANCELLED"
      [] OTHER           -> s

\* mutant: an authorization that is still pending counts as paid
MapPendingToCompleted(s) ==
    CASE s \in {"approved", "pending"} -> "COMPLETED"
      [] s = "rejected"  -> "FAILED"
      [] s = "cancelled" -> "CANCELLED"
      [] OTHER           -> "PENDING"

\* "authorized" and "in_process" behave as "pending"; "refunded" has no case
\* of its own in the code and falls into the default.
mapClipStatusToInternal(s) ==
    CASE s = "approved"  -> "COMPLETED"
      [] s = "pending"   -> "PROCESSING"
      [] s = "rejected"  -> "FAILED"
      [] s = "cancelled" -> "CANCELLED"
      [] OTHER           -> "PENDING"

mapClipStatusBeforeWebhook(s) ==
    IF mapClipStatusToInternal(s) = "COMPLETED"
    THEN "PROCESSING"
    ELSE mapClipStatusToInternal(s)

(* Repository *)

\* Both JSON columns are rewritten by every call, so the topup marker kept in
\* response_payload does not survive one.  An undefined provider payment id
\* leaves the column alone.
updatePaymentStatus(p, s, c) ==
    payments' = [payments EXCEPT ![p] =
        [status |-> s,
         provider_payment_id |-> IF c = None THEN @.provider_payment_id ELSE c,
         topup |-> "NONE"]]

\* The writing half of the merge: the payload read earlier is written back
\* with the new keys spread over it.
mergeWebhookProcessingResult(p, s, t) ==
    payments' = [payments EXCEPT ![p] = [@ EXCEPT !.status = s, !.topup = t]]

(* Requests *)

At(r, label) == req[r].pc = label

Goto(r, label) == req' = [req EXCEPT ![r] = [@ EXCEPT !.pc = label]]

Finish(r) == req' = [req EXCEPT ![r] = IdleRequest]

\* return or throw from inside the locked section: `finally` releases the lock
Left(x, succeeded) ==
    [pc |-> "release", payment |-> x.payment, charge |-> x.charge, session |-> None,
     approval |-> x.approval, seen |-> "none", stale |-> "NONE", base |-> "NONE",
     outcome |-> "none", ok |-> succeeded]

Leave(r, succeeded) == req' = [req EXCEPT ![r] = Left(@, succeeded)]

-----------------------------------------------------------------------------
(* createPayment *)

createPayment(p) ==
    /\ payments[p].status = "ABSENT"
    /\ payments' = [payments EXCEPT ![p] = [@ EXCEPT !.status = "PENDING"]]
    /\ UNCHANGED <<charges, undelivered, ledger, credits, lock, req>>

(* processPayment *)

\* Bound: a request is let in only if a provider payment id is left for it.
ChargeLeft ==
    Cardinality({q \in Requests : req[q].pc \in {"reset", "post"}})
        < Cardinality({c \in Charges : charges[c].status = "none"})

\* Any status but PENDING is refused with a 400 and changes nothing.
processPayment(r, p) ==
    /\ At(r, "idle")
    /\ ChargeLeft
    /\ payments[p].status = "PENDING"
    /\ req' = [req EXCEPT ![r] = [IdleRequest EXCEPT !.pc = "reset", !.payment = p]]
    /\ UNCHANGED <<payments, charges, undelivered, ledger, credits, lock>>

ProcessReset(r) ==
    /\ At(r, "reset")
    /\ updatePaymentStatus(req[r].payment, "PENDING", None)
    /\ Goto(r, "post")
    /\ UNCHANGED <<charges, undelivered, ledger, credits, lock>>

\* The provider makes a new charge for every POST: the request carries neither
\* the idempotency key nor any other reference to the payment.  With a provider
\* fault the charge is made and the answer is lost.
ProcessPost(r) ==
    /\ At(r, "post")
    /\ \E c \in Charges, s \in {"pending", "approved", "rejected"} :
        /\ charges[c].status = "none"
        /\ charges' = [charges EXCEPT ![c] = [payment |-> req[r].payment, status |-> s]]
        /\ undelivered' = IF s = "approved" THEN undelivered \cup {c} ELSE undelivered
        /\ \/ req' = [req EXCEPT ![r] =
                        [@ EXCEPT !.pc = "store", !.charge = c, !.seen = s]]
           \/ /\ "provider" \in Faults
              /\ Finish(r)
    /\ UNCHANGED <<payments, ledger, credits, lock>>

ProcessStore(r) ==
    /\ At(r, "store")
    /\ updatePaymentStatus(req[r].payment,
                           mapClipStatusBeforeWebhook(req[r].seen),
                           req[r].charge)
    /\ Finish(r)
    /\ UNCHANGED <<charges, undelivered, ledger, credits, lock>>

(* verifyPaymentStatus *)

verifyPaymentStatus(r, p) ==
    /\ At(r, "idle")
    /\ payments[p].provider_payment_id # None
    /\ req' = [req EXCEPT ![r] =
                [IdleRequest EXCEPT !.pc = "get", !.payment = p,
                                    !.charge = payments[p].provider_payment_id]]
    /\ UNCHANGED <<payments, charges, undelivered, ledger, credits, lock>>

VerifyGet(r) ==
    /\ At(r, "get")
    /\ req' = [req EXCEPT ![r] =
                [@ EXCEPT !.pc = "save", !.seen = charges[req[r].charge].status]]
    /\ UNCHANGED <<payments, charges, undelivered, ledger, credits, lock>>

VerifySave(r) ==
    /\ At(r, "save")
    /\ updatePaymentStatus(req[r].payment,
                           mapClipStatusBeforeWebhook(req[r].seen),
                           req[r].charge)
    /\ Finish(r)
    /\ UNCHANGED <<charges, undelivered, ledger, credits, lock>>

\* A failed provider or database call ends processPayment or
\* verifyPaymentStatus with nothing further written.
RequestThrow(r) ==
    /\ req[r].pc \in ProcessPC \cup VerifyPC
    /\ \/ "db" \in Faults /\ req[r].pc \in {"reset", "store", "save"}
       \/ "provider" \in Faults /\ req[r].pc \in {"post", "get"}
    /\ Finish(r)
    /\ UNCHANGED <<payments, charges, undelivered, ledger, credits, lock>>

-----------------------------------------------------------------------------
(* handleClipWebhook *)

\* The provider delivers the approval of charge c, or any other event of it, or
\* one that was answered before.  A charge no row refers to is answered 404 and
\* changes nothing.
handleClipWebhook(r, c, approval) ==
    /\ At(r, "idle")
    /\ charges[c].status # "none"
    /\ approval => c \in undelivered
    /\ \E p \in Payments, s \in Sessions :
        /\ payments[p].provider_payment_id = c
        /\ lock[p].owner = s => lock[p].depth < MaxLockDepth
        /\ req' = [req EXCEPT ![r] =
                    [IdleRequest EXCEPT !.pc = "lock", !.payment = p, !.session = s,
                                        !.charge = c, !.approval = approval]]
    /\ UNCHANGED <<payments, charges, undelivered, ledger, credits, lock>>

\* GET_LOCK runs on any connection of the pool and belongs to that connection:
\* a second GET_LOCK by the same connection succeeds as well.
acquirePaymentLock(r) ==
    /\ At(r, "lock")
    /\ LET l == lock[req[r].payment] IN
        /\ l.owner \in {None, req[r].session}
        /\ lock' = [lock EXCEPT ![req[r].payment] =
                        [owner |-> req[r].session, depth |-> l.depth + 1]]
    /\ req' = [req EXCEPT ![r] = [@ EXCEPT !.pc = "reread", !.session = None]]
    /\ UNCHANGED <<payments, charges, undelivered, ledger, credits>>

\* GET_LOCK gives up after 5 seconds: ConflictError.
LockTimeout(r) ==
    /\ At(r, "lock")
    /\ lock[req[r].payment].owner \notin {None, req[r].session}
    /\ Finish(r)
    /\ UNCHANGED <<payments, charges, undelivered, ledger, credits, lock>>

\* lockedPayment: read again under the lock; its topup status is the one
\* hasCompletedTopup looks at later.
Reread(r) ==
    /\ At(r, "reread")
    /\ IF payments[req[r].payment].provider_payment_id = req[r].charge
       THEN req' = [req EXCEPT ![r] =
                     [@ EXCEPT !.pc = "confirm", !.stale = payments[req[r].payment].topup]]
       ELSE Leave(r, FALSE)
    /\ UNCHANGED <<payments, charges, undelivered, ledger, credits, lock>>

getConfirmedProviderPayment(r) ==
    /\ At(r, "confirm")
    /\ req' = [req EXCEPT ![r] =
                [@ EXCEPT !.pc = "readPayload", !.seen = charges[req[r].charge].status]]
    /\ UNCHANGED <<payments, charges, undelivered, ledger, credits, lock>>

ReadPayload(r) ==
    /\ At(r, "readPayload")
    /\ req' = [req EXCEPT ![r] =
                [@ EXCEPT !.pc = "writePayload", !.base = payments[req[r].payment].topup]]
    /\ UNCHANGED <<payments, charges, undelivered, ledger, credits, lock>>

\* mutant: a topup that was recorded as FAILED is not tried again
SkipFailedTopup(r) ==
    /\ At(r, "writePayload")
    /\ mergeWebhookProcessingResult(req[r].payment,
                                    mapClipStatusToInternal(req[r].seen),
                                    req[r].base)
    /\ IF mapClipStatusToInternal(req[r].seen) # "COMPLETED" \/ req[r].stale # "NONE"
       THEN Leave(r, TRUE)
       ELSE IF req[r].payment \notin Onboarded
       THEN Leave(r, FALSE)
       ELSE req' = [req EXCEPT ![r] =
                     [@ EXCEPT !.pc = "topup", !.seen = "none", !.stale = "NONE", !.base = "NONE"]]
    /\ UNCHANGED <<charges, undelivered, ledger, credits, lock>>

\* Stores the confirmed status.  Only a COMPLETED payment whose (earlier read)
\* topup is not COMPLETED goes on to topUp, and building the topup request
\* throws for a user without complete backoffice data.
WritePayload(r) ==
    /\ At(r, "writePayload")
    /\ mergeWebhookProcessingResult(req[r].payment,
                                    mapClipStatusToInternal(req[r].seen),
                                    req[r].base)
    /\ IF mapClipStatusToInternal(req[r].seen) # "COMPLETED" \/ req[r].stale = "COMPLETED"
       THEN Leave(r, TRUE)
       ELSE IF req[r].payment \notin Onboarded
       THEN Leave(r, FALSE)
       ELSE req' = [req EXCEPT ![r] =
                     [@ EXCEPT !.pc = "topup", !.seen = "none", !.stale = "NONE", !.base = "NONE"]]
    /\ UNCHANGED <<charges, undelivered, ledger, credits, lock>>

\* mutant: the provider's id of the charge is sent instead of the payment's key
ChargeAsTransactionId(r) == req[r].charge

\* The key the backoffice recognises a repeated topup by.
externalTransactionId(r) == req[r].payment

Topped(r, outcome) ==
    req' = [req EXCEPT ![r] = [@ EXCEPT !.pc = "record", !.outcome = outcome]]

\* external: a new externalTransactionId credits the wallet
TopUpCredits(r) ==
    /\ At(r, "topup")
    /\ externalTransactionId(r) \notin ledger
    /\ ledger' = ledger \cup {externalTransactionId(r)}
    /\ credits' = [credits EXCEPT ![req[r].payment] = @ + 1]
    /\ Topped(r, "credited")
    /\ UNCHANGED <<payments, charges, undelivered, lock>>

\* external: a known one is answered 409, which arrives as a ConflictError
TopUpConflict(r) ==
    /\ At(r, "topup")
    /\ externalTransactionId(r) \in ledger
    /\ Topped(r, "conflict")
    /\ UNCHANGED <<payments, charges, undelivered, ledger, credits, lock>>

\* Any other error: the wallet was not credited, or it was and the answer is lost.
TopUpFails(r) ==
    /\ At(r, "topup")
    /\ "backoffice" \in Faults
    /\ \/ UNCHANGED <<ledger, credits>>
       \/ /\ externalTransactionId(r) \notin ledger
          /\ ledger' = ledger \cup {externalTransactionId(r)}
          /\ credits' = [credits EXCEPT ![req[r].payment] = @ + 1]
    /\ Topped(r, "failed")
    /\ UNCHANGED <<payments, charges, undelivered, lock>>

\* mutant: every outcome is recorded as done
AlwaysDone(outcome) == "COMPLETED"

\* The marker a topUp outcome is recorded as: a 409 counts as done.
TopupMark(outcome) == IF outcome = "failed" THEN "FAILED" ELSE "COMPLETED"

\* mutant: the failure is recorded but not rethrown
RecordAndSwallow(r) ==
    /\ At(r, "record")
    /\ mergeWebhookProcessingResult(req[r].payment, "COMPLETED", TopupMark(req[r].outcome))
    /\ IF req[r].outcome = "credited" THEN Goto(r, "notify") ELSE Leave(r, TRUE)
    /\ UNCHANGED <<charges, undelivered, ledger, credits, lock>>

\* The merge replaces the key topup whatever payload it read, so its read needs
\* no step of its own.
RecordTopup(r) ==
    /\ At(r, "record")
    /\ mergeWebhookProcessingResult(req[r].payment, "COMPLETED", TopupMark(req[r].outcome))
    /\ CASE req[r].outcome = "credited" -> Goto(r, "notify")
         [] req[r].outcome = "conflict" -> Leave(r, TRUE)
         [] OTHER                       -> Leave(r, FALSE)
    /\ UNCHANGED <<charges, undelivered, ledger, credits, lock>>

Notify(r) ==
    /\ At(r, "notify")
    /\ Leave(r, TRUE)
    /\ UNCHANGED <<payments, charges, undelivered, ledger, credits, lock>>

\* An error before topUp, or while its failure or conflict is being recorded,
\* leaves the locked section.
WebhookThrow(r) ==
    /\ \/ "db" \in Faults /\ req[r].pc \in {"reread", "readPayload", "writePayload"}
       \/ "provider" \in Faults /\ At(r, "confirm")
       \/ "db" \in Faults /\ At(r, "record") /\ req[r].outcome # "credited"
    /\ Leave(r, FALSE)
    /\ UNCHANGED <<payments, charges, undelivered, ledger, credits, lock>>

\* An error after a successful topUp is caught by the handler of topUp errors,
\* which records the topup as FAILED.
AfterTopUpThrow(r) ==
    /\ req[r].outcome = "credited"
    /\ \/ "db" \in Faults /\ At(r, "record")
       \/ "notify" \in Faults /\ At(r, "notify")
    /\ Topped(r, "failed")
    /\ UNCHANGED <<payments, charges, undelivered, ledger, credits, lock>>

\* RELEASE_LOCK runs on any connection and has an effect on the owner only; its
\* result is logged and ignored.  The request is answered.
releasePaymentLock(r, s) ==
    /\ At(r, "release")
    /\ LET l == lock[req[r].payment] IN
        lock' = IF l.owner # s THEN lock
                ELSE [lock EXCEPT ![req[r].payment] =
                        IF l.depth = 1 THEN FreeLock
                        ELSE [l EXCEPT !.depth = @ - 1]]
    /\ undelivered' = IF req[r].ok /\ req[r].approval
                      THEN undelivered \ {req[r].charge}
                      ELSE undelivered
    /\ Finish(r)
    /\ UNCHANGED <<payments, charges, ledger, credits>>

-----------------------------------------------------------------------------
(* Environment *)

\* external: 3-D Secure or a delayed decision settles a charge, and an approved
\* one may be refunded
ChargeChanges(c) ==
    \E s \in ProviderStatus :
        /\ \/ charges[c].status = "pending" /\ s \in {"approved", "rejected", "cancelled"}
           \/ charges[c].status = "approved" /\ s = "refunded"
        /\ charges' = [charges EXCEPT ![c] = [@ EXCEPT !.status = s]]
        /\ undelivered' = IF s = "approved" THEN undelivered \cup {c} ELSE undelivered
        /\ UNCHANGED <<payments, ledger, credits, lock, req>>

\* The process dies: its requests are gone and its connections close, which
\* frees their locks.
Crash ==
    /\ "crash" \in Faults
    /\ \E r \in Requests : ~At(r, "idle")
    /\ req' = [r \in Requests |-> IdleRequest]
    /\ lock' = [p \in Payments |-> FreeLock]
    /\ UNCHANGED <<payments, charges, undelivered, ledger, credits>>

-----------------------------------------------------------------------------
\* the fault-free steps of a request in flight, up to the call of topUp
Handler(r) ==
    \/ ProcessReset(r) \/ ProcessPost(r) \/ ProcessStore(r)
    \/ VerifyGet(r) \/ VerifySave(r)
    \/ acquirePaymentLock(r) \/ LockTimeout(r) \/ Reread(r) \/ getConfirmedProviderPayment(r)
    \/ ReadPayload(r) \/ WritePayload(r)
    \/ RecordTopup(r) \/ Notify(r)
    \/ \E s \in Sessions : releasePaymentLock(r, s)

TopUp(r) == TopUpCredits(r) \/ TopUpConflict(r)

Next ==
    \/ \E p \in Payments : createPayment(p)
    \/ \E r \in Requests :
        \/ \E p \in Payments : processPayment(r, p) \/ verifyPaymentStatus(r, p)
        \/ \E c \in Charges, a \in BOOLEAN : handleClipWebhook(r, c, a)
        \/ Handler(r) \/ TopUp(r) \/ TopUpFails(r)
        \/ RequestThrow(r) \/ WebhookThrow(r) \/ AfterTopUpThrow(r)
    \/ \E c \in Charges : ChargeChanges(c)
    \/ Crash

Spec == Init /\ [][Next]_vars

-----------------------------------------------------------------------------
(* Properties *)

\* The provider did take the money of payment p at some time.
WasApproved(p) ==
    \E c \in Charges : charges[c].payment = p /\ charges[c].status \in {"approved", "refunded"}

\* Refinement: whatever webhooks, verifications, retries, lost answers and
\* crashes interleave, the wallet is credited at most once per payment and only
\* for a payment the provider approved (handleClipWebhook and topUp).
Crediting == INSTANCE WalletCrediting WITH
                paid <- {p \in Payments : WasApproved(p)}, credits <- credits
CreditedOnceAndOnlyIfPaid == Crediting!Spec

\* A payment whose response_payload says topup COMPLETED was credited: neither a
\* 409 taken for a duplicate nor a merge that writes back an old payload can
\* make up a topup (handleClipWebhook, mergeWebhookProcessingResult).
TopupMarkerSound ==
    \A p \in Payments : payments[p].topup = "COMPLETED" => credits[p] > 0

\* A payment is COMPLETED only if the provider approved a charge of that very
\* payment, although the answers of the provider are stored an await after they
\* were given and verifyPaymentStatus may store one for an older charge.
CompletedOnlyIfApproved ==
    \A p \in Payments : payments[p].status = "COMPLETED" => WasApproved(p)

\* The webhook of an approved charge is answered 2xx only once the wallet is
\* credited, so an uncredited payment always has an event the provider will
\* deliver again, through every crash, failed topUp and failed write.
NoCreditForgotten ==
    \A c \in Charges :
        charges[c].status = "approved" /\ credits[charges[c].payment] = 0
            => c \in undelivered

\* "Payment has already been processed": a payment is charged again only if all
\* its earlier charges were refunded (the status check of processPayment).
NoDoubleCharge ==
    [][\A c \in Charges :
        charges[c].status = "none" /\ charges'[c].status # "none" =>
            \A d \in Charges :
                charges[d].payment = charges'[c].payment => charges[d].status = "refunded"]_vars

\* "Clip webhook is already being processed": a webhook is refused for want of
\* the lock only while another one works on the same payment.
RefusedOnlyWhileBusy ==
    [][\A r \in Requests :
        LockTimeout(r) => \E q \in Requests \ {r} :
            req[q].payment = req[r].payment /\ req[q].pc \in LockedPC]_vars

\* Fairness: the event loop runs every request on; the backoffice is not down
\* for ever; the provider repeats an approval until it is answered 2xx.  Requests
\* bounds the requests served at once, hence the strong form for deliveries.
Fairness ==
    /\ \A r \in Requests : WF_vars(Handler(r)) /\ SF_vars(TopUp(r))
    /\ \A c \in Charges : SF_vars(\E r \in Requests : handleClipWebhook(r, c, TRUE))

FairSpec == Spec /\ Fairness

\* The lock of payment p is held although no request works on p: it was released on
\* a connection that does not own it.
LockLeaked(p) ==
    lock[p].owner # None /\ ~\E r \in Requests : req[r].payment = p /\ req[r].pc \in LockedPC

\* Every approved charge that a row refers to is credited in the end, unless the row
\* comes to refer to another charge, the charge is refunded, the user has no wallet, or
\* its lock leaks again and again (retries of handleClipWebhook after failed topUps).
ApprovedIsCredited ==
    \A p \in Onboarded, c \in Charges :
        payments[p].provider_payment_id = c /\ charges[c].status = "approved"
            ~> \/ credits[p] > 0
               \/ payments[p].provider_payment_id # c
               \/ charges[c].status = "refunded"
               \/ LockLeaked(p)
=============================================================================
