------------------------- MODULE ClipPaymentsProofs -------------------------
(***************************************************************************)
(* Proofs about ClipPayments, for any number of payments, charges,         *)
(* requests and pooled connections and any set of faults, and about the    *)
(* fees of a payment row and the quoted rate (PaymentFees), for every      *)
(* amount, price and fee rate.                                             *)
(***************************************************************************)
EXTENDS ClipPayments, PaymentFees, TLAPS

\* The charge was approved at some time.
Approved(c) == charges[c].status \in {"approved", "refunded"}

\* The wallet, the provider and the table.
DataInv ==
    /\ \A p \in Payments : credits[p] = IF p \in ledger THEN 1 ELSE 0
    /\ \A p \in Payments : p \in ledger => WasApproved(p)
    /\ \A p \in Payments : payments[p].topup = "COMPLETED" => p \in ledger
    /\ \A p \in Payments : payments[p].status = "COMPLETED" => WasApproved(p)
    /\ \A p \in Payments : payments[p].provider_payment_id # None =>
            charges[payments[p].provider_payment_id].payment = p
    /\ \A c \in Charges : charges[c].status = "none" <=> charges[c].payment = None
    /\ \A c \in undelivered : Approved(c)
    /\ \A c \in Charges :
            charges[c].status = "approved" /\ charges[c].payment \notin ledger
                => c \in undelivered
    /\ \A p \in Payments : lock[p].owner # None => lock[p].depth > 0

\* What the local variables x of a request in flight are worth.
RequestOK(x) ==
    /\ x.pc # "idle" => x.payment \in Payments
    /\ x.pc \in VerifyPC \cup LockedPC \cup {"lock", "store"} => x.charge # None
    /\ x.charge # None => x.payment \in Payments /\ charges[x.charge].payment = x.payment
    /\ x.seen = "approved" => x.charge # None /\ Approved(x.charge)
    /\ x.pc \in {"topup", "record", "notify"} => Approved(x.charge)
    /\ x.stale = "COMPLETED" \/ x.base = "COMPLETED" => x.payment \in ledger
    /\ x.outcome \in {"credited", "conflict"} => x.payment \in ledger
    /\ x.pc = "record" => x.outcome # "none"
    /\ x.pc = "notify" => x.outcome = "credited"
    /\ x.pc = "lock" => x.session # None
    /\ x.pc \in {"reset", "post"} => ~x.approval
    /\ x.approval => x.charge # None /\ Approved(x.charge)
    /\ x.approval /\ x.pc \in {"readPayload", "writePayload"} =>
            x.seen = "approved" \/ charges[x.charge].status = "refunded"
    /\ x.approval /\ x.pc = "release" /\ x.ok =>
            x.payment \in ledger \/ charges[x.charge].status = "refunded"

IInv == TypeOK /\ DataInv /\ \A r \in Requests : RequestOK(req[r])

-----------------------------------------------------------------------------
(* What no step undoes: credits, approvals, refunds and the payment a charge
   was made for. *)
Kept ==
    /\ ledger \subseteq ledger'
    /\ \A c \in Charges :
        /\ charges[c].payment # None => charges'[c].payment = charges[c].payment
        /\ charges[c].status \in {"approved", "refunded"} =>
                charges'[c].status \in {"approved", "refunded"}
        /\ charges[c].status = "refunded" => charges'[c].status = "refunded"

\* A request keeps its invariant while others move.
LEMMA RequestKept ==
    ASSUME Kept, NEW q \in Requests, NEW x \in Request, RequestOK(x), req'[q] = x
    PROVE  RequestOK(req[q])'
<1>1. x.charge # None => x.charge \in Charges
  BY DEF Request
<1> QED
  BY <1>1, ConstantsAssumption DEF RequestOK, Kept, Approved, VerifyPC, LockedPC

\* A step that moves request r to the record x.
LEMMA RequestSet ==
    ASSUME IInv, Kept, DataInv', NEW r \in Requests, NEW x \in Request,
           req' = [req EXCEPT ![r] = x], RequestOK(req[r])',
           payments' \in [Payments -> Row], charges' \in [Charges -> Charge],
           undelivered' \subseteq Charges, ledger' \subseteq Payments \cup Charges,
           credits' \in [Payments -> Nat], lock' \in [Payments -> Lock]
    PROVE  IInv'
<1>1. TypeOK'
  BY DEF IInv, TypeOK
<1>2. ASSUME NEW q \in Requests \ {r} PROVE RequestOK(req[q])'
  <2>1. req[q] \in Request /\ req'[q] = req[q] /\ RequestOK(req[q])
    BY DEF IInv, TypeOK
  <2> QED
    BY <2>1, RequestKept
<1> QED
  BY <1>1, <1>2 DEF IInv

\* The same when the record was in order before the step.
LEMMA RequestMoves ==
    ASSUME IInv, Kept, DataInv', NEW r \in Requests, NEW x \in Request, RequestOK(x),
           req' = [req EXCEPT ![r] = x],
           payments' \in [Payments -> Row], charges' \in [Charges -> Charge],
           undelivered' \subseteq Charges, ledger' \subseteq Payments \cup Charges,
           credits' \in [Payments -> Nat], lock' \in [Payments -> Lock]
    PROVE  IInv'
<1>1. req'[r] = x
  BY DEF IInv, TypeOK
<1>2. RequestOK(req[r])'
  BY <1>1, RequestKept
<1> QED
  BY <1>2, RequestSet

\* The same for a step that touches nothing but the request's own record.
LEMMA LocalStep ==
    ASSUME IInv, NEW r \in Requests, NEW x \in Request, RequestOK(x),
           req' = [req EXCEPT ![r] = x],
           UNCHANGED <<payments, charges, undelivered, ledger, credits, lock>>
    PROVE  IInv'
<1>1. Kept
  BY DEF Kept
<1>2. DataInv'
  BY DEF IInv, DataInv, WasApproved, Approved
<1> QED
  BY <1>1, <1>2, RequestMoves DEF IInv, TypeOK

\* The answered request.
LEMMA FinishedOK == IdleRequest \in Request /\ RequestOK(IdleRequest)
  BY DEF IdleRequest, Request, PC, Outcome, TopupStatus, RequestOK, VerifyPC, LockedPC

LEMMA FinishStep ==
    ASSUME IInv, NEW r \in Requests, Finish(r),
           UNCHANGED <<payments, charges, undelivered, ledger, credits, lock>>
    PROVE  IInv'
  BY FinishedOK, LocalStep DEF Finish

\* The request on its way out of the locked section.
LEMMA LeftOK ==
    ASSUME NEW x \in Request, RequestOK(x), x.pc \in LockedPC, NEW b \in BOOLEAN,
           b /\ x.approval =>
               x.payment \in ledger \/ charges[x.charge].status = "refunded"
    PROVE  Left(x, b) \in Request /\ RequestOK(Left(x, b))
<1>1. Left(x, b) \in Request
  BY DEF Left, Request, PC, LockedPC, TopupStatus, Outcome
<1>2. RequestOK(Left(x, b))
  BY DEF Left, RequestOK, LockedPC, VerifyPC, Request
<1> QED
  BY <1>1, <1>2

LEMMA LeaveStep ==
    ASSUME IInv, NEW r \in Requests, NEW b \in BOOLEAN, Leave(r, b), req[r].pc \in LockedPC,
           b /\ req[r].approval =>
               req[r].payment \in ledger \/ charges[req[r].charge].status = "refunded",
           UNCHANGED <<payments, charges, undelivered, ledger, credits, lock>>
    PROVE  IInv'
<1>1. req[r] \in Request /\ RequestOK(req[r])
  BY DEF IInv, TypeOK
<1>2. Left(req[r], b) \in Request /\ RequestOK(Left(req[r], b))
  BY <1>1, LeftOK
<1>3. req' = [req EXCEPT ![r] = Left(req[r], b)]
  BY DEF Leave
<1> QED
  BY <1>2, <1>3, LocalStep

\* A write to one row of the table.
LEMMA RowWrite ==
    ASSUME IInv, NEW p \in Payments, NEW row \in Row,
           payments' = [payments EXCEPT ![p] = row],
           row.topup = "COMPLETED" => p \in ledger,
           row.status = "COMPLETED" => WasApproved(p),
           row.provider_payment_id # None => charges[row.provider_payment_id].payment = p,
           UNCHANGED <<charges, undelivered, ledger, credits, lock>>
    PROVE  Kept /\ DataInv' /\ payments' \in [Payments -> Row]
<1>1. payments' \in [Payments -> Row] /\ payments'[p] = row
  BY DEF IInv, TypeOK
<1>2. \A q \in Payments \ {p} : payments'[q] = payments[q]
  BY DEF IInv, TypeOK
<1>3. Kept
  BY DEF Kept
<1>4. DataInv'
  BY <1>1, <1>2 DEF IInv, DataInv, WasApproved, Approved
<1> QED
  BY <1>1, <1>3, <1>4

-----------------------------------------------------------------------------
(* Steps of processPayment and verifyPaymentStatus *)

LEMMA CreatePaymentStep ==
    ASSUME IInv, NEW p \in Payments, createPayment(p)
    PROVE  IInv'
<1> DEFINE row == [payments[p] EXCEPT !.status = "PENDING"]
<1>1. payments[p] \in Row
  BY DEF IInv, TypeOK
<1>2. /\ row \in Row /\ row.topup = payments[p].topup /\ row.status = "PENDING"
      /\ row.provider_payment_id = payments[p].provider_payment_id
  BY <1>1 DEF Row, PaymentStatus
<1>3. /\ payments' = [payments EXCEPT ![p] = row]
      /\ UNCHANGED <<charges, undelivered, ledger, credits, lock, req>>
  BY DEF createPayment
<1>4. Kept /\ DataInv' /\ payments' \in [Payments -> Row]
  <2> HIDE DEF row
  <2> QED
    BY <1>2, <1>3, RowWrite DEF IInv, DataInv
<1>5. \A q \in Requests : RequestOK(req[q])'
  BY <1>3, <1>4, RequestKept DEF IInv, TypeOK
<1> QED
  BY <1>3, <1>4, <1>5 DEF IInv, TypeOK

LEMMA ProcessPaymentStep ==
    ASSUME IInv, NEW r \in Requests, NEW p \in Payments, processPayment(r, p)
    PROVE  IInv'
<1> DEFINE x == [IdleRequest EXCEPT !.pc = "reset", !.payment = p]
<1>1. x \in Request
  BY DEF IdleRequest, Request, PC, ProcessPC, Outcome, TopupStatus
<1>2. RequestOK(x)
  BY DEF RequestOK, IdleRequest, VerifyPC, LockedPC
<1> QED
  BY <1>1, <1>2, LocalStep DEF processPayment

LEMMA VerifyPaymentStatusStep ==
    ASSUME IInv, NEW r \in Requests, NEW p \in Payments, verifyPaymentStatus(r, p)
    PROVE  IInv'
<1> DEFINE x == [IdleRequest EXCEPT !.pc = "get", !.payment = p,
                                    !.charge = payments[p].provider_payment_id]
<1>1. /\ payments[p].provider_payment_id \in Charges
      /\ charges[payments[p].provider_payment_id].payment = p
  BY DEF verifyPaymentStatus, IInv, TypeOK, Row, DataInv
<1>2. x \in Request
  BY <1>1 DEF IdleRequest, Request, PC, VerifyPC, Outcome, TopupStatus
<1>3. RequestOK(x)
  BY <1>1, ConstantsAssumption DEF RequestOK, IdleRequest, VerifyPC, LockedPC
<1> QED
  BY <1>2, <1>3, LocalStep DEF verifyPaymentStatus

LEMMA VerifyGetStep ==
    ASSUME IInv, NEW r \in Requests, VerifyGet(r)
    PROVE  IInv'
<1> DEFINE x == [req[r] EXCEPT !.pc = "save", !.seen = charges[req[r].charge].status]
<1>1. /\ req[r] \in Request /\ RequestOK(req[r]) /\ req[r].pc = "get"
      /\ req[r].charge \in Charges
  BY DEF VerifyGet, At, IInv, TypeOK, Request, RequestOK, VerifyPC
<1>2. charges[req[r].charge].status \in ProviderStatus \cup {"none"}
  BY <1>1 DEF IInv, TypeOK, Charge
<1>3. x \in Request
  BY <1>1, <1>2 DEF Request, PC, VerifyPC
<1>4. RequestOK(x)
  BY <1>1, ConstantsAssumption DEF RequestOK, Request, VerifyPC, LockedPC, Approved
<1> QED
  BY <1>3, <1>4, LocalStep DEF VerifyGet

\* Every provider status has an internal one, and COMPLETED stands for approved
\* alone.
LEMMA StatusMapped ==
    ASSUME NEW s \in ProviderStatus \cup {"none"}
    PROVE  /\ mapClipStatusToInternal(s) \in PaymentStatus
           /\ mapClipStatusToInternal(s) = "COMPLETED" <=> s = "approved"
           /\ mapClipStatusBeforeWebhook(s) \in PaymentStatus \ {"COMPLETED"}
  BY DEF mapClipStatusToInternal, mapClipStatusBeforeWebhook, PaymentStatus, ProviderStatus

LEMMA UpdateKeeps ==
    ASSUME IInv, NEW p \in Payments, NEW s \in PaymentStatus \ {"COMPLETED"},
           NEW c \in Charges \cup {None}, c # None => charges[c].payment = p,
           updatePaymentStatus(p, s, c),
           UNCHANGED <<charges, undelivered, ledger, credits, lock>>
    PROVE  Kept /\ DataInv' /\ payments' \in [Payments -> Row]
<1> DEFINE row == [status |-> s,
                   provider_payment_id |->
                       IF c = None THEN payments[p].provider_payment_id ELSE c,
                   topup |-> "NONE"]
<1>1. payments[p] \in Row
  BY DEF IInv, TypeOK
<1>2. row \in Row /\ row.topup # "COMPLETED" /\ row.status # "COMPLETED"
  BY <1>1 DEF Row, TopupStatus
<1>3. row.provider_payment_id # None => charges[row.provider_payment_id].payment = p
  BY DEF IInv, DataInv
<1>4. payments' = [payments EXCEPT ![p] = row]
  BY DEF updatePaymentStatus
<1> HIDE DEF row
<1> QED
  BY <1>2, <1>3, <1>4, RowWrite

LEMMA ProcessResetStep ==
    ASSUME IInv, NEW r \in Requests, ProcessReset(r)
    PROVE  IInv'
<1> DEFINE x == [req[r] EXCEPT !.pc = "post"]
<1>1. /\ req[r] \in Request /\ RequestOK(req[r]) /\ req[r].pc = "reset"
      /\ req[r].payment \in Payments
  BY DEF ProcessReset, At, IInv, TypeOK, RequestOK
<1>2. Kept /\ DataInv' /\ payments' \in [Payments -> Row]
  BY <1>1, UpdateKeeps DEF ProcessReset, PaymentStatus
<1>3. x \in Request
  BY <1>1 DEF Request, PC, ProcessPC
<1>4. RequestOK(x)
  BY <1>1 DEF RequestOK, Request, VerifyPC, LockedPC
<1>5. req' = [req EXCEPT ![r] = x]
  BY DEF ProcessReset, Goto
<1> QED
  BY <1>2, <1>3, <1>4, <1>5, RequestMoves DEF ProcessReset, IInv, TypeOK

LEMMA StoreStep ==
    ASSUME IInv, NEW r \in Requests, ProcessStore(r) \/ VerifySave(r)
    PROVE  IInv'
<1> DEFINE s == mapClipStatusBeforeWebhook(req[r].seen)
<1>1. /\ req[r].payment \in Payments /\ req[r].charge \in Charges
      /\ charges[req[r].charge].payment = req[r].payment
      /\ req[r].seen \in ProviderStatus \cup {"none"}
  BY DEF ProcessStore, VerifySave, At, IInv, TypeOK, RequestOK, Request, VerifyPC
<1>2. s \in PaymentStatus \ {"COMPLETED"}
  BY <1>1, StatusMapped
<1>3. /\ updatePaymentStatus(req[r].payment, s, req[r].charge)
      /\ req' = [req EXCEPT ![r] = IdleRequest]
      /\ UNCHANGED <<charges, undelivered, ledger, credits, lock>>
  BY DEF ProcessStore, VerifySave, Finish
<1> HIDE DEF s
<1>4. Kept /\ DataInv' /\ payments' \in [Payments -> Row]
  BY <1>1, <1>2, <1>3, UpdateKeeps
<1> QED
  BY <1>3, <1>4, FinishedOK, RequestMoves DEF IInv, TypeOK

\* The provider makes a charge or changes its status.
LEMMA ChargeWrite ==
    ASSUME IInv, NEW c \in Charges, NEW ch \in Charge,
           charges' = [charges EXCEPT ![c] = ch],
           ch.payment \in Payments, charges[c].payment \in {None, ch.payment},
           ch.status # "none",
           charges[c].status \notin {"refunded"},
           charges[c].status = "approved" => ch.status = "refunded",
           undelivered' = IF ch.status = "approved" THEN undelivered \cup {c} ELSE undelivered,
           UNCHANGED <<payments, ledger, credits, lock>>
    PROVE  /\ Kept /\ DataInv'
           /\ charges' \in [Charges -> Charge] /\ undelivered' \subseteq Charges
<1>1. charges' \in [Charges -> Charge] /\ charges'[c] = ch
  BY DEF IInv, TypeOK
<1>2. \A d \in Charges \ {c} : charges'[d] = charges[d]
  BY DEF IInv, TypeOK
<1>3. undelivered' \subseteq Charges
  BY DEF IInv, TypeOK
<1>4. Kept
  BY <1>1, <1>2 DEF Kept
<1>5. \A p \in Payments : WasApproved(p) => WasApproved(p)'
  BY <1>4, ConstantsAssumption DEF WasApproved, Kept
<1>6. \A p \in Payments : payments[p].provider_payment_id \in Charges \cup {None}
  BY DEF IInv, TypeOK, Row
<1>7. DataInv'
  <2>1. \A p \in Payments : payments[p].provider_payment_id # None =>
            charges'[payments[p].provider_payment_id].payment = p
    <3>1. \A p \in Payments : payments[p].provider_payment_id # None =>
              charges[payments[p].provider_payment_id].payment = p
      BY DEF IInv, DataInv
    <3> QED
      BY <3>1, <1>4, <1>6, ConstantsAssumption DEF Kept
  <2>2. \A d \in Charges : charges'[d].status = "none" <=> charges'[d].payment = None
    BY <1>1, <1>2, ConstantsAssumption DEF IInv, DataInv
  <2>3. \A d \in undelivered' : charges'[d].status \in {"approved", "refunded"}
    BY <1>1, <1>2, <1>3 DEF IInv, DataInv, Approved, TypeOK, Charge, ProviderStatus
  <2>4. \A d \in Charges :
            charges'[d].status = "approved" /\ charges'[d].payment \notin ledger
                => d \in undelivered'
    BY <1>1, <1>2 DEF IInv, DataInv
  <2>5. \A p \in Payments : p \in ledger \/ payments[p].status = "COMPLETED" => WasApproved(p)'
    BY <1>5 DEF IInv, DataInv
  <2>6. /\ \A p \in Payments : credits[p] = IF p \in ledger THEN 1 ELSE 0
        /\ \A p \in Payments : payments[p].topup = "COMPLETED" => p \in ledger
        /\ \A p \in Payments : lock[p].owner # None => lock[p].depth > 0
    BY DEF IInv, DataInv
  <2> QED
    BY <2>1, <2>2, <2>3, <2>4, <2>5, <2>6 DEF DataInv, Approved
<1> QED
  BY <1>1, <1>3, <1>4, <1>7

LEMMA ProcessPostStep ==
    ASSUME IInv, NEW r \in Requests, ProcessPost(r)
    PROVE  IInv'
<1>1. /\ req[r] \in Request /\ RequestOK(req[r]) /\ req[r].pc = "post"
      /\ req[r].payment \in Payments
  BY DEF ProcessPost, At, IInv, TypeOK, RequestOK
<1>2. PICK c \in Charges, s \in {"pending", "approved", "rejected"} :
        /\ charges[c].status = "none"
        /\ charges' = [charges EXCEPT ![c] = [payment |-> req[r].payment, status |-> s]]
        /\ undelivered' = IF s = "approved" THEN undelivered \cup {c} ELSE undelivered
        /\ \/ req' = [req EXCEPT ![r] =
                        [@ EXCEPT !.pc = "store", !.charge = c, !.seen = s]]
           \/ Finish(r)
  BY DEF ProcessPost
<1> DEFINE ch == [payment |-> req[r].payment, status |-> s]
           x == [req[r] EXCEPT !.pc = "store", !.charge = c, !.seen = s]
<1>3. /\ ch \in Charge /\ ch.status = s /\ ch.payment = req[r].payment
      /\ charges[c].payment = None
  BY <1>1, <1>2 DEF Charge, ProviderStatus, IInv, DataInv
<1>4. UNCHANGED <<payments, ledger, credits, lock>>
  BY DEF ProcessPost
<1>5. Kept /\ DataInv' /\ charges' \in [Charges -> Charge] /\ undelivered' \subseteq Charges
  <2> HIDE DEF ch
  <2> QED
    BY <1>1, <1>2, <1>3, <1>4, ChargeWrite DEF ch
<1>6. CASE req' = [req EXCEPT ![r] = x]
  <2>1. x \in Request
    BY <1>1 DEF Request, PC, ProcessPC, ProviderStatus
  <2>2. req'[r] = x
    BY <1>6 DEF IInv, TypeOK
  <2>3. charges'[c] = ch
    BY <1>2 DEF IInv, TypeOK
  <2>4. RequestOK(req[r])'
    BY <1>1, <1>3, <1>4, <2>2, <2>3, ConstantsAssumption
       DEF RequestOK, Request, Approved, VerifyPC, LockedPC
  <2> QED
    BY <1>4, <1>5, <1>6, <2>1, <2>2, <2>4, RequestSet DEF IInv, TypeOK
<1>7. CASE Finish(r)
  BY <1>4, <1>5, <1>7, FinishedOK, RequestMoves DEF Finish, IInv, TypeOK
<1> QED
  BY <1>2, <1>6, <1>7

-----------------------------------------------------------------------------
(* Steps of handleClipWebhook *)

LEMMA HandleClipWebhookStep ==
    ASSUME IInv, NEW r \in Requests, NEW c \in Charges, NEW a \in BOOLEAN,
           handleClipWebhook(r, c, a)
    PROVE  IInv'
<1>1. PICK p \in Payments, s \in Sessions :
        /\ payments[p].provider_payment_id = c
        /\ req' = [req EXCEPT ![r] =
                    [IdleRequest EXCEPT !.pc = "lock", !.payment = p, !.session = s,
                                        !.charge = c, !.approval = a]]
  BY DEF handleClipWebhook
<1> DEFINE x == [IdleRequest EXCEPT !.pc = "lock", !.payment = p, !.session = s,
                                    !.charge = c, !.approval = a]
<1>2. charges[c].payment = p /\ (a => Approved(c))
  BY <1>1, ConstantsAssumption DEF handleClipWebhook, IInv, DataInv
<1>3. x \in Request
  BY DEF IdleRequest, Request, PC, Outcome, TopupStatus
<1>4. RequestOK(x)
  BY <1>2, ConstantsAssumption DEF RequestOK, IdleRequest, VerifyPC, LockedPC
<1> QED
  BY <1>1, <1>3, <1>4, LocalStep DEF handleClipWebhook

LEMMA AcquirePaymentLockStep ==
    ASSUME IInv, NEW r \in Requests, acquirePaymentLock(r)
    PROVE  IInv'
<1> DEFINE x == [req[r] EXCEPT !.pc = "reread", !.session = None]
           p == req[r].payment
           l == [owner |-> req[r].session, depth |-> lock[p].depth + 1]
<1>1. /\ req[r] \in Request /\ RequestOK(req[r]) /\ req[r].pc = "lock"
      /\ p \in Payments /\ lock[p] \in Lock
  BY DEF acquirePaymentLock, At, IInv, TypeOK, RequestOK
<1>2. l \in Lock /\ l.depth > 0
  BY <1>1 DEF Lock, Request
<1>3. lock' = [lock EXCEPT ![p] = l] /\ lock' \in [Payments -> Lock]
  BY <1>1, <1>2 DEF acquirePaymentLock, IInv, TypeOK
<1>4. \A q \in Payments : lock'[q].owner # None => lock'[q].depth > 0
  <2> HIDE DEF l
  <2> QED
    BY <1>1, <1>2, <1>3 DEF IInv, DataInv, TypeOK
<1>5. Kept
  BY DEF acquirePaymentLock, Kept
<1>6. DataInv'
  BY <1>4 DEF acquirePaymentLock, IInv, DataInv, WasApproved, Approved
<1>7. x \in Request
  BY <1>1 DEF Request, PC, LockedPC
<1>8. RequestOK(x)
  BY <1>1 DEF RequestOK, Request, VerifyPC, LockedPC
<1> QED
  BY <1>3, <1>5, <1>6, <1>7, <1>8, RequestMoves DEF acquirePaymentLock, IInv, TypeOK

LEMMA RereadStep ==
    ASSUME IInv, NEW r \in Requests, Reread(r)
    PROVE  IInv'
<1> DEFINE x == [req[r] EXCEPT !.pc = "confirm", !.stale = payments[req[r].payment].topup]
<1>1. /\ req[r] \in Request /\ RequestOK(req[r]) /\ req[r].pc = "reread"
      /\ req[r].payment \in Payments /\ payments[req[r].payment] \in Row
  BY DEF Reread, At, IInv, TypeOK, RequestOK
<1>2. CASE req' = [req EXCEPT ![r] = x]
  <2>1. x \in Request
    BY <1>1 DEF Request, PC, LockedPC, Row
  <2>2. RequestOK(x)
    BY <1>1 DEF RequestOK, Request, VerifyPC, LockedPC, IInv, DataInv
  <2> QED
    BY <1>2, <2>1, <2>2, LocalStep DEF Reread
<1>3. CASE Leave(r, FALSE)
  BY <1>1, <1>3, LeaveStep DEF Reread, LockedPC
<1> QED
  BY <1>2, <1>3 DEF Reread

LEMMA GetConfirmedProviderPaymentStep ==
    ASSUME IInv, NEW r \in Requests, getConfirmedProviderPayment(r)
    PROVE  IInv'
<1> DEFINE x == [req[r] EXCEPT !.pc = "readPayload", !.seen = charges[req[r].charge].status]
<1>1. /\ req[r] \in Request /\ RequestOK(req[r]) /\ req[r].pc = "confirm"
      /\ req[r].charge \in Charges
  BY DEF getConfirmedProviderPayment, At, IInv, TypeOK, Request, RequestOK, LockedPC
<1>2. charges[req[r].charge].status \in ProviderStatus \cup {"none"}
  BY <1>1 DEF IInv, TypeOK, Charge
<1>3. x \in Request
  BY <1>1, <1>2 DEF Request, PC, LockedPC
<1>4. RequestOK(x)
  BY <1>1, ConstantsAssumption DEF RequestOK, Request, VerifyPC, LockedPC, Approved
<1> QED
  BY <1>3, <1>4, LocalStep DEF getConfirmedProviderPayment

LEMMA ReadPayloadStep ==
    ASSUME IInv, NEW r \in Requests, ReadPayload(r)
    PROVE  IInv'
<1> DEFINE x == [req[r] EXCEPT !.pc = "writePayload", !.base = payments[req[r].payment].topup]
<1>1. /\ req[r] \in Request /\ RequestOK(req[r]) /\ req[r].pc = "readPayload"
      /\ req[r].payment \in Payments /\ payments[req[r].payment] \in Row
  BY DEF ReadPayload, At, IInv, TypeOK, RequestOK
<1>2. x \in Request
  BY <1>1 DEF Request, PC, LockedPC, Row
<1>3. RequestOK(x)
  BY <1>1 DEF RequestOK, Request, VerifyPC, LockedPC, IInv, DataInv
<1> QED
  BY <1>2, <1>3, LocalStep DEF ReadPayload

\* The writing half of a merge.
LEMMA MergeKeeps ==
    ASSUME IInv, NEW p \in Payments, NEW s \in PaymentStatus, NEW t \in TopupStatus,
           s = "COMPLETED" => WasApproved(p), t = "COMPLETED" => p \in ledger,
           mergeWebhookProcessingResult(p, s, t),
           UNCHANGED <<charges, undelivered, ledger, credits, lock>>
    PROVE  Kept /\ DataInv' /\ payments' \in [Payments -> Row]
<1> DEFINE row == [payments[p] EXCEPT !.status = s, !.topup = t]
<1>1. payments[p] \in Row
  BY DEF IInv, TypeOK
<1>2. /\ row \in Row /\ row.topup = t /\ row.status = s
      /\ row.provider_payment_id = payments[p].provider_payment_id
  BY <1>1 DEF Row
<1>3. payments' = [payments EXCEPT ![p] = row]
  BY DEF mergeWebhookProcessingResult
<1> HIDE DEF row
<1> QED
  BY <1>2, <1>3, RowWrite DEF IInv, DataInv

LEMMA WritePayloadStep ==
    ASSUME IInv, NEW r \in Requests, WritePayload(r)
    PROVE  IInv'
<1> DEFINE s == mapClipStatusToInternal(req[r].seen)
           x == [req[r] EXCEPT !.pc = "topup", !.seen = "none", !.stale = "NONE", !.base = "NONE"]
<1>1. /\ req[r] \in Request /\ RequestOK(req[r]) /\ req[r].pc = "writePayload"
      /\ req[r].payment \in Payments /\ req[r].charge \in Charges
      /\ req[r].seen \in ProviderStatus \cup {"none"} /\ req[r].base \in TopupStatus
      /\ charges[req[r].charge].payment = req[r].payment
  BY DEF WritePayload, At, IInv, TypeOK, RequestOK, Request, LockedPC
<1>2. s \in PaymentStatus /\ (s = "COMPLETED" <=> req[r].seen = "approved")
  BY <1>1, StatusMapped
<1>3. s = "COMPLETED" => WasApproved(req[r].payment)
  BY <1>1, <1>2 DEF RequestOK, WasApproved, Approved
<1>4. UNCHANGED <<charges, undelivered, ledger, credits, lock>>
  BY DEF WritePayload
<1>5. Kept /\ DataInv' /\ payments' \in [Payments -> Row]
  <2>1. mergeWebhookProcessingResult(req[r].payment, s, req[r].base)
    BY DEF WritePayload
  <2>2. req[r].base = "COMPLETED" => req[r].payment \in ledger
    BY <1>1 DEF RequestOK
  <2> HIDE DEF s
  <2> QED
    BY <1>1, <1>2, <1>3, <1>4, <2>1, <2>2, MergeKeeps
<1>6. ASSUME NEW b \in BOOLEAN, Leave(r, b),
             b => s # "COMPLETED" \/ req[r].stale = "COMPLETED"
      PROVE  IInv'
  <2>1. b /\ req[r].approval =>
            req[r].payment \in ledger \/ charges[req[r].charge].status = "refunded"
    BY <1>1, <1>2, <1>6 DEF RequestOK
  <2>2. Left(req[r], b) \in Request /\ RequestOK(Left(req[r], b))
    BY <1>1, <2>1, LeftOK DEF LockedPC
  <2> QED
    BY <1>4, <1>5, <1>6, <2>2, RequestMoves DEF Leave, IInv, TypeOK
<1>7. CASE s = "COMPLETED" /\ req' = [req EXCEPT ![r] = x]
  <2>1. x \in Request
    BY <1>1 DEF Request, PC, LockedPC, TopupStatus
  <2>2. RequestOK(x)
    BY <1>1, <1>2, <1>7 DEF RequestOK, Request, VerifyPC, LockedPC
  <2> QED
    BY <1>4, <1>5, <1>7, <2>1, <2>2, RequestMoves DEF IInv, TypeOK
<1> QED
  BY <1>6, <1>7 DEF WritePayload

\* The record of a request whose topUp has ended.
LEMMA ToppedRecord ==
    ASSUME NEW x \in Request, NEW o \in Outcome
    PROVE  [x EXCEPT !.pc = "record", !.outcome = o] \in Request
<1>1. "record" \in PC
  BY DEF PC, LockedPC
<1> QED
  BY <1>1 DEF Request

\* topUp credits the wallet, and the request learns of it or does not.
LEMMA CreditStep ==
    ASSUME IInv, NEW r \in Requests, At(r, "topup"),
           NEW o \in {"credited", "failed"}, Topped(r, o),
           req[r].payment \notin ledger,
           ledger' = ledger \cup {req[r].payment},
           credits' = [credits EXCEPT ![req[r].payment] = @ + 1],
           UNCHANGED <<payments, charges, undelivered, lock>>
    PROVE  IInv'
<1> DEFINE p == req[r].payment
           x == [req[r] EXCEPT !.pc = "record", !.outcome = o]
<1>1. /\ req[r] \in Request /\ RequestOK(req[r]) /\ req[r].pc = "topup"
      /\ p \in Payments /\ req[r].charge \in Charges
      /\ charges[req[r].charge].payment = p
  BY DEF At, IInv, TypeOK, RequestOK, Request, LockedPC
<1>2. WasApproved(p)
  BY <1>1 DEF RequestOK, WasApproved, Approved
<1>3. credits' \in [Payments -> Nat] /\ ledger' \subseteq Payments \cup Charges
  <2>1. credits \in [Payments -> Nat] /\ ledger \subseteq Payments \cup Charges
    BY DEF IInv, TypeOK
  <2> QED
    BY <1>1, <2>1
<1>4. Kept
  BY DEF Kept
<1>5. DataInv'
  <2>1. \A q \in Payments : credits'[q] = IF q \in ledger' THEN 1 ELSE 0
    <3>1. credits \in [Payments -> Nat]
      BY DEF IInv, TypeOK
    <3>2. \A q \in Payments : credits[q] = IF q \in ledger THEN 1 ELSE 0
      BY DEF IInv, DataInv
    <3>3. credits'[p] = 1 /\ \A q \in Payments \ {p} : credits'[q] = credits[q]
      BY <1>1, <3>1, <3>2
    <3> QED
      BY <1>1, <3>2, <3>3
  <2>2. \A q \in Payments : WasApproved(q)' <=> WasApproved(q)
    BY DEF WasApproved
  <2>3. \A q \in Payments : q \in ledger' => WasApproved(q)
    BY <1>2 DEF IInv, DataInv
  <2> QED
    BY <2>1, <2>2, <2>3 DEF IInv, DataInv, Approved
<1>6. x \in Request
  BY <1>1, ToppedRecord DEF Outcome
<1>7. req' = [req EXCEPT ![r] = x] /\ req'[r] = x
  BY DEF Topped, IInv, TypeOK
<1>8. RequestOK(req[r])'
  <2>1. /\ x.pc = "record" /\ x.outcome = o /\ x.payment = p /\ x.charge = req[r].charge
        /\ x.seen = req[r].seen /\ x.stale = req[r].stale /\ x.base = req[r].base
        /\ x.approval = req[r].approval
    BY <1>1 DEF Request
  <2>2. p \in ledger' /\ req[r].charge # None /\ Approved(req[r].charge)
    BY <1>1 DEF RequestOK, LockedPC
  <2> HIDE DEF x
  <2> QED
    BY <1>1, <1>7, <2>1, <2>2 DEF RequestOK, VerifyPC, LockedPC, Approved
<1> QED
  BY <1>3, <1>4, <1>5, <1>6, <1>7, <1>8, RequestSet DEF IInv, TypeOK

\* topUp answers without crediting, or an error follows it.
LEMMA ToppedStep ==
    ASSUME IInv, NEW r \in Requests, req[r].pc \in {"topup", "record", "notify"},
           NEW o \in {"conflict", "failed"}, Topped(r, o),
           o = "conflict" => req[r].payment \in ledger,
           UNCHANGED <<payments, charges, undelivered, ledger, credits, lock>>
    PROVE  IInv'
<1> DEFINE x == [req[r] EXCEPT !.pc = "record", !.outcome = o]
<1>1. req[r] \in Request /\ RequestOK(req[r])
  BY DEF IInv, TypeOK
<1>2. x \in Request
  BY <1>1, ToppedRecord DEF Outcome
<1>3. RequestOK(x)
  BY <1>1 DEF RequestOK, Request, VerifyPC, LockedPC
<1> QED
  BY <1>2, <1>3, LocalStep DEF Topped

LEMMA RecordTopupStep ==
    ASSUME IInv, NEW r \in Requests, RecordTopup(r)
    PROVE  IInv'
<1> DEFINE p == req[r].payment
           t == TopupMark(req[r].outcome)
           x == [req[r] EXCEPT !.pc = "notify"]
<1>1. /\ req[r] \in Request /\ RequestOK(req[r]) /\ req[r].pc = "record"
      /\ p \in Payments /\ req[r].charge \in Charges
      /\ charges[req[r].charge].payment = p
      /\ req[r].outcome \in {"credited", "conflict", "failed"}
  BY DEF RecordTopup, At, IInv, TypeOK, RequestOK, Request, LockedPC, Outcome
<1>2. WasApproved(p)
  BY <1>1 DEF RequestOK, WasApproved, Approved
<1>3. t \in TopupStatus /\ (t = "COMPLETED" => p \in ledger)
  BY <1>1 DEF TopupMark, TopupStatus, RequestOK
<1>4. UNCHANGED <<charges, undelivered, ledger, credits, lock>>
  BY DEF RecordTopup
<1>5. Kept /\ DataInv' /\ payments' \in [Payments -> Row]
  <2>1. mergeWebhookProcessingResult(p, "COMPLETED", t)
    BY DEF RecordTopup
  <2> HIDE DEF t
  <2> QED
    BY <1>1, <1>2, <1>3, <1>4, <2>1, MergeKeeps DEF PaymentStatus
<1>6. ASSUME NEW b \in BOOLEAN, Leave(r, b), b => p \in ledger
      PROVE  IInv'
  <2>1. Left(req[r], b) \in Request /\ RequestOK(Left(req[r], b))
    BY <1>1, <1>6, LeftOK DEF LockedPC
  <2> QED
    BY <1>4, <1>5, <1>6, <2>1, RequestMoves DEF Leave, IInv, TypeOK
<1>7. CASE req[r].outcome = "credited" /\ req' = [req EXCEPT ![r] = x]
  <2>1. x \in Request
    BY <1>1 DEF Request, PC, LockedPC
  <2>2. RequestOK(x)
    BY <1>1, <1>7 DEF RequestOK, Request, VerifyPC, LockedPC
  <2> QED
    BY <1>4, <1>5, <1>7, <2>1, <2>2, RequestMoves DEF IInv, TypeOK
<1>8. \/ req[r].outcome = "credited" /\ Goto(r, "notify")
      \/ req[r].outcome = "conflict" /\ Leave(r, TRUE)
      \/ Leave(r, FALSE)
  BY <1>1 DEF RecordTopup
<1> QED
  BY <1>1, <1>6, <1>7, <1>8 DEF Goto, RequestOK

LEMMA ReleasePaymentLockStep ==
    ASSUME IInv, NEW r \in Requests, NEW s \in Sessions, releasePaymentLock(r, s)
    PROVE  IInv'
<1> DEFINE p == req[r].payment
<1>1. /\ req[r] \in Request /\ RequestOK(req[r]) /\ req[r].pc = "release"
      /\ p \in Payments /\ lock[p] \in Lock /\ req[r].charge \in Charges
      /\ charges[req[r].charge].payment = p
  BY DEF releasePaymentLock, At, IInv, TypeOK, RequestOK, Request, LockedPC
<1>2. lock' \in [Payments -> Lock] /\ \A q \in Payments : lock'[q].owner # None => lock'[q].depth > 0
  <2>1. CASE lock' = lock
    BY <2>1 DEF IInv, TypeOK, DataInv
  <2>2. CASE lock' = [lock EXCEPT ![p] = FreeLock]
    <3>1. FreeLock \in Lock /\ FreeLock.owner = None
      BY DEF FreeLock, Lock
    <3> QED
      BY <1>1, <2>2, <3>1 DEF IInv, TypeOK, DataInv
  <2>3. CASE /\ lock[p].owner = s /\ lock[p].depth # 1
             /\ lock' = [lock EXCEPT ![p] = [lock[p] EXCEPT !.depth = @ - 1]]
    <3> DEFINE l == [lock[p] EXCEPT !.depth = @ - 1]
    <3>1. lock[p].depth \in Nat /\ lock[p].depth > 1
      BY <1>1, <2>3, ConstantsAssumption DEF IInv, DataInv, Lock
    <3>2. l \in Lock /\ l.depth > 0
      BY <1>1, <3>1 DEF Lock
    <3> HIDE DEF l
    <3> QED
      BY <1>1, <2>3, <3>2 DEF IInv, TypeOK, DataInv, l
  <2> QED
    BY <2>1, <2>2, <2>3 DEF releasePaymentLock
<1>3. /\ undelivered' \subseteq undelivered
      /\ \A c \in undelivered \ undelivered' :
            charges[c].status = "refunded" \/ charges[c].payment \in ledger
  BY <1>1 DEF releasePaymentLock, RequestOK
<1>4. UNCHANGED <<payments, charges, ledger, credits>>
  BY DEF releasePaymentLock
<1>5. Kept
  BY <1>4 DEF Kept
<1>6. DataInv'
  BY <1>2, <1>3, <1>4 DEF IInv, DataInv, WasApproved, Approved
<1>7. undelivered' \subseteq Charges
  BY <1>3 DEF IInv, TypeOK
<1> QED
  BY <1>2, <1>4, <1>5, <1>6, <1>7, FinishedOK, RequestMoves
     DEF releasePaymentLock, Finish, IInv, TypeOK

-----------------------------------------------------------------------------
(* The environment *)

LEMMA ChargeChangesStep ==
    ASSUME IInv, NEW c \in Charges, ChargeChanges(c)
    PROVE  IInv'
<1>1. PICK s \in ProviderStatus :
        /\ \/ charges[c].status = "pending" /\ s \in {"approved", "rejected", "cancelled"}
           \/ charges[c].status = "approved" /\ s = "refunded"
        /\ charges' = [charges EXCEPT ![c] = [@ EXCEPT !.status = s]]
        /\ undelivered' = IF s = "approved" THEN undelivered \cup {c} ELSE undelivered
        /\ UNCHANGED <<payments, ledger, credits, lock, req>>
  BY DEF ChargeChanges
<1> DEFINE ch == [charges[c] EXCEPT !.status = s]
<1>2. charges[c] \in Charge /\ charges[c].payment \in Payments
  BY <1>1 DEF IInv, TypeOK, Charge, DataInv
<1>3. ch \in Charge /\ ch.status = s /\ ch.payment = charges[c].payment
  BY <1>2 DEF Charge
<1>4. Kept /\ DataInv' /\ charges' \in [Charges -> Charge] /\ undelivered' \subseteq Charges
  <2> HIDE DEF ch
  <2> QED
    BY <1>1, <1>2, <1>3, ChargeWrite DEF ch
<1>5. \A q \in Requests : RequestOK(req[q])'
  BY <1>1, <1>4, RequestKept DEF IInv, TypeOK
<1> QED
  BY <1>1, <1>4, <1>5 DEF IInv, TypeOK

LEMMA CrashStep ==
    ASSUME IInv, Crash
    PROVE  IInv'
<1>1. Kept
  BY DEF Crash, Kept
<1>2. FreeLock \in Lock /\ FreeLock.owner = None
  BY DEF FreeLock, Lock
<1>3. TypeOK'
  BY <1>2, FinishedOK DEF Crash, IInv, TypeOK
<1>4. DataInv'
  BY <1>2 DEF Crash, IInv, DataInv, WasApproved, Approved
<1>5. \A q \in Requests : RequestOK(req[q])'
  BY <1>1, FinishedOK, RequestKept DEF Crash
<1> QED
  BY <1>3, <1>4, <1>5 DEF IInv

-----------------------------------------------------------------------------
(* The inductive invariant *)

LEMMA IInvInit == Init => IInv
<1> SUFFICES ASSUME Init PROVE IInv
  OBVIOUS
<1>1. FreeLock \in Lock /\ FreeLock.owner = None
  BY DEF FreeLock, Lock
<1>2. TypeOK
  BY <1>1, FinishedOK
     DEF Init, TypeOK, Row, Charge, TopupStatus
<1>3. DataInv
  BY <1>1 DEF Init, DataInv, WasApproved, Approved
<1>4. \A r \in Requests : RequestOK(req[r])
  BY FinishedOK DEF Init
<1> QED
  BY <1>2, <1>3, <1>4 DEF IInv

LEMMA IInvNext == IInv /\ [Next]_vars => IInv'
<1> SUFFICES ASSUME IInv, [Next]_vars PROVE IInv'
  OBVIOUS
<1>1. CASE \E p \in Payments : createPayment(p)
  BY <1>1, CreatePaymentStep
<1>2. ASSUME NEW r \in Requests, NEW p \in Payments, processPayment(r, p) \/ verifyPaymentStatus(r, p)
      PROVE  IInv'
  BY <1>2, ProcessPaymentStep, VerifyPaymentStatusStep
<1>3. ASSUME NEW r \in Requests, NEW c \in Charges, NEW a \in BOOLEAN, handleClipWebhook(r, c, a)
      PROVE  IInv'
  BY <1>3, HandleClipWebhookStep
<1>4. ASSUME NEW r \in Requests, Handler(r) PROVE IInv'
  <2>1. CASE ProcessReset(r) \/ ProcessPost(r) \/ ProcessStore(r)
    BY <2>1, ProcessResetStep, ProcessPostStep, StoreStep
  <2>2. CASE VerifyGet(r) \/ VerifySave(r)
    BY <2>2, VerifyGetStep, StoreStep
  <2>3. CASE acquirePaymentLock(r)
    BY <2>3, AcquirePaymentLockStep
  <2>4. CASE LockTimeout(r)
    BY <2>4, FinishStep DEF LockTimeout
  <2>5. CASE Reread(r) \/ getConfirmedProviderPayment(r)
    BY <2>5, RereadStep, GetConfirmedProviderPaymentStep
  <2>6. CASE ReadPayload(r) \/ WritePayload(r) \/ RecordTopup(r)
    BY <2>6, ReadPayloadStep, WritePayloadStep, RecordTopupStep
  <2>7. CASE Notify(r)
    <3>1. req[r].pc \in LockedPC /\ req[r].payment \in ledger
      BY <2>7 DEF Notify, At, LockedPC, IInv, RequestOK
    <3> QED
      BY <2>7, <3>1, LeaveStep DEF Notify
  <2>8. CASE \E s \in Sessions : releasePaymentLock(r, s)
    BY <2>8, ReleasePaymentLockStep
  <2> QED
    BY <1>4, <2>1, <2>2, <2>3, <2>4, <2>5, <2>6, <2>7, <2>8 DEF Handler
<1>5. ASSUME NEW r \in Requests, TopUp(r) \/ TopUpFails(r) PROVE IInv'
  <2>1. CASE TopUpCredits(r)
    BY <2>1, CreditStep DEF TopUpCredits, externalTransactionId
  <2>2. CASE TopUpConflict(r)
    BY <2>2, ToppedStep DEF TopUpConflict, externalTransactionId, At
  <2>3. CASE TopUpFails(r)
    <3>1. CASE UNCHANGED <<ledger, credits>>
      BY <2>3, <3>1, ToppedStep DEF TopUpFails, At
    <3>2. CASE ~ UNCHANGED <<ledger, credits>>
      BY <2>3, <3>2, CreditStep DEF TopUpFails, externalTransactionId
    <3> QED
      BY <3>1, <3>2
  <2> QED
    BY <1>5, <2>1, <2>2, <2>3 DEF TopUp
<1>6. ASSUME NEW r \in Requests, RequestThrow(r) PROVE IInv'
  BY <1>6, FinishStep DEF RequestThrow
<1>7. ASSUME NEW r \in Requests, WebhookThrow(r) PROVE IInv'
  <2>1. req[r].pc \in LockedPC
    BY <1>7 DEF WebhookThrow, At, LockedPC
  <2> QED
    BY <1>7, <2>1, LeaveStep DEF WebhookThrow
<1>8. ASSUME NEW r \in Requests, AfterTopUpThrow(r) PROVE IInv'
  BY <1>8, ToppedStep DEF AfterTopUpThrow, At
<1>9. CASE \E c \in Charges : ChargeChanges(c)
  BY <1>9, ChargeChangesStep
<1>10. CASE Crash
  BY <1>10, CrashStep
<1>11. CASE UNCHANGED vars
  <2>1. UNCHANGED <<payments, charges, undelivered, ledger, credits, lock, req>>
    BY <1>11 DEF vars
  <2>2. TypeOK'
    BY <2>1 DEF IInv, TypeOK
  <2>3. DataInv'
    BY <2>1 DEF IInv, DataInv, WasApproved, Approved
  <2>4. ASSUME NEW q \in Requests PROVE RequestOK(req[q])'
    <3>1. Kept
      BY <2>1 DEF Kept
    <3>2. req[q] \in Request /\ RequestOK(req[q]) /\ req'[q] = req[q]
      BY <2>1 DEF IInv, TypeOK
    <3> QED
      BY <3>1, <3>2, RequestKept
  <2> QED
    BY <2>2, <2>3, <2>4 DEF IInv
<1> QED
  BY <1>1, <1>2, <1>3, <1>4, <1>5, <1>6, <1>7, <1>8, <1>9, <1>10, <1>11 DEF Next

\* The inductive invariant holds in every reachable state.
THEOREM IInvInvariant == Spec => []IInv
  BY IInvInit, IInvNext, PTL DEF Spec

\* Every variable keeps its type: statuses stay within the database enum and the
\* depth of a named lock never drops below zero.
THEOREM TypeCorrect == Spec => []TypeOK
  BY IInvInvariant, PTL DEF IInv

\* A payment recorded with topup COMPLETED was credited (handleClipWebhook).
THEOREM TopupMarkerSoundThm == Spec => []TopupMarkerSound
<1>1. IInv => TopupMarkerSound
  <2> SUFFICES ASSUME IInv, NEW p \in Payments, payments[p].topup = "COMPLETED"
               PROVE  credits[p] > 0
    BY DEF TopupMarkerSound
  <2>1. p \in ledger
    BY DEF IInv, DataInv
  <2>2. credits[p] = 1
    BY <2>1 DEF IInv, DataInv
  <2> QED
    BY <2>2
<1> QED
  BY <1>1, IInvInvariant, PTL

\* A COMPLETED payment has a charge that the provider approved.
THEOREM CompletedOnlyIfApprovedThm == Spec => []CompletedOnlyIfApproved
<1>1. IInv => CompletedOnlyIfApproved
  BY DEF IInv, DataInv, CompletedOnlyIfApproved
<1> QED
  BY <1>1, IInvInvariant, PTL

\* No approval is acknowledged to the provider before the wallet is credited.
THEOREM NoCreditForgottenThm == Spec => []NoCreditForgotten
<1>1. IInv => NoCreditForgotten
  <2> SUFFICES ASSUME IInv, NEW c \in Charges, charges[c].status = "approved",
                      credits[charges[c].payment] = 0
               PROVE  c \in undelivered
    BY DEF NoCreditForgotten
  <2>1. charges[c].payment \in Payments
    BY DEF IInv, TypeOK, Charge, DataInv
  <2>2. charges[c].payment \notin ledger
    BY <2>1 DEF IInv, DataInv
  <2> QED
    BY <2>2 DEF IInv, DataInv
<1> QED
  BY <1>1, IInvInvariant, PTL

-----------------------------------------------------------------------------
(* Refinement of WalletCrediting *)

Paid == {p \in Payments : WasApproved(p)}

\* A step that leaves the charges alone leaves the set of paid payments alone.
LEMMA PaidUnchanged == ASSUME UNCHANGED charges PROVE Paid' = Paid
  BY DEF Paid, WasApproved

\* A step that makes or settles one charge is a Pay step or changes nothing.
LEMMA PayStep ==
    ASSUME IInv, IInv', NEW c \in Charges, NEW ch \in Charge,
           charges' = [charges EXCEPT ![c] = ch],
           ch.payment \in Payments,
           charges[c].payment \in {None, ch.payment},
           charges[c].status \in {"approved", "refunded"} =>
               ch.status \in {"approved", "refunded"}
    PROVE  Paid' = Paid \/ Paid' = Paid \cup {ch.payment}
<1>1. charges'[c] = ch /\ \A d \in Charges \ {c} : charges'[d] = charges[d]
  BY DEF IInv, TypeOK
<1>2. \A p \in Payments \ {ch.payment} : WasApproved(p)' <=> WasApproved(p)
  BY <1>1, ConstantsAssumption DEF WasApproved
<1>3. WasApproved(ch.payment) => WasApproved(ch.payment)'
  BY <1>1, ConstantsAssumption DEF WasApproved
<1> QED
  BY <1>2, <1>3 DEF Paid

LEMMA CreditingNext ==
    ASSUME IInv, IInv', [Next]_vars
    PROVE  Crediting!Next \/ (Paid' = Paid /\ UNCHANGED credits)
<1>1. ASSUME UNCHANGED <<charges, credits>>
      PROVE  Paid' = Paid /\ UNCHANGED credits
  BY <1>1, PaidUnchanged
<1>2. ASSUME NEW r \in Requests, ProcessPost(r)
      PROVE  Crediting!Next \/ (Paid' = Paid /\ UNCHANGED credits)
  <2>1. PICK c \in Charges, s \in {"pending", "approved", "rejected"} :
            /\ charges[c].status = "none"
            /\ charges' = [charges EXCEPT ![c] = [payment |-> req[r].payment, status |-> s]]
    BY <1>2 DEF ProcessPost
  <2> DEFINE ch == [payment |-> req[r].payment, status |-> s]
  <2>2. /\ ch \in Charge /\ ch.payment = req[r].payment /\ ch.payment \in Payments
        /\ charges[c].payment = None
    BY <1>2, <2>1 DEF Charge, ProviderStatus, IInv, DataInv, RequestOK, ProcessPost, At
  <2>3. Paid' = Paid \/ Paid' = Paid \cup {req[r].payment}
    <3> HIDE DEF ch
    <3> QED
      BY <2>1, <2>2, PayStep DEF ch
  <2> QED
    BY <1>2, <2>2, <2>3 DEF ProcessPost, Crediting!Next, Crediting!Pay, Paid
<1>3. ASSUME NEW c \in Charges, ChargeChanges(c)
      PROVE  Crediting!Next \/ (Paid' = Paid /\ UNCHANGED credits)
  <2>1. PICK s \in ProviderStatus :
            /\ \/ charges[c].status = "pending" /\ s \in {"approved", "rejected", "cancelled"}
               \/ charges[c].status = "approved" /\ s = "refunded"
            /\ charges' = [charges EXCEPT ![c] = [@ EXCEPT !.status = s]]
    BY <1>3 DEF ChargeChanges
  <2> DEFINE ch == [charges[c] EXCEPT !.status = s]
  <2>2. /\ ch \in Charge /\ ch.status = s /\ ch.payment = charges[c].payment
        /\ ch.payment \in Payments
    BY <2>1 DEF Charge, IInv, TypeOK, DataInv
  <2>3. Paid' = Paid \/ Paid' = Paid \cup {charges[c].payment}
    <3> HIDE DEF ch
    <3> QED
      BY <2>1, <2>2, PayStep DEF ch
  <2> QED
    BY <1>3, <2>2, <2>3 DEF ChargeChanges, Crediting!Next, Crediting!Pay, Paid
<1>4. ASSUME NEW r \in Requests, At(r, "topup"), req[r].payment \notin ledger,
             credits' = [credits EXCEPT ![req[r].payment] = @ + 1],
             UNCHANGED charges
      PROVE  Crediting!Next
  <2> DEFINE p == req[r].payment
  <2>1. p \in Payments /\ p \in Paid /\ credits[p] = 0
    <3>1. RequestOK(req[r]) /\ req[r] \in Request
      BY DEF IInv, TypeOK
    <3>2. p \in Payments /\ req[r].charge \in Charges
      BY <1>4, <3>1 DEF At, RequestOK, Request, LockedPC
    <3>3. charges[req[r].charge].payment = p /\ Approved(req[r].charge)
      BY <1>4, <3>1, <3>2, ConstantsAssumption DEF At, RequestOK
    <3>4. p \in Paid
      BY <3>2, <3>3 DEF Paid, WasApproved, Approved
    <3>5. credits[p] = 0
      BY <1>4, <3>2 DEF IInv, DataInv
    <3> QED
      BY <3>2, <3>4, <3>5
  <2>2. credits' = [credits EXCEPT ![p] = 1] /\ Paid' = Paid
    BY <1>4, <2>1, PaidUnchanged
  <2> QED
    BY <2>1, <2>2 DEF Crediting!Next, Crediting!Credit, Paid
<1>5. CASE UNCHANGED vars
  BY <1>1, <1>5 DEF vars
<1>6. ASSUME NEW r \in Requests, Handler(r)
      PROVE  ProcessPost(r) \/ UNCHANGED <<charges, credits>>
  BY <1>6 DEF Handler, ProcessReset, ProcessStore, VerifyGet, VerifySave, acquirePaymentLock,
     LockTimeout, Reread, getConfirmedProviderPayment, ReadPayload, WritePayload, RecordTopup,
     Notify, releasePaymentLock
<1>7. ASSUME NEW r \in Requests, TopUp(r) \/ TopUpFails(r)
      PROVE  Crediting!Next \/ (Paid' = Paid /\ UNCHANGED credits)
  <2>1. CASE UNCHANGED <<ledger, credits>>
    BY <1>1, <1>7, <2>1 DEF TopUp, TopUpCredits, TopUpConflict, TopUpFails
  <2>2. CASE ~ UNCHANGED <<ledger, credits>>
    BY <1>4, <1>7, <2>2
       DEF TopUp, TopUpCredits, TopUpConflict, TopUpFails, externalTransactionId
  <2> QED
    BY <2>1, <2>2
<1>8. ASSUME NEW r \in Requests, RequestThrow(r) \/ WebhookThrow(r) \/ AfterTopUpThrow(r)
      PROVE  UNCHANGED <<charges, credits>>
  BY <1>8 DEF RequestThrow, WebhookThrow, AfterTopUpThrow
<1>9. CASE \/ \E p \in Payments : createPayment(p)
           \/ \E r \in Requests, p \in Payments : processPayment(r, p) \/ verifyPaymentStatus(r, p)
           \/ \E r \in Requests, c \in Charges, a \in BOOLEAN : handleClipWebhook(r, c, a)
           \/ Crash
  BY <1>1, <1>9 DEF createPayment, processPayment, verifyPaymentStatus, handleClipWebhook, Crash
<1> QED
  BY <1>1, <1>2, <1>3, <1>5, <1>6, <1>7, <1>8, <1>9 DEF Next

\* ClipPayments implements WalletCrediting: at most one credit per payment, and
\* none before the provider approved a charge of it.
THEOREM Refinement == Spec => CreditedOnceAndOnlyIfPaid
<1>1. Init => Crediting!Init
  BY DEF Init, Crediting!Init, WasApproved
<1>2. IInv /\ IInv' /\ [Next]_vars => [Crediting!Next]_<<Paid, credits>>
  BY CreditingNext
<1>3. Spec => Init /\ []IInv /\ [][Next]_vars
  BY IInvInvariant, PTL DEF Spec
<1> QED
  BY <1>1, <1>2, <1>3, PTL DEF CreditedOnceAndOnlyIfPaid, Crediting!Spec, Paid

-----------------------------------------------------------------------------
(* Fees: integer division and products *)

\* Integer division by a positive number is the quotient that leaves a remainder.
LEMMA DivBounds ==
    ASSUME NEW a \in Int, NEW m \in Nat \ {0}
    PROVE  /\ a \div m \in Int
           /\ m * (a \div m) <= a
           /\ a < m * (a \div m) + m
OBVIOUS

\* There is one such quotient.
LEMMA DivIs ==
    ASSUME NEW a \in Int, NEW m \in Nat \ {0}, NEW q \in Int, m * q <= a, a < m * q + m
    PROVE  a \div m = q
OBVIOUS

\* A multiple of the divisor passes through a division.
LEMMA DivShift ==
    ASSUME NEW a \in Int, NEW n \in Int, NEW m \in Nat \ {0}
    PROVE  (a + n * m) \div m = (a \div m) + n
<1> DEFINE q == a \div m
<1>1. q \in Int /\ m * q <= a /\ a < m * q + m
    BY DivBounds
<1> HIDE DEF q
<1>2. m * (q + n) = m * q + n * m
    BY <1>1
<1>3. m * (q + n) <= a + n * m /\ a + n * m < m * (q + n) + m
    BY <1>1, <1>2
<1>4. (a + n * m) \div m = q + n
    BY <1>1, <1>3, DivIs
<1> QED BY <1>4 DEF q

\* Rounding a fraction plus an integer is rounding the fraction and adding the integer.
LEMMA RoundShift ==
    ASSUME NEW a \in Int, NEW n \in Int, NEW b \in Nat \ {0}
    PROVE  Round(a + n * b, b) = Round(a, b) + n
<1>1. 2 * b \in Nat \ {0} /\ 2 * a + b \in Int
    OBVIOUS
<1>2. 2 * (a + n * b) + b = (2 * a + b) + n * (2 * b)
    OBVIOUS
<1>3. ((2 * a + b) + n * (2 * b)) \div (2 * b) = ((2 * a + b) \div (2 * b)) + n
    BY <1>1, DivShift
<1> QED BY <1>2, <1>3 DEF Round

\* A product grows with its second factor.
LEMMA ProductGrows ==
    ASSUME NEW a \in Nat, NEW x \in Int, NEW y \in Int, x <= y
    PROVE  a * x <= a * y
OBVIOUS

\* The value of a rounded fraction is within half a unit of it.
LEMMA RoundBounds ==
    ASSUME NEW a \in Int, NEW b \in Nat \ {0}
    PROVE  /\ Round(a, b) \in Int
           /\ (2 * b) * Round(a, b) <= 2 * a + b
           /\ 2 * a + b < (2 * b) * Round(a, b) + 2 * b
<1>1. 2 * b \in Nat \ {0} /\ 2 * a + b \in Int
    OBVIOUS
<1> QED BY <1>1, DivBounds DEF Round

\* Rounding a sum and summing what was rounded differ by at most one.
LEMMA RoundSum ==
    ASSUME NEW x \in Int, NEW y \in Int, NEW b \in Nat \ {0}
    PROVE  /\ Round(x + y, b) <= Round(x, b) + Round(y, b) + 1
           /\ Round(x, b) + Round(y, b) <= Round(x + y, b) + 1
<1> DEFINE p == Round(x, b)
           q == Round(y, b)
           s == Round(x + y, b)
<1>1. p \in Int /\ (2 * b) * p <= 2 * x + b /\ 2 * x + b < (2 * b) * p + 2 * b
    BY RoundBounds
<1>2. q \in Int /\ (2 * b) * q <= 2 * y + b /\ 2 * y + b < (2 * b) * q + 2 * b
    BY RoundBounds
<1>3. s \in Int /\ (2 * b) * s <= 2 * (x + y) + b /\ 2 * (x + y) + b < (2 * b) * s + 2 * b
    BY RoundBounds
<1> HIDE DEF p, q, s
<1>4. /\ (2 * b) * (s - p - q) = (2 * b) * s - (2 * b) * p - (2 * b) * q
      /\ (2 * b) * (p + q - s) = (2 * b) * p + (2 * b) * q - (2 * b) * s
    BY <1>1, <1>2, <1>3
<1>5. (2 * b) * p \in Int /\ (2 * b) * q \in Int /\ (2 * b) * s \in Int
    BY <1>1, <1>2, <1>3
<1>6. (2 * b) * (s - p - q) < (2 * b) * 2 /\ (2 * b) * (p + q - s) < (2 * b) * 2
    BY <1>1, <1>2, <1>3, <1>4, <1>5
<1>7. ASSUME NEW d \in Int, (2 * b) * d < (2 * b) * 2 PROVE d <= 1
    <2> SUFFICES ASSUME 2 <= d PROVE FALSE
        OBVIOUS
    <2>1. 2 * b \in Nat /\ (2 * b) * 2 <= (2 * b) * d
        BY ProductGrows
    <2>2. (2 * b) * 2 \in Int /\ (2 * b) * d \in Int
        OBVIOUS
    <2> QED BY <1>7, <2>1, <2>2
<1>8. s - p - q <= 1 /\ p + q - s <= 1
    <2>1. s - p - q \in Int /\ p + q - s \in Int
        BY <1>1, <1>2, <1>3
    <2> QED BY <1>6, <1>7, <2>1
<1> QED BY <1>1, <1>2, <1>3, <1>8 DEF p, q, s

-----------------------------------------------------------------------------
(* The fees of a payment row and the quoted rate *)

\* What createPayment has before the columns round it adds up, and the net amount is
\* rounded to the same over either denominator.
LEMMA ExactSum ==
    ASSUME NEW n \in Nat, NEW k \in Nat \ {0}, NEW rate \in Nat, rate < 1000,
           NEW x, x = FeeNum(n, rate), NEW y, y = n * (1000 - rate),
           NEW b, b = k * (1000 - rate)
    PROVE  /\ b \in Nat \ {0} /\ x \in Int /\ y \in Int
           /\ GrossNum(n, rate) = x + y
           /\ Round(y, b) = Round(n, k)
<1>1. PICK c \in Nat \ {0} : c = 1000 - rate
    OBVIOUS
<1>2. b \in Nat \ {0} /\ y \in Int /\ b = k * c /\ y = n * c
    BY <1>1
<1>3. x \in Int /\ GrossNum(n, rate) = x + y
    BY DEF FeeNum, GrossNum
<1> DEFINE q == Round(n, k)
<1>4. q \in Int /\ (2 * k) * q <= 2 * n + k /\ 2 * n + k < (2 * k) * q + 2 * k
    BY RoundBounds
<1> HIDE DEF q
<1>5. (2 * k) * q \in Int /\ 2 * n + k \in Int /\ (2 * k) * q + 2 * k \in Int
    BY <1>4
<1>6. c * ((2 * k) * q) <= c * (2 * n + k)
    BY <1>4, <1>5, ProductGrows
<1>7. c * (2 * n + k + 1) <= c * ((2 * k) * q + 2 * k)
    BY <1>4, <1>5, ProductGrows
<1>8. /\ c * ((2 * k) * q) = (2 * b) * q
      /\ c * (2 * n + k) = 2 * y + b
      /\ c * (2 * n + k + 1) = 2 * y + b + c
      /\ c * ((2 * k) * q + 2 * k) = (2 * b) * q + 2 * b
    BY <1>2, <1>4
<1>9. (2 * b) * q \in Int /\ 2 * b \in Nat \ {0} /\ 2 * y + b \in Int
    BY <1>2, <1>4
<1>10. (2 * b) * q <= 2 * y + b /\ 2 * y + b < (2 * b) * q + 2 * b
    BY <1>6, <1>7, <1>8, <1>9
<1>11. (2 * y + b) \div (2 * b) = q
    BY <1>4, <1>9, <1>10, DivIs
<1> QED BY <1>2, <1>3, <1>11 DEF q, Round

\* For every amount the validator takes and every fee rate below one, the columns of the
\* row that createPayment writes add up to within a cent, although the three are rounded
\* separately: 1.184 is stored as 1.25 charged, 1.18 net and 0.06 fee at the default rate.
THEOREM RowAddsUpToACent ==
    ASSUME NEW n \in Nat, NEW k \in Nat \ {0}, NEW rate \in Nat, rate < 1000
    PROVE  LET row == createPaymentRow(n, k, rate)
           IN  /\ row.amount <= row.net_amount + row.business_fee_amount + 1
               /\ row.net_amount + row.business_fee_amount <= row.amount + 1
<1> DEFINE b == k * (1000 - rate)
           x == FeeNum(n, rate)
           y == n * (1000 - rate)
<1>1. /\ b \in Nat \ {0} /\ x \in Int /\ y \in Int
      /\ GrossNum(n, rate) = x + y /\ Round(y, b) = Round(n, k)
    <2>1. PICK b1, x1, y1 : b1 = b /\ x1 = x /\ y1 = y
        OBVIOUS
    <2> QED BY <2>1, ExactSum
<1>2. /\ createPaymentRow(n, k, rate).amount = Round(x + y, b)
      /\ createPaymentRow(n, k, rate).business_fee_amount = Round(x, b)
      /\ createPaymentRow(n, k, rate).net_amount = Round(y, b)
    BY <1>1 DEF createPaymentRow
<1> HIDE DEF b, x, y
<1>3. /\ Round(x + y, b) <= Round(x, b) + Round(y, b) + 1
      /\ Round(x, b) + Round(y, b) <= Round(x + y, b) + 1
    BY <1>1, RoundSum
<1>4. Round(x, b) \in Int /\ Round(y, b) \in Int /\ Round(x + y, b) \in Int
    BY <1>1, RoundBounds
<1> QED BY <1>2, <1>3, <1>4

\* For an amount in whole cents they add up exactly.
THEOREM WholeCentsAddUp ==
    ASSUME NEW m \in Nat, NEW k \in Nat \ {0}, NEW rate \in Nat, rate < 1000
    PROVE  LET row == createPaymentRow(m * k, k, rate)
           IN  row.net_amount = m /\ row.amount = row.net_amount + row.business_fee_amount
<1> DEFINE b == k * (1000 - rate)
           x == FeeNum(m * k, rate)
<1>1. m * k \in Nat
    OBVIOUS
<1>2. /\ b \in Nat \ {0} /\ x \in Int
      /\ GrossNum(m * k, rate) = x + (m * k) * (1000 - rate)
    <2>1. b \in Nat \ {0}
        <3>1. PICK c \in Nat \ {0} : c = 1000 - rate
            OBVIOUS
        <3> QED BY <3>1
    <2> QED BY <1>1, <2>1 DEF GrossNum, FeeNum
<1>3. (m * k) * (1000 - rate) = m * b
    OBVIOUS
<1>4. Round(m * k, k) = m
    <2>1. Round(0 + m * k, k) = Round(0, k) + m
        BY RoundShift
    <2>2. Round(0, k) = 0
        <3>1. k \div (2 * k) = 0
            BY DivIs
        <3> QED BY <3>1 DEF Round
    <2> QED BY <1>1, <2>1, <2>2
<1> HIDE DEF b, x
<1>5. Round(x + m * b, b) = Round(x, b) + m /\ Round(x, b) \in Int
    BY <1>2, RoundShift, RoundBounds
<1>6. /\ createPaymentRow(m * k, k, rate).amount = Round(x + m * b, b)
      /\ createPaymentRow(m * k, k, rate).business_fee_amount = Round(x, b)
      /\ createPaymentRow(m * k, k, rate).net_amount = m
    BY <1>2, <1>3, <1>4 DEF createPaymentRow, b, x
<1> QED BY <1>5, <1>6

\* For all prices, and fees of which the one on BOB/USDT is not the larger (the defaults
\* are 12 and 33 thousandths), the customer is never quoted more than the market rate,
\* although the fee on BOB/USDT divides and so raises the quote.
THEOREM NotAboveMarket ==
    ASSUME NEW bob \in Nat, NEW mxn \in Nat,
           NEW bobFee \in Nat, NEW mxnFee \in Nat, bobFee <= mxnFee, mxnFee < 1000
    PROVE  LET rate == buildBobMxnRate(bob, mxn, bobFee, mxnFee)
           IN  rate.num * bob <= mxn * rate.den
<1>1. 1000 - mxnFee <= 1000 - bobFee
    OBVIOUS
<1>2. mxn * bob \in Nat
    OBVIOUS
<1>3. (mxn * bob) * (1000 - mxnFee) <= (mxn * bob) * (1000 - bobFee)
    BY <1>1, <1>2, ProductGrows
<1>4. (mxn * (1000 - mxnFee)) * bob = (mxn * bob) * (1000 - mxnFee)
    OBVIOUS
<1>5. mxn * (bob * (1000 - bobFee)) = (mxn * bob) * (1000 - bobFee)
    OBVIOUS
<1>6. (mxn * (1000 - mxnFee)) * bob <= mxn * (bob * (1000 - bobFee))
    BY <1>3, <1>4, <1>5
<1> QED BY <1>6 DEF buildBobMxnRate, applyFee
=============================================================================
