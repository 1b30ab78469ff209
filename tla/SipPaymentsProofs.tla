-------------------------- MODULE SipPaymentsProofs -------------------------
(***************************************************************************)
(* Proofs about the SIP gateway: SipPayments, for any number of orders,     *)
(* keys and requests and any set of faults, and the token its calls use     *)
(* (SipToken), for every validity, lifetime in the cache and timeout that   *)
(* fit together.                                                            *)
(***************************************************************************)
EXTENDS SipPayments, TokenCache, TLAPS

\* The wallet was credited under the key of the order.
Credited(o) == payments[o].key \in ledger

\* The bank was paid in full, or did not tell what differs.
Accepted(o) == paid[o] = "match" \/ o \in unchecked

\* The table, the bank and the wallet.
DataInv ==
    /\ \A o \in Orders : payments[o].status = "ABSENT" <=> payments[o].key = None
    /\ \A o1, o2 \in Orders :
            payments[o1].key = payments[o2].key /\ payments[o1].key # None => o1 = o2
    /\ \A k \in ledger : KeyUsed(k)
    /\ \A o \in qrs : payments[o].key # None
    /\ \A o \in Orders : payments[o].key = None =>
            ~payments[o].qr /\ paid[o] = "no"
    /\ \A o \in Orders : credits[o] = IF Credited(o) THEN 1 ELSE 0
    /\ \A o \in Orders : Credited(o) => Accepted(o) /\ transactions[o] > 0
    /\ \A o \in unchecked : paid[o] = "mismatch"
    /\ \A o \in Orders : payments[o].topup => Credited(o)
    /\ \A o \in Orders : paid[o] = "match" => payments[o].qr

\* What the local variables x of a request in flight are worth.
RequestOK(x) ==
    /\ x.pc = "create" => x.key \in Keys
    /\ x.pc \in {"generate", "saveQr"} \cup CallbackPC =>
            x.order \in Orders /\ payments[x.order].key # None
    /\ x.pc = "fail" => paid[x.order] = "mismatch"
    /\ x.pc \in CallbackPC \ {"fail"} => Accepted(x.order)
    /\ x.pc \in {"complete", "merge"} => /\ paid[x.order] = "match" => x.base.qr
                                         /\ x.base.topup => Credited(x.order)
    /\ x.pc = "topup" => transactions[x.order] > 0
    /\ x.pc \in {"record", "merge"} => Credited(x.order)

IInv == TypeOK /\ DataInv /\ \A r \in Requests : RequestOK(req[r])
-----------------------------------------------------------------------------
(* What no step undoes: keys, payments at the bank, transactions and credits. *)
Kept ==
    /\ ledger \subseteq ledger' /\ unchecked \subseteq unchecked'
    /\ \A o \in Orders :
        /\ payments[o].key # None => payments'[o].key = payments[o].key
        /\ paid[o] # "no" => paid'[o] = paid[o]
        /\ transactions[o] > 0 => transactions'[o] > 0

\* A request keeps its invariant while others move.
LEMMA RequestKept ==
    ASSUME IInv, Kept, NEW q \in Requests, NEW x \in Request, RequestOK(x), req'[q] = x
    PROVE  RequestOK(req[q])'
<1>1. \A o \in unchecked : paid[o] = "mismatch"
  BY DEF IInv, DataInv
<1>2. x.pc \in CallbackPC \ {"fail"} =>
        x.order \in Orders /\ paid'[x.order] = paid[x.order] /\ Accepted(x.order)'
  BY <1>1 DEF RequestOK, Kept, Accepted, CallbackPC
<1> QED
  BY <1>2 DEF RequestOK, Kept, Credited, CallbackPC

\* A step that moves request r to the record x.
LEMMA RequestSet ==
    ASSUME IInv, Kept, DataInv', NEW r \in Requests, NEW x \in Request,
           req' = [req EXCEPT ![r] = x], RequestOK(req[r])',
           payments' \in [Orders -> Row], transactions' \in [Orders -> Nat],
           qrs' \subseteq Orders, paid' \in [Orders -> {"no", "match", "mismatch"}],
           undelivered' \subseteq Orders, unchecked' \subseteq Orders, ledger' \subseteq Keys,
           credits' \in [Orders -> Nat]
    PROVE  IInv'
<1>1. TypeOK'
  BY DEF IInv, TypeOK
<1>2. ASSUME NEW q \in Requests \ {r} PROVE RequestOK(req[q])'
  <2>1. req[q] \in Request /\ req'[q] = req[q] /\ RequestOK(req[q])
    BY DEF IInv, TypeOK
  <2> QED
    BY <2>1, RequestKept
<1> QED
  BY <1>1, <1>2 DEF IInv

\* The same when the record was in order before the step.
LEMMA RequestMoves ==
    ASSUME IInv, Kept, DataInv', NEW r \in Requests, NEW x \in Request, RequestOK(x),
           req' = [req EXCEPT ![r] = x],
           payments' \in [Orders -> Row], transactions' \in [Orders -> Nat],
           qrs' \subseteq Orders, paid' \in [Orders -> {"no", "match", "mismatch"}],
           undelivered' \subseteq Orders, unchecked' \subseteq Orders, ledger' \subseteq Keys,
           credits' \in [Orders -> Nat]
    PROVE  IInv'
<1>1. req'[r] = x
  BY DEF IInv, TypeOK
<1>2. RequestOK(req[r])'
  BY <1>1, RequestKept
<1> QED
  BY <1>2, RequestSet

\* The same for a step that touches nothing but the request and what the bank repeats.
LEMMA LocalStep ==
    ASSUME IInv, NEW r \in Requests, NEW x \in Request, RequestOK(x),
           req' = [req EXCEPT ![r] = x], undelivered' \subseteq Orders,
           UNCHANGED <<payments, transactions, qrs, paid, unchecked, ledger, credits>>
    PROVE  IInv'
<1>1. Kept
  BY DEF Kept
<1>2. DataInv'
  BY DEF IInv, DataInv, KeyUsed, Credited, Accepted
<1> QED
  BY <1>1, <1>2, RequestMoves DEF IInv, TypeOK

\* The answered request.
LEMMA FinishedOK == IdleRequest \in Request /\ RequestOK(IdleRequest)
  BY DEF IdleRequest, Request, NoPayload, RequestOK, CallbackPC

LEMMA FinishStep ==
    ASSUME IInv, NEW r \in Requests, Finish(r), undelivered' \subseteq Orders,
           UNCHANGED <<payments, transactions, qrs, paid, unchecked, ledger, credits>>
    PROVE  IInv'
  BY FinishedOK, LocalStep DEF Finish

\* A write to one row of the table that leaves its key alone.
LEMMA RowWrite ==
    ASSUME IInv, NEW o \in Orders, NEW row \in Row,
           payments' = [payments EXCEPT ![o] = row],
           payments[o].key # None, row.key = payments[o].key, row.status # "ABSENT",
           row.topup => Credited(o), paid[o] = "match" => row.qr,
           UNCHANGED <<transactions, qrs, paid, unchecked, ledger, credits>>
    PROVE  Kept /\ DataInv' /\ payments' \in [Orders -> Row]
<1>1. payments' \in [Orders -> Row] /\ payments'[o] = row
  BY DEF IInv, TypeOK
<1>2. \A q \in Orders \ {o} : payments'[q] = payments[q]
  BY DEF IInv, TypeOK
<1>3. \A q \in Orders : payments'[q].key = payments[q].key
  BY <1>1, <1>2
<1>4. Kept
  BY <1>3 DEF Kept
<1>5. \A q \in Orders : Credited(q)' <=> Credited(q)
  BY <1>3 DEF Credited
<1>6. \A k \in ledger' : KeyUsed(k)'
  BY <1>3 DEF IInv, DataInv, KeyUsed
<1>7. DataInv'
  <2>1. \A q \in Orders : payments'[q].status = "ABSENT" <=> payments'[q].key = None
    BY <1>1, <1>2 DEF IInv, DataInv
  <2>2. \A o1, o2 \in Orders :
            payments'[o1].key = payments'[o2].key /\ payments'[o1].key # None => o1 = o2
    BY <1>3 DEF IInv, DataInv
  <2>3. \A q \in qrs' : payments'[q].key # None
    BY <1>3 DEF IInv, DataInv, TypeOK
  <2>4. \A q \in Orders : payments'[q].key = None => ~payments'[q].qr /\ paid'[q] = "no"
    BY <1>1, <1>2 DEF IInv, DataInv
  <2>5. \A q \in Orders : credits'[q] = IF Credited(q)' THEN 1 ELSE 0
    BY <1>5 DEF IInv, DataInv
  <2>6. \A q \in Orders : Credited(q)' => Accepted(q)' /\ transactions'[q] > 0
    BY <1>5 DEF IInv, DataInv, Accepted
  <2>7. \A q \in Orders : payments'[q].topup => Credited(q)'
    BY <1>1, <1>2, <1>5 DEF IInv, DataInv
  <2>8. \A q \in Orders : paid'[q] = "match" => payments'[q].qr
    BY <1>1, <1>2 DEF IInv, DataInv
  <2>9. \A q \in unchecked' : paid'[q] = "mismatch"
    BY DEF IInv, DataInv
  <2> QED
    BY <1>6, <2>1, <2>2, <2>3, <2>4, <2>5, <2>6, <2>7, <2>8, <2>9 DEF DataInv
<1> QED
  BY <1>1, <1>4, <1>7

-----------------------------------------------------------------------------
(* Steps of createSipQr *)

LEMMA CreateSipQrStep ==
    ASSUME IInv, NEW r \in Requests, NEW k \in Keys, createSipQr(r, k)
    PROVE  IInv'
<1> DEFINE x == [IdleRequest EXCEPT !.pc = "create", !.key = k]
<1>1. x \in Request
  BY DEF IdleRequest, NoPayload, Request, QrPC
<1>2. RequestOK(x)
  BY DEF RequestOK, IdleRequest, CallbackPC
<1>3. req' = [req EXCEPT ![r] = x] /\ undelivered' \subseteq Orders
  BY DEF createSipQr, IInv, TypeOK
<1> QED
  BY <1>1, <1>2, <1>3, LocalStep DEF createSipQr

\* A row inserted under an unused key.
LEMMA RowInsert ==
    ASSUME IInv, NEW o \in Orders, NEW k \in Keys, ~KeyUsed(k), payments[o].status = "ABSENT",
           payments' = [payments EXCEPT ![o] = [key |-> k, status |-> "PENDING",
                                                qr |-> FALSE, topup |-> FALSE]],
           UNCHANGED <<transactions, qrs, paid, unchecked, ledger, credits>>
    PROVE  Kept /\ DataInv' /\ payments' \in [Orders -> Row]
<1> DEFINE row == [key |-> k, status |-> "PENDING", qr |-> FALSE, topup |-> FALSE]
<1>1. row \in Row /\ row.key = k /\ row.status = "PENDING" /\ row.qr = FALSE /\ row.topup = FALSE
  BY DEF Row
<1>2. payments' = [payments EXCEPT ![o] = row]
  OBVIOUS
<1> HIDE DEF row
<1>3. payments' \in [Orders -> Row] /\ payments'[o] = row
  <2>1. payments \in [Orders -> Row] /\ row \in Row
    BY <1>1 DEF IInv, TypeOK
  <2> QED
    BY <1>2, <2>1
<1>4. \A q \in Orders \ {o} : payments'[q] = payments[q]
  BY <1>2 DEF IInv, TypeOK
<1>5. payments[o].key = None /\ k # None /\ k \notin ledger /\ None \notin ledger
  BY ConstantsAssumption DEF IInv, DataInv, TypeOK
<1>6. Kept
  BY <1>4, <1>5 DEF Kept
<1>7. \A q \in Orders : Credited(q)' <=> Credited(q)
  BY <1>1, <1>3, <1>4, <1>5 DEF Credited
<1>8. \A k2 \in ledger' : KeyUsed(k2)'
  <2> SUFFICES ASSUME NEW k2 \in ledger PROVE KeyUsed(k2)'
    OBVIOUS
  <2>1. PICK q \in Orders : payments[q].key = k2
    BY DEF IInv, DataInv, KeyUsed
  <2>2. payments'[q].key = k2
    BY <1>4, <1>5, <2>1
  <2> QED
    BY <2>2 DEF KeyUsed
<1>9. DataInv'
  <2>1. \A q \in Orders : payments'[q].status = "ABSENT" <=> payments'[q].key = None
    BY <1>1, <1>3, <1>4, <1>5 DEF IInv, DataInv
  <2>2. \A o1, o2 \in Orders :
            payments'[o1].key = payments'[o2].key /\ payments'[o1].key # None => o1 = o2
    <3>1. \A q \in Orders : payments[q].key # k
      BY DEF KeyUsed
    <3> QED
      BY <1>1, <1>3, <1>4, <3>1 DEF IInv, DataInv
  <2>3. \A q \in qrs' : payments'[q].key # None
    BY <1>4, <1>5 DEF IInv, DataInv, TypeOK
  <2>4. \A q \in Orders : payments'[q].key = None => ~payments'[q].qr /\ paid'[q] = "no"
    BY <1>1, <1>3, <1>4, <1>5 DEF IInv, DataInv
  <2>5. \A q \in Orders : credits'[q] = IF Credited(q)' THEN 1 ELSE 0
    BY <1>7 DEF IInv, DataInv
  <2>6. \A q \in Orders : Credited(q)' => Accepted(q)' /\ transactions'[q] > 0
    BY <1>7 DEF IInv, DataInv, Accepted
  <2>7. \A q \in Orders : payments'[q].topup => Credited(q)'
    BY <1>1, <1>3, <1>4, <1>7 DEF IInv, DataInv
  <2>8. \A q \in Orders : paid'[q] = "match" => payments'[q].qr
    BY <1>3, <1>4, <1>5 DEF IInv, DataInv
  <2>9. \A q \in unchecked' : paid'[q] = "mismatch"
    BY DEF IInv, DataInv
  <2> QED
    BY <1>8, <2>1, <2>2, <2>3, <2>4, <2>5, <2>6, <2>7, <2>8, <2>9 DEF DataInv
<1> QED
  BY <1>3, <1>6, <1>9

LEMMA CreateSipPaymentStep ==
    ASSUME IInv, NEW r \in Requests, createSipPayment(r)
    PROVE  IInv'
<1>1. req[r].key \in Keys
  BY DEF createSipPayment, At, IInv, RequestOK
<1>2. undelivered' \subseteq Orders
  BY DEF createSipPayment, IInv, TypeOK
<1>3. CASE KeyUsed(req[r].key)
  BY <1>2, <1>3, FinishStep DEF createSipPayment
<1>4. CASE ~KeyUsed(req[r].key)
  <2>1. PICK o \in Orders :
            /\ payments[o].status = "ABSENT"
            /\ payments' = [payments EXCEPT ![o] = [key |-> req[r].key, status |-> "PENDING",
                                                    qr |-> FALSE, topup |-> FALSE]]
            /\ req' = [req EXCEPT ![r] = [IdleRequest EXCEPT !.pc = "generate", !.order = o]]
    BY <1>4 DEF createSipPayment
  <2> DEFINE x == [IdleRequest EXCEPT !.pc = "generate", !.order = o]
  <2>2. x \in Request /\ x.pc = "generate" /\ x.order = o
    BY DEF IdleRequest, NoPayload, Request, QrPC
  <2>3. /\ Kept /\ DataInv' /\ payments' \in [Orders -> Row]
        /\ UNCHANGED <<transactions, qrs, paid, unchecked, ledger, credits>>
    BY <1>1, <1>4, <2>1, RowInsert DEF createSipPayment
  <2>4. req' = [req EXCEPT ![r] = x] /\ payments'[o].key # None
    BY <1>1, <2>1, ConstantsAssumption DEF IInv, TypeOK
  <2> HIDE DEF x
  <2>5. req'[r] = x
    BY <2>4 DEF IInv, TypeOK
  <2>6. RequestOK(req[r])'
    BY <2>2, <2>4, <2>5 DEF RequestOK, CallbackPC
  <2> QED
    BY <1>2, <2>2, <2>3, <2>4, <2>6, RequestSet DEF IInv, TypeOK
<1> QED
  BY <1>3, <1>4

LEMMA GenerateQrStep ==
    ASSUME IInv, NEW r \in Requests, generateQr(r)
    PROVE  IInv'
<1> DEFINE x == [req[r] EXCEPT !.pc = "saveQr"]
<1>1. /\ req[r] \in Request /\ req[r].pc = "generate" /\ req[r].order \in Orders
      /\ payments[req[r].order].key # None
  BY DEF generateQr, At, IInv, TypeOK, RequestOK
<1>2. x \in Request /\ x.pc = "saveQr" /\ x.order = req[r].order
  BY <1>1 DEF Request, QrPC
<1>3. RequestOK(x)
  BY <1>1, <1>2 DEF RequestOK, CallbackPC
<1>4. /\ qrs' = qrs \cup {req[r].order}
      /\ UNCHANGED <<payments, transactions, paid, unchecked, undelivered, ledger, credits>>
  BY DEF generateQr
<1>5. Kept /\ DataInv'
  BY <1>1, <1>4 DEF Kept, IInv, DataInv, KeyUsed, Credited, Accepted
<1>6. PICK y \in Request : RequestOK(y) /\ req' = [req EXCEPT ![r] = y]
  BY <1>2, <1>3, FinishedOK DEF generateQr, Goto, Finish
<1> QED
  BY <1>1, <1>4, <1>5, <1>6, RequestMoves DEF IInv, TypeOK

LEMMA SaveSipQrResponseStep ==
    ASSUME IInv, NEW r \in Requests, saveSipQrResponse(r)
    PROVE  IInv'
<1> DEFINE o == req[r].order
           row == [payments[o] EXCEPT !.qr = TRUE, !.topup = FALSE]
<1>1. o \in Orders /\ payments[o].key # None /\ payments[o] \in Row
  BY DEF saveSipQrResponse, At, IInv, TypeOK, RequestOK
<1>2. /\ row \in Row /\ row.key = payments[o].key /\ row.status = payments[o].status
      /\ row.qr = TRUE /\ row.topup = FALSE
  BY <1>1 DEF Row
<1>3. payments[o].status # "ABSENT"
  BY <1>1 DEF IInv, DataInv
<1>4. /\ payments' = [payments EXCEPT ![o] = row]
      /\ UNCHANGED <<transactions, qrs, paid, unchecked, undelivered, ledger, credits>>
      /\ Finish(r)
  BY DEF saveSipQrResponse
<1> HIDE DEF row
<1>5. Kept /\ DataInv' /\ payments' \in [Orders -> Row]
  BY <1>1, <1>2, <1>3, <1>4, RowWrite
<1> QED
  BY <1>4, <1>5, FinishedOK, RequestMoves DEF Finish, IInv, TypeOK

-----------------------------------------------------------------------------
(* Steps of handleSipCallback *)

LEMMA HandleSipCallbackStep ==
    ASSUME IInv, NEW r \in Requests, NEW o \in Orders, NEW told \in BOOLEAN,
           handleSipCallback(r, o, told)
    PROVE  IInv'
<1>1. /\ payments[o].key # None
      /\ paid[o] \in {"match", "mismatch"}
      /\ UNCHANGED <<payments, transactions, qrs, paid, ledger, credits>>
  BY DEF handleSipCallback, IInv, TypeOK, DataInv
<1>2. CASE payments[o].status = "COMPLETED"
  <2>1. undelivered' = undelivered \ {o} /\ UNCHANGED <<unchecked, req>>
    BY <1>2 DEF handleSipCallback
  <2>2. TypeOK' /\ DataInv'
    BY <1>1, <2>1 DEF IInv, TypeOK, DataInv, KeyUsed, Credited, Accepted
  <2>3. ASSUME NEW q \in Requests PROVE RequestOK(req[q])'
    BY <1>1, <2>1 DEF IInv, RequestOK, Credited, Accepted
  <2> QED
    BY <2>2, <2>3 DEF IInv
<1>3. CASE payments[o].status # "COMPLETED"
  <2>1. PICK l \in {"fail", "readPayload"} :
          l = IF paid[o] = "mismatch" /\ told THEN "fail" ELSE "readPayload"
    OBVIOUS
  <2> DEFINE x == [IdleRequest EXCEPT !.order = o, !.pc = l]
  <2>2. x \in Request /\ x.order = o /\ x.pc = l
    BY DEF IdleRequest, NoPayload, Request, CallbackPC
  <2>3. /\ req' = [req EXCEPT ![r] = x] /\ undelivered' \subseteq Orders
        /\ unchecked' = unchecked \cup {p \in {o} : paid[o] = "mismatch" /\ ~told}
    BY <1>3, <2>1 DEF handleSipCallback, IInv, TypeOK
  <2> HIDE DEF x
  <2>4. Kept /\ unchecked' \subseteq Orders
    BY <1>1, <2>3 DEF Kept, IInv, TypeOK
  <2>5. DataInv'
    <3>1. \A q \in Orders : Credited(q)' => Accepted(q)' /\ transactions'[q] > 0
      BY <1>1, <2>3 DEF IInv, DataInv, Credited, Accepted
    <3>2. \A q \in unchecked' : paid'[q] = "mismatch"
      BY <1>1, <2>3 DEF IInv, DataInv
    <3> QED
      BY <1>1, <3>1, <3>2 DEF IInv, DataInv, KeyUsed, Credited
  <2>6. RequestOK(req[r])'
    <3>1. req'[r] = x
      BY <2>3 DEF IInv, TypeOK
    <3>2. l = "readPayload" => Accepted(o)'
      BY <1>1, <2>1, <2>3 DEF Accepted
    <3> QED
      BY <1>1, <2>1, <2>2, <3>1, <3>2 DEF RequestOK, CallbackPC
  <2> QED
    BY <1>1, <2>2, <2>3, <2>4, <2>5, <2>6, RequestSet DEF IInv, TypeOK
<1> QED
  BY <1>2, <1>3

LEMMA MarkFailedStep ==
    ASSUME IInv, NEW r \in Requests, markFailed(r)
    PROVE  IInv'
<1> DEFINE o == req[r].order
           row == [payments[o] EXCEPT !.status = "FAILED", !.qr = FALSE, !.topup = FALSE]
<1>1. o \in Orders /\ payments[o].key # None /\ payments[o] \in Row /\ paid[o] = "mismatch"
  BY DEF markFailed, At, IInv, TypeOK, RequestOK, CallbackPC
<1>2. /\ row \in Row /\ row.key = payments[o].key /\ row.status = "FAILED"
      /\ row.qr = FALSE /\ row.topup = FALSE
  BY <1>1 DEF Row
<1>3. /\ payments' = [payments EXCEPT ![o] = row]
      /\ UNCHANGED <<transactions, qrs, paid, unchecked, undelivered, ledger, credits>>
      /\ Finish(r)
  BY DEF markFailed
<1> HIDE DEF row
<1>4. Kept /\ DataInv' /\ payments' \in [Orders -> Row]
  BY <1>1, <1>2, <1>3, RowWrite
<1> QED
  BY <1>3, <1>4, FinishedOK, RequestMoves DEF Finish, IInv, TypeOK

\* The payload of an order paid in full has the QR, and a topup marker in it is of a
\* credit that was made.
LEMMA ReadPayloadStep ==
    ASSUME IInv, NEW r \in Requests, ReadPayload(r)
    PROVE  IInv'
<1> DEFINE o == req[r].order
           b == [qr |-> payments[o].qr, topup |-> payments[o].topup]
<1>1. PICK l \in {"complete", "merge"} : l = IF At(r, "record") THEN "merge" ELSE "complete"
  OBVIOUS
<1> DEFINE x == [req[r] EXCEPT !.pc = l, !.base = b]
<1>2. /\ req[r] \in Request /\ o \in Orders /\ payments[o].key # None
      /\ payments[o] \in Row /\ Accepted(o)
      /\ l = "merge" => Credited(o)
  BY <1>1 DEF ReadPayload, At, IInv, TypeOK, RequestOK, CallbackPC
<1>3. b \in [qr : BOOLEAN, topup : BOOLEAN]
  BY <1>2 DEF Row
<1>4. x \in Request /\ x.pc = l /\ x.order = o /\ x.base = b
  BY <1>2, <1>3 DEF Request, CallbackPC
<1>5. (paid[o] = "match" => b.qr) /\ (b.topup => Credited(o))
  BY <1>2 DEF IInv, DataInv
<1>6. req' = [req EXCEPT ![r] = x] /\ undelivered' \subseteq Orders
  BY <1>1 DEF ReadPayload, IInv, TypeOK
<1> HIDE DEF x, b
<1>7. RequestOK(x)
  BY <1>1, <1>2, <1>4, <1>5 DEF RequestOK, CallbackPC
<1> QED
  BY <1>4, <1>6, <1>7, LocalStep DEF ReadPayload

LEMMA CompleteSipPaymentStep ==
    ASSUME IInv, NEW r \in Requests, completeSipPayment(r)
    PROVE  IInv'
<1> DEFINE o == req[r].order
           b == req[r].base
           row == [payments[o] EXCEPT !.status = "COMPLETED", !.qr = b.qr, !.topup = b.topup]
           x == [req[r] EXCEPT !.pc = "findTopup", !.base = NoPayload]
<1>1. /\ req[r] \in Request /\ o \in Orders /\ payments[o].key # None
      /\ payments[o] \in Row /\ Accepted(o)
      /\ (paid[o] = "match" => b.qr) /\ (b.topup => Credited(o))
  BY DEF completeSipPayment, Complete, At, IInv, TypeOK, RequestOK, CallbackPC
<1>2. b \in [qr : BOOLEAN, topup : BOOLEAN]
  BY <1>1 DEF Request
<1>3. /\ row \in Row /\ row.key = payments[o].key /\ row.status = "COMPLETED"
      /\ row.qr = b.qr /\ row.topup = b.topup
  BY <1>1, <1>2 DEF Row
<1>4. x \in Request /\ x.pc = "findTopup" /\ x.order = o
  BY <1>1 DEF Request, NoPayload, CallbackPC
<1>5. /\ payments' = [payments EXCEPT ![o] = row]
      /\ req' = [req EXCEPT ![r] = x]
      /\ UNCHANGED <<transactions, qrs, paid, unchecked, undelivered, ledger, credits>>
  BY DEF completeSipPayment, Complete
<1> HIDE DEF row, x
<1>6. Kept /\ DataInv' /\ payments' \in [Orders -> Row]
  BY <1>1, <1>3, <1>5, RowWrite
<1>7. RequestOK(x)
  BY <1>1, <1>4 DEF RequestOK, CallbackPC
<1> QED
  BY <1>4, <1>5, <1>6, <1>7, RequestMoves DEF IInv, TypeOK

\* A callback of a paid order that moves on to a label with no claim of its own, or to
\* "topup" or "record" with the claim those make.
LEMMA GotoOK ==
    ASSUME IInv, NEW r \in Requests,
           req[r].pc \in {"findTopup", "createTopup", "topup", "record"},
           NEW label \in {"createTopup", "topup", "record", "notify"}
    PROVE  LET x == [req[r] EXCEPT !.pc = label]
           IN  /\ x \in Request /\ x.pc = label /\ x.order = req[r].order
               /\ req[r].order \in Orders /\ payments[req[r].order].key # None
               /\ payments[req[r].order] \in Row /\ Accepted(req[r].order)
<1>1. req[r] \in Request /\ RequestOK(req[r])
  BY DEF IInv, TypeOK
<1>2. /\ req[r].order \in Orders /\ payments[req[r].order].key # None
      /\ Accepted(req[r].order)
  BY <1>1 DEF RequestOK, CallbackPC
<1>3. payments[req[r].order] \in Row
  BY <1>2 DEF IInv, TypeOK
<1>4. /\ [req[r] EXCEPT !.pc = label] \in Request
      /\ [req[r] EXCEPT !.pc = label].pc = label
      /\ [req[r] EXCEPT !.pc = label].order = req[r].order
  BY <1>1 DEF Request, CallbackPC
<1> QED
  BY <1>2, <1>3, <1>4

LEMMA CreateTopupIfNotExistsStep ==
    ASSUME IInv, NEW r \in Requests, createTopupIfNotExists(r)
    PROVE  IInv'
<1> DEFINE x(label) == [req[r] EXCEPT !.pc = label]
<1>1. req[r].pc = "findTopup" /\ undelivered' \subseteq Orders
  BY DEF createTopupIfNotExists, At, IInv, TypeOK
<1>2. CASE transactions[req[r].order] > 0 /\ req[r].order \in Onboarded
  <2>1. x("topup") \in Request /\ RequestOK(x("topup"))
    BY <1>1, <1>2, GotoOK DEF RequestOK, CallbackPC
  <2>2. req' = [req EXCEPT ![r] = x("topup")]
    BY <1>2 DEF createTopupIfNotExists, AfterTransaction, Goto
  <2> QED
    BY <1>1, <2>1, <2>2, LocalStep DEF createTopupIfNotExists
<1>3. CASE transactions[req[r].order] > 0 /\ req[r].order \notin Onboarded
  BY <1>1, <1>3, FinishStep DEF createTopupIfNotExists, AfterTransaction
<1>4. CASE ~(transactions[req[r].order] > 0)
  <2>1. x("createTopup") \in Request /\ RequestOK(x("createTopup"))
    BY <1>1, GotoOK DEF RequestOK, CallbackPC
  <2>2. req' = [req EXCEPT ![r] = x("createTopup")]
    BY <1>4 DEF createTopupIfNotExists, Goto
  <2> QED
    BY <1>1, <2>1, <2>2, LocalStep DEF createTopupIfNotExists
<1> QED
  BY <1>2, <1>3, <1>4

LEMMA CreateTransactionStep ==
    ASSUME IInv, NEW r \in Requests, CreateTransaction(r)
    PROVE  IInv'
<1> DEFINE o == req[r].order
           x == [req[r] EXCEPT !.pc = "topup"]
<1>1. /\ x \in Request /\ x.pc = "topup" /\ x.order = o /\ o \in Orders
      /\ payments[o].key # None /\ Accepted(o)
  BY GotoOK DEF CreateTransaction, At
<1>2. /\ transactions' = [transactions EXCEPT ![o] = @ + 1]
      /\ UNCHANGED <<payments, qrs, paid, unchecked, undelivered, ledger, credits>>
  BY DEF CreateTransaction
<1>3. transactions' \in [Orders -> Nat] /\ transactions'[o] > 0
  BY <1>1, <1>2 DEF IInv, TypeOK
<1>4. \A q \in Orders : transactions[q] > 0 => transactions'[q] > 0
  BY <1>1, <1>2, <1>3 DEF IInv, TypeOK
<1>5. Kept /\ DataInv'
  BY <1>2, <1>4 DEF Kept, IInv, DataInv, KeyUsed, Credited, Accepted
<1>6. CASE o \in Onboarded
  <2>1. req' = [req EXCEPT ![r] = x]
    BY <1>6 DEF CreateTransaction, AfterTransaction, Goto
  <2> HIDE DEF x
  <2>2. req'[r] = x
    BY <2>1 DEF IInv, TypeOK
  <2>3. RequestOK(req[r])'
    BY <1>1, <1>2, <1>3, <2>2 DEF RequestOK, CallbackPC, Accepted
  <2> QED
    BY <1>1, <1>2, <1>3, <1>5, <2>1, <2>3, RequestSet DEF IInv, TypeOK
<1>7. CASE o \notin Onboarded
  <2>1. Finish(r)
    BY <1>7 DEF CreateTransaction, AfterTransaction
  <2> QED
    BY <1>2, <1>3, <1>5, <2>1, FinishedOK, RequestMoves DEF Finish, IInv, TypeOK
<1> QED
  BY <1>6, <1>7

\* The backoffice credits an order whose key it has not seen: the key is of no other
\* order, so nothing else counts as credited.
LEMMA CreditMade ==
    ASSUME IInv, NEW r \in Requests, req[r].pc = "topup",
           payments[req[r].order].key \notin ledger,
           ledger' = ledger \cup {payments[req[r].order].key},
           credits' = [credits EXCEPT ![req[r].order] = @ + 1],
           UNCHANGED <<payments, transactions, qrs, paid, unchecked, undelivered>>
    PROVE  /\ Kept /\ DataInv' /\ ledger' \subseteq Keys /\ credits' \in [Orders -> Nat]
           /\ payments[req[r].order].key \in ledger' /\ credits[req[r].order] = 0
<1>1. req[r].order \in Orders
  BY DEF IInv, RequestOK, CallbackPC
<1>2. PICK o \in Orders : o = req[r].order
  BY <1>1
<1>3. /\ o \in Orders /\ payments[o].key # None /\ payments[o] \in Row
      /\ Accepted(o) /\ transactions[o] > 0
  BY <1>2 DEF IInv, TypeOK, RequestOK, CallbackPC
<1>4. payments[o].key \in Keys
  BY <1>2, <1>3 DEF Row
<1>5. Kept /\ ledger' \subseteq Keys
  BY <1>2, <1>4 DEF Kept, IInv, TypeOK
<1>6. credits[o] = 0 /\ ~Credited(o)
  BY <1>2, <1>3 DEF IInv, DataInv, Credited
<1>7. credits' \in [Orders -> Nat] /\ credits'[o] = 1
  BY <1>2, <1>3, <1>6 DEF IInv, TypeOK
<1>8. \A q \in Orders \ {o} : credits'[q] = credits[q]
  BY <1>2 DEF IInv, TypeOK
<1>9. Credited(o)'
  BY <1>2 DEF Credited
<1>10. \A q \in Orders \ {o} : Credited(q)' <=> Credited(q)
  BY <1>2, <1>3 DEF Credited, IInv, DataInv
<1>11. \A k \in ledger' : KeyUsed(k)'
  BY <1>2, <1>3 DEF KeyUsed, IInv, DataInv
<1>12. DataInv'
  <2>1. \A q \in Orders : credits'[q] = IF Credited(q)' THEN 1 ELSE 0
    BY <1>7, <1>8, <1>9, <1>10 DEF IInv, DataInv
  <2>2. \A q \in Orders : Credited(q)' => Accepted(q)' /\ transactions'[q] > 0
    BY <1>3, <1>10 DEF IInv, DataInv, Accepted
  <2>3. \A q \in Orders : payments'[q].topup => Credited(q)'
    <3>1. \A q \in Orders : payments[q].topup => Credited(q)
      BY DEF IInv, DataInv
    <3>2. payments' = payments
      OBVIOUS
    <3> QED
      BY <1>9, <1>10, <3>1, <3>2
  <2> QED
    BY <1>11, <2>1, <2>2, <2>3 DEF IInv, DataInv, Accepted
<1> QED
  BY <1>5, <1>6, <1>7, <1>9, <1>12

LEMMA TopUpCreditsStep ==
    ASSUME IInv, NEW r \in Requests, TopUpCredits(r)
    PROVE  IInv'
<1> DEFINE x == [req[r] EXCEPT !.pc = "record"]
<1>1. /\ x \in Request /\ x.pc = "record" /\ x.order = req[r].order
      /\ req[r].order \in Orders /\ payments[req[r].order].key # None
      /\ Accepted(req[r].order)
  BY GotoOK DEF TopUpCredits, At
<1>2. /\ Kept /\ DataInv' /\ ledger' \subseteq Keys /\ credits' \in [Orders -> Nat]
      /\ payments[req[r].order].key \in ledger'
  BY CreditMade DEF TopUpCredits, At, externalTransactionId
<1>3. /\ req' = [req EXCEPT ![r] = x]
      /\ UNCHANGED <<payments, transactions, qrs, paid, unchecked, undelivered>>
  BY DEF TopUpCredits, Goto
<1> HIDE DEF x
<1>4. req'[r] = x
  BY <1>3 DEF IInv, TypeOK
<1>5. RequestOK(req[r])'
  BY <1>1, <1>2, <1>3, <1>4 DEF RequestOK, CallbackPC, Credited, Accepted
<1> QED
  BY <1>1, <1>2, <1>3, <1>5, RequestSet DEF IInv, TypeOK

LEMMA TopUpFailsStep ==
    ASSUME IInv, NEW r \in Requests, TopUpFails(r)
    PROVE  IInv'
<1>1. /\ Finish(r) /\ UNCHANGED <<payments, transactions, qrs, paid, unchecked, undelivered>>
      /\ req[r].pc = "topup"
  BY DEF TopUpFails, At
<1>2. CASE UNCHANGED <<ledger, credits>>
  BY <1>1, <1>2, FinishStep DEF IInv, TypeOK
<1>3. CASE /\ payments[req[r].order].key \notin ledger
           /\ ledger' = ledger \cup {payments[req[r].order].key}
           /\ credits' = [credits EXCEPT ![req[r].order] = @ + 1]
  <2>1. Kept /\ DataInv' /\ ledger' \subseteq Keys /\ credits' \in [Orders -> Nat]
    BY <1>1, <1>3, CreditMade
  <2> QED
    BY <1>1, <2>1, FinishedOK, RequestMoves DEF Finish, IInv, TypeOK
<1> QED
  BY <1>2, <1>3 DEF TopUpFails, externalTransactionId

LEMMA RecordTopupStep ==
    ASSUME IInv, NEW r \in Requests, RecordTopup(r)
    PROVE  IInv'
<1> DEFINE o == req[r].order
           b == req[r].base
           row == [payments[o] EXCEPT !.status = "COMPLETED", !.qr = b.qr, !.topup = TRUE]
           x == [req[r] EXCEPT !.pc = "notify", !.base = NoPayload]
<1>1. /\ req[r] \in Request /\ o \in Orders /\ payments[o].key # None
      /\ payments[o] \in Row /\ Accepted(o) /\ Credited(o) /\ (paid[o] = "match" => b.qr)
  BY DEF RecordTopup, At, IInv, TypeOK, RequestOK, CallbackPC
<1>2. b \in [qr : BOOLEAN, topup : BOOLEAN]
  BY <1>1 DEF Request
<1>3. /\ row \in Row /\ row.key = payments[o].key /\ row.status = "COMPLETED"
      /\ row.qr = b.qr /\ row.topup = TRUE
  BY <1>1, <1>2 DEF Row
<1>4. x \in Request /\ x.pc = "notify" /\ x.order = o
  BY <1>1 DEF Request, NoPayload, CallbackPC
<1>5. /\ payments' = [payments EXCEPT ![o] = row]
      /\ req' = [req EXCEPT ![r] = x]
      /\ UNCHANGED <<transactions, qrs, paid, unchecked, undelivered, ledger, credits>>
  BY DEF RecordTopup
<1> HIDE DEF row, x
<1>6. Kept /\ DataInv' /\ payments' \in [Orders -> Row]
  BY <1>1, <1>3, <1>5, RowWrite
<1>7. RequestOK(x)
  BY <1>1, <1>4 DEF RequestOK, CallbackPC
<1> QED
  BY <1>4, <1>5, <1>6, <1>7, RequestMoves DEF IInv, TypeOK

\* Steps that only end a request.
LEMMA EndStep ==
    ASSUME IInv, NEW r \in Requests, TopUpConflict(r) \/ Acknowledge(r) \/ RequestThrow(r)
    PROVE  IInv'
<1>1. Finish(r) /\ undelivered' \subseteq Orders
  BY DEF TopUpConflict, Acknowledge, RequestThrow, IInv, TypeOK
<1> QED
  BY <1>1, FinishStep DEF TopUpConflict, Acknowledge, RequestThrow

-----------------------------------------------------------------------------
(* The environment *)

LEMMA CustomerPaysStep ==
    ASSUME IInv, NEW o \in Orders, CustomerPays(o)
    PROVE  IInv'
<1>1. PICK a \in {"match", "mismatch"} : paid' = [paid EXCEPT ![o] = a]
  BY DEF CustomerPays
<1>2. /\ payments[o].qr /\ paid[o] = "no" /\ undelivered' = undelivered \cup {o}
      /\ UNCHANGED <<payments, transactions, qrs, ledger, credits, unchecked, req>>
  BY DEF CustomerPays
<1>3. /\ paid' \in [Orders -> {"no", "match", "mismatch"}]
      /\ \A q \in Orders \ {o} : paid'[q] = paid[q]
  BY <1>1 DEF IInv, TypeOK
<1>4. Kept
  BY <1>2, <1>3 DEF Kept
<1>5. payments[o].key # None /\ o \notin unchecked /\ ~Credited(o)
  BY <1>2 DEF IInv, DataInv, Accepted
<1>6. DataInv'
  <2>1. \A q \in Orders : payments'[q].key = None => ~payments'[q].qr /\ paid'[q] = "no"
    BY <1>2, <1>3, <1>5 DEF IInv, DataInv
  <2>2. \A q \in Orders : Credited(q)' => Accepted(q)' /\ transactions'[q] > 0
    BY <1>2, <1>3, <1>5 DEF IInv, DataInv, Credited, Accepted
  <2>3. \A q \in Orders : paid'[q] = "match" => payments'[q].qr
    BY <1>2, <1>3 DEF IInv, DataInv
  <2> QED
    <3>1. \A q \in unchecked' : paid'[q] = "mismatch"
      BY <1>2, <1>3, <1>5 DEF IInv, TypeOK, DataInv
    <3> QED
      BY <1>2, <2>1, <2>2, <2>3, <3>1 DEF IInv, DataInv, KeyUsed, Credited
<1>7. ASSUME NEW q \in Requests PROVE RequestOK(req[q])'
  BY <1>2, <1>4, RequestKept DEF IInv, TypeOK
<1> QED
  BY <1>2, <1>3, <1>6, <1>7 DEF IInv, TypeOK

LEMMA CrashStep ==
    ASSUME IInv, Crash
    PROVE  IInv'
<1>1. /\ req' = [r \in Requests |-> IdleRequest]
      /\ UNCHANGED <<payments, transactions, qrs, paid, unchecked, undelivered, ledger, credits>>
  BY DEF Crash
<1>2. Kept
  BY <1>1 DEF Kept
<1>3. TypeOK' /\ DataInv'
  BY <1>1, FinishedOK DEF IInv, TypeOK, DataInv, KeyUsed, Credited, Accepted
<1>4. ASSUME NEW q \in Requests PROVE RequestOK(req[q])'
  BY <1>1, <1>2, FinishedOK, RequestKept
<1> QED
  BY <1>3, <1>4 DEF IInv

-----------------------------------------------------------------------------
(* The invariant *)

LEMMA InitIInv == Init => IInv
<1> SUFFICES ASSUME Init PROVE IInv
  OBVIOUS
<1>1. TypeOK
  BY FinishedOK DEF Init, TypeOK, Row
<1>2. DataInv
  BY ConstantsAssumption DEF Init, DataInv, KeyUsed, Credited, Accepted
<1>3. ASSUME NEW r \in Requests PROVE RequestOK(req[r])
  BY FinishedOK DEF Init
<1> QED
  BY <1>1, <1>2, <1>3 DEF IInv

LEMMA NextIInv == IInv /\ [Next]_vars => IInv'
<1> SUFFICES ASSUME IInv, [Next]_vars PROVE IInv'
  OBVIOUS
<1>1. ASSUME NEW r \in Requests, NEW k \in Keys, createSipQr(r, k) PROVE IInv'
  BY <1>1, CreateSipQrStep
<1>2. ASSUME NEW r \in Requests, NEW o \in Orders, NEW told \in BOOLEAN,
             handleSipCallback(r, o, told)
      PROVE  IInv'
  BY <1>2, HandleSipCallbackStep
<1>3. ASSUME NEW r \in Requests, Handler(r) PROVE IInv'
  BY <1>3, CreateSipPaymentStep, GenerateQrStep, SaveSipQrResponseStep, MarkFailedStep,
     ReadPayloadStep, CompleteSipPaymentStep, CreateTopupIfNotExistsStep,
     CreateTransactionStep, TopUpCreditsStep, RecordTopupStep, EndStep DEF Handler
<1>4. ASSUME NEW r \in Requests, TopUpFails(r) \/ RequestThrow(r) PROVE IInv'
  BY <1>4, TopUpFailsStep, EndStep
<1>5. ASSUME NEW o \in Orders, CustomerPays(o) PROVE IInv'
  BY <1>5, CustomerPaysStep
<1>6. CASE Crash
  BY <1>6, CrashStep
<1>7. CASE UNCHANGED vars
  <2>1. TypeOK' /\ DataInv'
    BY <1>7 DEF vars, IInv, TypeOK, DataInv, KeyUsed, Credited, Accepted
  <2>2. ASSUME NEW q \in Requests PROVE RequestOK(req[q])'
    BY <1>7 DEF vars, IInv, RequestOK, Credited, Accepted
  <2> QED
    BY <2>1, <2>2 DEF IInv
<1> QED
  BY <1>1, <1>2, <1>3, <1>4, <1>5, <1>6, <1>7 DEF Next

\* The inductive invariant holds: unique keys, one credit per key in the ledger, and what
\* every handler in flight has established.
THEOREM IInvInvariant == Spec => []IInv
  BY InitIInv, NextIInv, PTL DEF Spec

\* The bank never has two QRs for one idempotency key.
THEOREM NoDuplicateQrThm == Spec => []NoDuplicateQr
<1>1. IInv => NoDuplicateQr
  BY DEF IInv, TypeOK, DataInv, NoDuplicateQr
<1> QED
  BY <1>1, IInvInvariant, PTL

\* The type invariant of SipPayments.
THEOREM TypeCorrect == Spec => []TypeOK
<1>1. IInv => TypeOK
  BY DEF IInv
<1> QED
  BY <1>1, IInvInvariant, PTL

\* A topup marker that a callback stored in a payload stands for a credit, whichever
\* callback wrote the payload last.
THEOREM TopupMarkerSoundThm == Spec => []TopupMarkerSound
<1>1. ASSUME IInv, NEW o \in Orders, payments[o].topup PROVE credits[o] > 0
  <2>1. Credited(o) /\ credits[o] = IF Credited(o) THEN 1 ELSE 0
    BY <1>1 DEF IInv, DataInv
  <2> QED
    BY <2>1
<1>2. IInv => TopupMarkerSound
  BY <1>1 DEF TopupMarkerSound
<1> QED
  BY <1>2, IInvInvariant, PTL

\* A wallet is credited only after the TOPUP transaction is stored.
THEOREM TransactionBeforeCreditThm == Spec => []TransactionBeforeCredit
<1>1. ASSUME IInv, NEW o \in Orders, credits[o] > 0 PROVE transactions[o] > 0
  <2>1. /\ credits[o] = IF Credited(o) THEN 1 ELSE 0
        /\ Credited(o) => transactions[o] > 0
    BY <1>1 DEF IInv, DataInv
  <2> QED
    BY <1>1, <2>1
<1>2. IInv => TransactionBeforeCredit
  BY <1>1 DEF TransactionBeforeCredit
<1> QED
  BY <1>2, IInvInvariant, PTL

\* The stored QR of an order paid in full survives every merge.
THEOREM QrKeptThm == Spec => []QrKept
<1>1. IInv => QrKept
  BY DEF IInv, DataInv, QrKept
<1> QED
  BY <1>1, IInvInvariant, PTL

-----------------------------------------------------------------------------
(* Refinement of WalletCrediting *)

AcceptedOrders == {o \in Orders : paid[o] = "match"} \cup unchecked

LEMMA CreditingNext ==
    ASSUME IInv, [Next]_vars
    PROVE  Crediting!Next \/ (AcceptedOrders' = AcceptedOrders /\ UNCHANGED credits)
<1>1. ASSUME UNCHANGED <<paid, unchecked, credits>>
      PROVE  AcceptedOrders' = AcceptedOrders /\ UNCHANGED credits
  BY <1>1 DEF AcceptedOrders
<1>2. ASSUME NEW o \in Orders, CustomerPays(o)
      PROVE  Crediting!Next \/ (AcceptedOrders' = AcceptedOrders /\ UNCHANGED credits)
  <2>1. PICK a \in {"match", "mismatch"} : paid' = [paid EXCEPT ![o] = a]
    BY <1>2 DEF CustomerPays
  <2>2. paid'[o] = a /\ \A q \in Orders \ {o} : paid'[q] = paid[q]
    BY <2>1 DEF IInv, TypeOK
  <2>3. AcceptedOrders' = AcceptedOrders \/ AcceptedOrders' = AcceptedOrders \cup {o}
    BY <1>2, <2>2 DEF AcceptedOrders, CustomerPays
  <2> QED
    BY <1>2, <2>3 DEF CustomerPays, Crediting!Next, Crediting!Pay, AcceptedOrders
<1>3. ASSUME NEW r \in Requests, TopUpCredits(r) \/ TopUpFails(r), ~ UNCHANGED credits
      PROVE  Crediting!Next
  <2>1. /\ req[r].pc = "topup" /\ payments[req[r].order].key \notin ledger
        /\ ledger' = ledger \cup {payments[req[r].order].key}
        /\ credits' = [credits EXCEPT ![req[r].order] = @ + 1]
        /\ UNCHANGED <<payments, transactions, qrs, paid, unchecked, undelivered>>
    BY <1>3 DEF TopUpCredits, TopUpFails, At, externalTransactionId
  <2>2. /\ credits[req[r].order] = 0
        /\ req[r].order \in Orders /\ Accepted(req[r].order)
    BY <2>1, CreditMade DEF IInv, RequestOK, CallbackPC
  <2>3. req[r].order \in AcceptedOrders /\ AcceptedOrders' = AcceptedOrders
    BY <2>1, <2>2 DEF AcceptedOrders, Accepted
  <2>4. credits' = [credits EXCEPT ![req[r].order] = 1]
    BY <2>1, <2>2
  <2> QED
    BY <2>2, <2>3, <2>4 DEF Crediting!Next, Crediting!Credit, AcceptedOrders
<1>4. ASSUME NEW r \in Requests, TopUpCredits(r) \/ TopUpFails(r)
      PROVE  Crediting!Next \/ (AcceptedOrders' = AcceptedOrders /\ UNCHANGED credits)
  BY <1>1, <1>3, <1>4 DEF TopUpCredits, TopUpFails
<1>5. ASSUME NEW r \in Requests, Handler(r)
      PROVE  TopUpCredits(r) \/ UNCHANGED <<paid, unchecked, credits>>
  BY <1>5 DEF Handler, createSipPayment, generateQr, saveSipQrResponse, markFailed, ReadPayload,
     completeSipPayment, Complete, createTopupIfNotExists, CreateTransaction, TopUpConflict,
     RecordTopup, Acknowledge
<1>6. CASE \/ \E r \in Requests, k \in Keys : createSipQr(r, k)
           \/ \E r \in Requests : RequestThrow(r)
           \/ Crash \/ UNCHANGED vars
  BY <1>1, <1>6 DEF createSipQr, RequestThrow, Crash, vars
<1>7. ASSUME NEW r \in Requests, NEW o \in Orders, NEW told \in BOOLEAN,
             handleSipCallback(r, o, told)
      PROVE  Crediting!Next \/ (AcceptedOrders' = AcceptedOrders /\ UNCHANGED credits)
  <2>1. UNCHANGED <<paid, credits>> /\ (unchecked' = unchecked \/ unchecked' = unchecked \cup {o})
    BY <1>7 DEF handleSipCallback
  <2>2. AcceptedOrders' = AcceptedOrders \/ AcceptedOrders' = AcceptedOrders \cup {o}
    BY <2>1 DEF AcceptedOrders
  <2> QED
    BY <2>1, <2>2 DEF Crediting!Next, Crediting!Pay, AcceptedOrders
<1> QED
  BY <1>1, <1>2, <1>4, <1>5, <1>6, <1>7 DEF Next

\* SipPayments implements WalletCrediting: at most one credit per order, and none before
\* the bank was paid in full, or was paid otherwise and did not tell what differs.
THEOREM Refinement == Spec => CreditedOnceAndOnlyIfPaid
<1>1. Init => Crediting!Init
  BY DEF Init, Crediting!Init
<1>2. IInv /\ [Next]_vars => [Crediting!Next]_<<AcceptedOrders, credits>>
  BY CreditingNext
<1>3. Spec => Init /\ []IInv /\ [][Next]_vars
  BY IInvInvariant, PTL DEF Spec
<1> QED
  BY <1>1, <1>2, <1>3, PTL DEF CreditedOnceAndOnlyIfPaid, Crediting!Spec, AcceptedOrders

-----------------------------------------------------------------------------
(* The bearer token *)

\* A call in flight is not older than its timeout; a token that is on its way was
\* issued after its call was sent; and a request that made its QR is over.
TokenRequestInv(r) ==
    /\ T!InFlight(r) => treq[r].sent <= now /\ now <= treq[r].sent + Timeout /\ tqrs[r] = 0
    /\ treq[r].pc \in {"issued", "reissued", "call", "retry"} => treq[r].token \in Nat
    /\ treq[r].pc \in {"issued", "reissued"} => treq[r].sent <= treq[r].token
    /\ tqrs[r] <= 1

\* What the cache holds was stored at most Timeout after its issue.
CacheInv ==
    cache # T!NoToken =>
        cache.token \in Nat /\ cache.expiresAt <= cache.token + Timeout + Ttl

TokenIInv == T!TypeOK /\ CacheInv /\ \A r \in Callers : TokenRequestInv(r)

\* A step that leaves the clock and the counters of the other requests alone keeps
\* what the invariant says of them.
LEMMA TokenRequestMoves ==
    ASSUME TokenIInv, NEW r \in Callers, NEW x \in T!Request,
           treq' = [treq EXCEPT ![r] = x], now' = now,
           tqrs' \in [Callers -> Nat], \A s \in Callers \ {r} : tqrs'[s] = tqrs[s],
           TokenRequestInv(r)'
    PROVE  treq' \in [Callers -> T!Request] /\ \A s \in Callers : TokenRequestInv(s)'
<1>1. treq \in [Callers -> T!Request]
  BY DEF TokenIInv, T!TypeOK
<1>2. treq' \in [Callers -> T!Request]
  BY <1>1
<1>3. ASSUME NEW s \in Callers, s # r PROVE TokenRequestInv(s)'
  <2>1. treq'[s] = treq[s] /\ tqrs'[s] = tqrs[s]
    BY <1>1, <1>3
  <2>2. TokenRequestInv(s)
    BY DEF TokenIInv
  <2> QED BY <2>1, <2>2 DEF TokenRequestInv, T!InFlight, T!At
<1> QED BY <1>2, <1>3

\* The state after a finished request, whoever finishes it.
LEMMA TokenFinish ==
    ASSUME TokenIInv, NEW r \in Callers, T!Finish(r), now' = now,
           tqrs' \in [Callers -> Nat], \A s \in Callers \ {r} : tqrs'[s] = tqrs[s],
           tqrs'[r] <= 1
    PROVE  treq' \in [Callers -> T!Request] /\ \A s \in Callers : TokenRequestInv(s)'
<1>1. treq' = [treq EXCEPT ![r] = T!IdleRequest]
  BY DEF T!Finish
<1>2. T!IdleRequest \in T!Request
  BY DEF T!IdleRequest, T!Request
<1>3. treq \in [Callers -> T!Request]
  BY DEF TokenIInv, T!TypeOK
<1>4. treq'[r] = T!IdleRequest
  BY <1>1, <1>3
<1>5. TokenRequestInv(r)'
  BY <1>4 DEF TokenRequestInv, T!InFlight, T!At, T!IdleRequest
<1> QED BY <1>1, <1>2, <1>5, TokenRequestMoves

\* The state after a request starts a call.
LEMMA TokenSet ==
    ASSUME T!TimesOK, TokenIInv, NEW r \in Callers, NEW pc \in {"auth", "call", "reauth", "retry"},
           NEW token \in Nat \cup {NoTime}, T!Set(r, pc, token), now' = now, tqrs' = tqrs,
           tqrs[r] = 0, pc \in {"call", "retry"} => token \in Nat
    PROVE  treq' \in [Callers -> T!Request] /\ \A s \in Callers : TokenRequestInv(s)'
<1> DEFINE x == [pc |-> pc, token |-> token, sent |-> now]
<1>1. treq' = [treq EXCEPT ![r] = x]
  BY DEF T!Set
<1>2. treq \in [Callers -> T!Request] /\ now \in Nat /\ tqrs \in [Callers -> Nat]
  BY DEF TokenIInv, T!TypeOK
<1>3. x \in T!Request
  BY <1>2 DEF T!Request
<1>4. treq'[r] = x
  BY <1>1, <1>2
<1>5. TokenRequestInv(r)'
  <2>1. treq'[r].pc = pc /\ treq'[r].token = token /\ treq'[r].sent = now
    BY <1>4, SMTT(30)
  <2>2. Timeout \in Nat
    BY DEF T!TimesOK
  <2> QED BY <1>2, <2>1, <2>2 DEF TokenRequestInv, T!InFlight, T!At
<1> QED BY <1>1, <1>2, <1>3, <1>5, TokenRequestMoves

\* An empty cache is well typed and satisfies its invariant.
LEMMA EmptyCache ==
    ASSUME cache' = T!NoToken
    PROVE  CacheInv' /\ cache' \in [token : Nat \cup {NoTime}, expiresAt : Nat]
BY DEF CacheInv, T!NoToken

\* The invariant is preserved by every step.
LEMMA TokenNext ==
    ASSUME T!TimesOK, TokenIInv, [T!Next]_(T!vars)
    PROVE  TokenIInv'
<1> USE DEF T!TimesOK
<1>1. /\ treq \in [Callers -> T!Request] /\ now \in Nat /\ minIssue \in Nat
      /\ tqrs \in [Callers -> Nat]
      /\ cache \in [token : Nat \cup {NoTime}, expiresAt : Nat]
  BY DEF TokenIInv, T!TypeOK
<1>2. \A r \in Callers : treq[r] \in T!Request /\ TokenRequestInv(r)
  BY <1>1 DEF TokenIInv
<1>3. CASE UNCHANGED T!vars
  BY <1>3 DEF T!vars, TokenIInv, T!TypeOK, CacheInv, TokenRequestInv, T!InFlight, T!At
<1>4. ASSUME NEW r \in Callers, T!getToken(r) PROVE TokenIInv'
  <2>1. now' = now /\ tqrs' = tqrs /\ minIssue' = minIssue /\ tqrs[r] = 0
    BY <1>4 DEF T!getToken
  <2>2. CASE T!Set(r, "call", cache.token) /\ UNCHANGED cache /\ cache # T!NoToken
    <3>1. cache.token \in Nat
      BY <2>2 DEF TokenIInv, CacheInv
    <3>2. treq' \in [Callers -> T!Request] /\ \A s \in Callers : TokenRequestInv(s)'
      BY <2>1, <2>2, <3>1, TokenSet
    <3> QED BY <1>1, <2>1, <2>2, <3>2 DEF TokenIInv, T!TypeOK, CacheInv
  <2>3. CASE T!refreshToken(r, "auth")
    <3>1. treq' \in [Callers -> T!Request] /\ \A s \in Callers : TokenRequestInv(s)'
      BY <2>1, <2>3, TokenSet DEF T!refreshToken
    <3> QED BY <1>1, <2>1, <2>3, <3>1, EmptyCache DEF TokenIInv, T!TypeOK, T!refreshToken
  <2> QED BY <1>4, <2>2, <2>3 DEF T!getToken
<1>5. ASSUME NEW r \in Callers, T!IssueToken(r) PROVE TokenIInv'
  <2>1. now' = now /\ tqrs' = tqrs /\ minIssue' = minIssue /\ cache' = cache
    BY <1>5 DEF T!IssueToken
  <2>2. PICK pc \in {"issued", "reissued"} :
            treq' = [treq EXCEPT ![r] = [pc |-> pc, token |-> now, sent |-> treq[r].sent]]
    BY <1>5 DEF T!IssueToken
  <2> DEFINE x == [pc |-> pc, token |-> now, sent |-> treq[r].sent]
  <2>3. treq' = [treq EXCEPT ![r] = x] /\ x \in T!Request /\ treq'[r] = x /\ T!InFlight(r)
    <3>1. treq[r].sent \in Nat
      BY <1>2 DEF T!Request
    <3>2. x \in T!Request
      BY <1>1, <3>1 DEF T!Request
    <3>3. T!InFlight(r)
      BY <1>5 DEF T!IssueToken, T!InFlight, T!At
    <3> QED BY <1>1, <2>2, <3>2, <3>3
  <2>4. TokenRequestInv(r)'
    BY <1>1, <1>2, <2>1, <2>2, <2>3, SMTT(30) DEF TokenRequestInv, T!InFlight, T!At, T!Request
  <2>5. treq' \in [Callers -> T!Request] /\ \A s \in Callers : TokenRequestInv(s)'
    BY <1>1, <2>1, <2>3, <2>4, TokenRequestMoves
  <2> QED BY <1>1, <2>1, <2>5 DEF TokenIInv, T!TypeOK, CacheInv
<1>6. ASSUME NEW r \in Callers, T!CacheToken(r) PROVE TokenIInv'
  <2>1. now' = now /\ tqrs' = tqrs /\ minIssue' = minIssue
    BY <1>6 DEF T!CacheToken
  <2>2. /\ treq[r].token \in Nat /\ treq[r].sent \in Nat /\ tqrs[r] = 0
        /\ now <= treq[r].sent + Timeout /\ treq[r].sent <= treq[r].token
    BY <1>2, <1>6 DEF T!CacheToken, TokenRequestInv, T!InFlight, T!At, T!Request
  <2>3. cache' = [token |-> treq[r].token, expiresAt |-> now + Ttl]
    BY <1>6 DEF T!CacheToken
  <2>4. CacheInv' /\ cache' \in [token : Nat \cup {NoTime}, expiresAt : Nat]
    BY <1>1, <2>2, <2>3 DEF CacheInv
  <2>5. PICK pc \in {"call", "retry"} : T!Set(r, pc, treq[r].token)
    BY <1>6 DEF T!CacheToken
  <2>6. treq' \in [Callers -> T!Request] /\ \A s \in Callers : TokenRequestInv(s)'
    BY <2>1, <2>2, <2>5, TokenSet
  <2> QED BY <1>1, <2>1, <2>4, <2>6 DEF TokenIInv, T!TypeOK
<1>7. ASSUME NEW r \in Callers, T!AuthFails(r) \/ T!CallFails(r) PROVE TokenIInv'
  <2>1. T!Finish(r) /\ now' = now /\ tqrs' = tqrs /\ minIssue' = minIssue /\ cache' = cache
    BY <1>7 DEF T!AuthFails, T!CallFails
  <2>2. tqrs[r] <= 1
    BY <1>2 DEF TokenRequestInv
  <2>3. treq' \in [Callers -> T!Request] /\ \A s \in Callers : TokenRequestInv(s)'
    BY <1>1, <2>1, <2>2, TokenFinish
  <2> QED BY <1>1, <2>1, <2>3 DEF TokenIInv, T!TypeOK, CacheInv
<1>8. ASSUME NEW r \in Callers, T!withToken(r) PROVE TokenIInv'
  <2>1. now' = now /\ tqrs' = tqrs /\ minIssue' = minIssue
    BY <1>8 DEF T!withToken
  <2>2. CASE T!At(r, "call") /\ T!refreshToken(r, "reauth")
    <3>1. tqrs[r] = 0
      BY <1>2, <2>2 DEF TokenRequestInv, T!InFlight, T!At
    <3>2. treq' \in [Callers -> T!Request] /\ \A s \in Callers : TokenRequestInv(s)'
      BY <2>1, <2>2, <3>1, TokenSet DEF T!refreshToken
    <3> QED BY <1>1, <2>1, <2>2, <3>2, EmptyCache DEF TokenIInv, T!TypeOK, T!refreshToken
  <2>3. CASE T!Finish(r) /\ UNCHANGED cache
    <3>1. tqrs[r] <= 1
      BY <1>2 DEF TokenRequestInv
    <3>2. treq' \in [Callers -> T!Request] /\ \A s \in Callers : TokenRequestInv(s)'
      BY <1>1, <2>1, <2>3, <3>1, TokenFinish
    <3> QED BY <1>1, <2>1, <2>3, <3>2 DEF TokenIInv, T!TypeOK, CacheInv
  <2> QED BY <1>8, <2>2, <2>3 DEF T!withToken
<1>9. ASSUME NEW r \in Callers, T!generateQr(r) PROVE TokenIInv'
  <2>1. /\ now' = now /\ minIssue' = minIssue /\ cache' = cache /\ T!Finish(r)
        /\ tqrs' = [tqrs EXCEPT ![r] = @ + 1]
    BY <1>9 DEF T!generateQr
  <2>2. tqrs[r] = 0
    BY <1>2, <1>9 DEF T!generateQr, TokenRequestInv, T!InFlight, T!At
  <2>3. /\ tqrs' \in [Callers -> Nat] /\ tqrs'[r] <= 1
        /\ \A s \in Callers \ {r} : tqrs'[s] = tqrs[s]
    BY <1>1, <2>1, <2>2
  <2>4. treq' \in [Callers -> T!Request] /\ \A s \in Callers : TokenRequestInv(s)'
    BY <2>1, <2>3, TokenFinish
  <2> QED BY <1>1, <2>1, <2>3, <2>4 DEF TokenIInv, T!TypeOK, CacheInv
<1>10. CASE T!Tick \/ T!Revoke
  <2>1. /\ now' = now + 1 /\ minIssue' \in Nat /\ UNCHANGED <<cache, tqrs, treq>>
        /\ \A r \in Callers : T!InFlight(r) => now < treq[r].sent + Timeout
    BY <1>1, <1>10 DEF T!Tick, T!Revoke
  <2>2. ASSUME NEW r \in Callers PROVE TokenRequestInv(r)'
    BY <1>1, <1>2, <2>1 DEF TokenRequestInv, T!InFlight, T!At, T!Request
  <2> QED BY <1>1, <2>1, <2>2 DEF TokenIInv, T!TypeOK, CacheInv
<1>11. CASE T!Crash
  <2>1. /\ cache' = T!NoToken /\ treq' = [r \in Callers |-> T!IdleRequest]
        /\ UNCHANGED <<now, minIssue, tqrs>>
    BY <1>11 DEF T!Crash
  <2>2. T!IdleRequest \in T!Request
    BY DEF T!IdleRequest, T!Request
  <2>3. ASSUME NEW r \in Callers PROVE TokenRequestInv(r)'
    BY <1>2, <2>1 DEF TokenRequestInv, T!InFlight, T!At, T!IdleRequest
  <2> QED BY <1>1, <2>1, <2>2, <2>3, EmptyCache DEF TokenIInv, T!TypeOK
<1> QED BY <1>3, <1>4, <1>5, <1>6, <1>7, <1>8, <1>9, <1>10, <1>11 DEF T!Next, T!Handler

LEMMA TokenInit == T!Init => TokenIInv
<1> SUFFICES ASSUME T!Init PROVE TokenIInv
  OBVIOUS
<1>1. T!TypeOK
  BY DEF T!Init, T!TypeOK, T!IdleRequest, T!Request, T!NoToken
<1>2. CacheInv
  BY DEF T!Init, CacheInv
<1>3. ASSUME NEW r \in Callers PROVE TokenRequestInv(r)
  BY DEF T!Init, TokenRequestInv, T!InFlight, T!At, T!IdleRequest
<1> QED BY <1>1, <1>2, <1>3 DEF TokenIInv

LEMMA TokenInvariance == TokenSpec => []TokenIInv
<1>1. TokenIInv /\ [T!Next]_(T!vars) => TokenIInv'
  BY TokenNext, TimesAssumption
<1> QED BY TokenInit, <1>1, PTL DEF TokenSpec, T!Spec

\* SipAuthService.getToken never uses an entry whose token has expired at SIP, for
\* every lifetime in the cache that leaves room for the timeout of the call.
THEOREM CachedTokenValidThm == TokenSpec => []CachedTokenValid
<1>1. TokenIInv => CachedTokenValid
  BY TimesAssumption
     DEF T!TimesOK, TokenIInv, T!TypeOK, CacheInv, CachedTokenValid, T!CachedTokenValid
<1> QED BY TokenInvariance, <1>1, PTL

\* SipBmscService.withToken repeats only refused calls: a request makes one QR at most,
\* for any number of requests sharing the cache.
THEOREM OneQrPerRequestThm == TokenSpec => []OneQrPerRequest
<1>1. TokenIInv => OneQrPerRequest
  BY DEF TokenIInv, TokenRequestInv, OneQrPerRequest, T!OneQrPerRequest
<1> QED BY TokenInvariance, <1>1, PTL
=============================================================================
