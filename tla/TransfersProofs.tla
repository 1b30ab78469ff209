---------------------------- MODULE TransfersProofs ---------------------------
(***************************************************************************)
(* Proofs about Transfers, for any users, orders, targets and requests and  *)
(* any of the faults, however requests for one order overlap and whatever   *)
(* cards and aliases change hands meanwhile.                                *)
(***************************************************************************)
EXTENDS Transfers, TLAPS

Answers == {"none", "ok", "invalid", "refused", "error"}

\* What a request in flight has established.
RequestOK(x) ==
    /\ x.pc # "idle" => /\ x.try \in Tries /\ x.try[2] <= attempts[x.try[1]]
                        /\ x.payee # Sender[x.try[1]]
                        /\ answer[x.try] = "none"
                        /\ moved[x.try] = IF x.pc \in PaidLabels THEN 1 ELSE 0
    /\ x.pc = "cards" => x.cardless \/ physical[Sender[x.try[1]]] # "none"
    /\ x.pc \notin {"idle", "cards", "viewPin"} => x.cardless \/ x.pin = "right"
    /\ x.pc \in PaidLabels => <<x.try, x.payee>> \in paid
    /\ x.pc \in {"notifyRecipient", "notifySender"} => <<x.try, x.payee>> \in receipts

\* No two requests are the same try, and tries not sent yet left no trace.
Apart == \A r, q \in Requests : ~At(r, "idle") /\ ~At(q, "idle") /\ Try(r) = Try(q) => r = q
Fresh == \A t \in Tries : attempts[t[1]] < t[2] => moved[t] = 0 /\ answer[t] = "none"

IInv ==
    /\ TypeOK
    /\ \A r \in Requests : RequestOK(req[r])
    /\ Apart /\ Fresh
    /\ AnswerTellsMove /\ ReceiptNamesPayee /\ SuccessHasReceipt

-----------------------------------------------------------------------------
LEMMA TryType ==
    ASSUME NEW t \in Tries
    PROVE  /\ t[1] \in Orders /\ t[2] \in Nat /\ 1 <= t[2] /\ t[2] <= MaxAttempts[t[1]]
           /\ t = <<t[1], t[2]>> /\ Sender[t[1]] \in Senders
<1>1. PICK o \in Orders : t \in {o} \X (1 .. MaxAttempts[o])
  BY DEF Tries
<1>2. t[1] = o /\ t[2] \in 1 .. MaxAttempts[o] /\ t = <<t[1], t[2]>>
  BY <1>1
<1>3. MaxAttempts[o] \in Nat
  BY ConstantsAssumption
<1> QED
  BY <1>2, <1>3 DEF Senders

\* The request r of the try t goes on as x or ends, and leaves for t the answer a and m
\* moves: nothing of the other requests and tries changes.
LEMMA TryStep ==
    ASSUME IInv, NEW r \in Requests, NEW x \in Request, NEW t \in Tries,
           t = Try(r), ~At(r, "idle"),
           req' = [req EXCEPT ![r] = x], x.pc # "idle" => x.try = t, RequestOK(x)',
           NEW m \in {0, 1}, NEW a \in Answers,
           moved' = [moved EXCEPT ![t] = m], answer' = [answer EXCEPT ![t] = a],
           a = "ok" => m = 1, a \in {"invalid", "refused"} => m = 0,
           paid \subseteq paid', paid' \subseteq paid \cup {<<t, req[r].payee>>},
           receipts \subseteq receipts', receipts' \subseteq paid',
           a = "ok" => \E p \in receipts' : p[1] = t,
           UNCHANGED <<physical, holder, attempts>>
    PROVE  IInv'
<1>1. req'[r] = x /\ \A q \in Requests \ {r} : req'[q] = req[q]
  BY DEF IInv, TypeOK
<1>2. /\ moved'[t] = m /\ answer'[t] = a
      /\ \A s \in Tries \ {t} : moved'[s] = moved[s] /\ answer'[s] = answer[s]
  BY DEF IInv, TypeOK
<1>3. \A q \in Requests \ {r} : ~At(q, "idle") => Try(q) \in Tries \ {t}
  BY DEF IInv, Apart, RequestOK, At, Try
<1>4. \A q \in Requests : RequestOK(req[q])'
  <2>1. RequestOK(req[r])'
    BY <1>1 DEF RequestOK
  <2>2. ASSUME NEW q \in Requests \ {r} PROVE RequestOK(req[q])'
    <3>1. RequestOK(req[q]) /\ req'[q] = req[q]
      BY <1>1 DEF IInv
    <3> QED
      BY <1>2, <1>3, <3>1 DEF RequestOK, At, Try
  <2> QED
    BY <2>1, <2>2
<1>5. Apart'
  <2>1. \A q \in Requests \ {r} : (At(q, "idle")' <=> At(q, "idle")) /\ Try(q)' = Try(q)
    BY <1>1 DEF At, Try
  <2>2. ~At(r, "idle")' => Try(r)' = t
    BY <1>1 DEF At, Try
  <2> QED
    BY <1>3, <2>1, <2>2 DEF IInv, Apart
<1>6. Fresh'
  <2>1. t[2] <= attempts[t[1]] /\ attempts[t[1]] \in Nat /\ t[2] \in Nat
    BY TryType DEF IInv, RequestOK, At, Try, TypeOK
  <2>2. ~(attempts[t[1]] < t[2])
    BY <2>1
  <2> QED
    BY <1>2, <2>2 DEF IInv, Fresh
<1>7. AnswerTellsMove'
  BY <1>2 DEF IInv, AnswerTellsMove
<1>8. ReceiptNamesPayee'
  <2>1. req[r].payee # Sender[t[1]]
    BY DEF IInv, RequestOK, At, Try
  <2> QED
    BY <2>1 DEF IInv, ReceiptNamesPayee
<1>9. SuccessHasReceipt'
  BY <1>2 DEF IInv, SuccessHasReceipt
<1>10. TypeOK'
  <2>1. req[r].payee \in Users \cup {None}
    BY DEF IInv, TypeOK, Request
  <2>2. paid' \subseteq Tries \X (Users \cup {None}) /\ receipts' \subseteq Tries \X (Users \cup {None})
    BY <2>1 DEF IInv, TypeOK
  <2>3. moved' \in [Tries -> Nat] /\ answer' \in [Tries -> Answers]
    BY DEF IInv, TypeOK, Answers
  <2>4. req' \in [Requests -> Request]
    BY DEF IInv, TypeOK
  <2> QED
    BY <2>2, <2>3, <2>4 DEF IInv, TypeOK, Answers
<1> QED
  BY <1>4, <1>5, <1>6, <1>7, <1>8, <1>9, <1>10 DEF IInv

LEMMA IdleOK == IdleRequest \in Request /\ IdleRequest.pc = "idle"
  BY DEF IdleRequest, Request, Pins, Types

\* The try of a request in flight and what RequestOK says of it.
LEMMA InFlight ==
    ASSUME IInv, NEW r \in Requests, ~At(r, "idle")
    PROVE  /\ req[r] \in Request /\ RequestOK(req[r]) /\ Try(r) \in Tries
           /\ Ord(r) \in Orders /\ Sender[Ord(r)] \in Senders
           /\ moved[Try(r)] = (IF req[r].pc \in PaidLabels THEN 1 ELSE 0)
           /\ answer[Try(r)] = "none"
<1>1. req[r] \in Request /\ RequestOK(req[r])
  BY DEF IInv, TypeOK
<1>2. /\ Try(r) \in Tries /\ answer[Try(r)] = "none"
      /\ moved[Try(r)] = (IF req[r].pc \in PaidLabels THEN 1 ELSE 0)
  BY <1>1 DEF RequestOK, At, Try
<1> QED
  BY <1>1, <1>2, TryType DEF Ord

LEMMA ReceiptsPaid == IInv => receipts \subseteq paid
  BY DEF IInv, ReceiptNamesPayee

\* A handler answers a, which fits what the try has moved.
LEMMA AnswerStep ==
    ASSUME IInv, NEW r \in Requests, ~At(r, "idle"),
           NEW a \in {"ok", "refused", "error"}, Answer(r, a),
           a = "ok" => /\ req[r].pc \in PaidLabels
                       /\ \E p \in receipts' : p[1] = Try(r),
           a = "refused" => req[r].pc \notin PaidLabels,
           receipts \subseteq receipts', receipts' \subseteq paid,
           UNCHANGED <<world, money, attempts>>
    PROVE  IInv'
<1>1. PICK t \in Tries : t = Try(r)
  BY InFlight
<1>2. PICK m \in {0, 1} : m = moved[t] /\ (m = 1 <=> req[r].pc \in PaidLabels)
  BY <1>1, InFlight
<1>3. /\ req' = [req EXCEPT ![r] = IdleRequest] /\ answer' = [answer EXCEPT ![t] = a]
      /\ moved' = [moved EXCEPT ![t] = m]
      /\ UNCHANGED <<physical, holder, paid, attempts>>
  BY <1>1, <1>2 DEF Answer, world, money, IInv, TypeOK
<1>4. RequestOK(IdleRequest)'
  BY DEF RequestOK, IdleRequest, PaidLabels
<1>5. /\ paid \subseteq paid' /\ paid' \subseteq paid \cup {<<t, req[r].payee>>}
      /\ receipts \subseteq receipts' /\ receipts' \subseteq paid'
  BY <1>3
<1>6. a \in Answers /\ (a = "ok" => m = 1) /\ (a \in {"invalid", "refused"} => m = 0)
  BY <1>2 DEF Answers
<1>7. a = "ok" => \E p \in receipts' : p[1] = t
  BY <1>1
<1> QED
  BY <1>1, <1>3, <1>4, <1>5, <1>6, <1>7, IdleOK, TryStep

\* A handler goes on as x without a move.
LEMMA AdvanceStep ==
    ASSUME IInv, NEW r \in Requests, ~At(r, "idle"), NEW x \in Request,
           req' = [req EXCEPT ![r] = x], x.pc # "idle", x.try = Try(r),
           x.payee # Sender[Ord(r)],
           x.pc \in PaidLabels <=> req[r].pc \in PaidLabels,
           x.pc \in PaidLabels => <<x.try, x.payee>> \in paid,
           x.pc # "cards", x.pc # "viewPin" => x.cardless \/ x.pin = "right",
           x.pc \in {"notifyRecipient", "notifySender"} => <<x.try, x.payee>> \in receipts',
           receipts \subseteq receipts', receipts' \subseteq paid,
           UNCHANGED <<world, money, attempts, answer>>
    PROVE  IInv'
<1>1. PICK t \in Tries : t = Try(r) /\ x.try = t
  BY InFlight
<1>2. PICK m \in {0, 1} : m = moved[t] /\ m = (IF x.pc \in PaidLabels THEN 1 ELSE 0)
  BY <1>1, InFlight
<1>3. /\ answer' = [answer EXCEPT ![t] = "none"] /\ moved' = [moved EXCEPT ![t] = m]
      /\ UNCHANGED <<physical, holder, paid, attempts, moved, answer>>
  BY <1>1, <1>2, InFlight DEF world, money, IInv, TypeOK
<1>4. RequestOK(x)'
  <2>1. t[2] <= attempts[t[1]] /\ x.payee # Sender[t[1]] /\ answer[t] = "none"
    BY <1>1, InFlight DEF RequestOK, At, Try, Ord
  <2> QED
    BY <1>1, <1>2, <1>3, <2>1 DEF RequestOK
<1>5. /\ paid \subseteq paid' /\ paid' \subseteq paid \cup {<<t, req[r].payee>>}
      /\ receipts \subseteq receipts' /\ receipts' \subseteq paid'
  BY <1>3
<1>6. PICK a \in Answers : a = "none"
  BY DEF Answers
<1>7. /\ answer' = [answer EXCEPT ![t] = a] /\ a # "ok" /\ a \notin {"invalid", "refused"}
      /\ x.pc # "idle" => x.try = t
  BY <1>1, <1>3, <1>6
<1>8. UNCHANGED <<physical, holder, attempts>>
  BY <1>3
<1>9. moved' = [moved EXCEPT ![t] = m] /\ t = Try(r)
  BY <1>1, <1>3
<1> QED
  BY <1>2, <1>4, <1>5, <1>6, <1>7, <1>8, <1>9, TryStep, ZenonT(180)

\* A handler only moves on to the label l.
LEMMA GotoStep ==
    ASSUME IInv, NEW r \in Requests, ~At(r, "idle"),
           NEW l \in {"viewPin", "recipient", "call", "receipt", "notifyRecipient",
                      "notifySender"},
           Goto(r, l),
           l \in PaidLabels <=> req[r].pc \in PaidLabels,
           l # "viewPin" => req[r].cardless \/ req[r].pin = "right",
           l \in {"notifyRecipient", "notifySender"} => <<Try(r), req[r].payee>> \in receipts',
           receipts \subseteq receipts', receipts' \subseteq paid,
           UNCHANGED <<world, money, attempts, answer>>
    PROVE  IInv'
<1>1. req[r] \in Request /\ RequestOK(req[r])
  BY InFlight
<1>2. PICK x \in Request :
        /\ x = [req[r] EXCEPT !.pc = l]
        /\ x.pc = l /\ x.try = req[r].try /\ x.payee = req[r].payee
        /\ x.cardless = req[r].cardless /\ x.pin = req[r].pin
  <2>1. [req[r] EXCEPT !.pc = l] \in Request
    BY <1>1 DEF Request
  <2> QED
    BY <1>1, <2>1 DEF Request
<1>3. req' = [req EXCEPT ![r] = x]
  BY <1>2 DEF Goto, IInv, TypeOK
<1>4. x.try = Try(r) /\ x.payee # Sender[Ord(r)] /\ (x.pc \in PaidLabels => <<x.try, x.payee>> \in paid)
  BY <1>1, <1>2 DEF RequestOK, At, Try, Ord
<1>5. /\ x.pc # "idle" /\ x.pc # "cards" /\ (x.pc \in PaidLabels <=> req[r].pc \in PaidLabels)
      /\ x.pc # "viewPin" => x.cardless \/ x.pin = "right"
      /\ x.pc \in {"notifyRecipient", "notifySender"} => <<x.try, x.payee>> \in receipts'
  BY <1>2, <1>4
<1> QED
  BY <1>3, <1>4, <1>5, AdvanceStep, ZenonT(60)

\* The instance of AnswerStep that stores nothing.
LEMMA RefuseStep ==
    ASSUME IInv, NEW r \in Requests, ~At(r, "idle"),
           NEW a \in {"refused", "error"}, Answer(r, a),
           a = "refused" => req[r].pc \notin PaidLabels,
           UNCHANGED <<world, money, receipts, attempts>>
    PROVE  IInv'
<1>1. receipts \subseteq receipts' /\ receipts' \subseteq paid /\ a # "ok"
  BY ReceiptsPaid
<1> QED
  BY <1>1, AnswerStep

\* Who skips the PIN has no card now; who does not has shown one.
LEMMA ValidateTransferCardPinStep ==
    ASSUME IInv, NEW r \in Requests, validateTransferCardPin(r)
    PROVE  IInv'
<1> DEFINE card == physical[Sender[Ord(r)]]
<1>1. /\ At(r, "cards") /\ ~At(r, "idle") /\ req[r].pc \notin PaidLabels
      /\ UNCHANGED <<world, money, receipts, attempts>>
  BY DEF validateTransferCardPin, At, PaidLabels
<1>2. CASE card = "none"
  <2>1. Goto(r, AfterPin(r)) /\ UNCHANGED answer
    BY <1>2 DEF validateTransferCardPin
  <2>2. req[r].cardless
    BY <1>1, <1>2 DEF IInv, RequestOK, At, Ord, Try
  <2>3. PICK l \in {"recipient", "call"} : l = AfterPin(r)
    BY DEF AfterPin
  <2> QED
    BY <1>1, <2>1, <2>2, <2>3, ReceiptsPaid, GotoStep DEF PaidLabels
<1>3. CASE Answer(r, "refused")
  BY <1>1, <1>3, RefuseStep
<1>4. CASE Goto(r, "viewPin") /\ UNCHANGED answer
  BY <1>1, <1>4, ReceiptsPaid, GotoStep DEF PaidLabels
<1> QED
  BY <1>2, <1>3, <1>4 DEF validateTransferCardPin

LEMMA ViewPinStep ==
    ASSUME IInv, NEW r \in Requests, viewPinForCustomer(r)
    PROVE  IInv'
<1>1. /\ ~At(r, "idle") /\ req[r].pc \notin PaidLabels
      /\ UNCHANGED <<world, money, receipts, attempts>>
  BY DEF viewPinForCustomer, At, PaidLabels
<1>2. CASE req[r].pin = "right" /\ Goto(r, AfterPin(r)) /\ UNCHANGED answer
  <2>1. PICK l \in {"recipient", "call"} : l = AfterPin(r)
    BY DEF AfterPin
  <2> QED
    BY <1>1, <1>2, <2>1, ReceiptsPaid, GotoStep DEF PaidLabels
<1>3. CASE Answer(r, "refused") \/ Answer(r, "error")
  BY <1>1, <1>3, RefuseStep
<1> QED
  BY <1>2, <1>3 DEF viewPinForCustomer

\* The recipient found is not the sender.
LEMMA FindRecipientStep ==
    ASSUME IInv, NEW r \in Requests, findRecipient(r)
    PROVE  IInv'
<1>1. /\ At(r, "recipient") /\ ~At(r, "idle") /\ req[r].pc \notin PaidLabels
      /\ UNCHANGED <<world, money, receipts, attempts>>
  BY DEF findRecipient, At, PaidLabels
<1>2. CASE Lookup(r) \in {None, Sender[Ord(r)]}
  BY <1>1, <1>2, RefuseStep DEF findRecipient
<1>3. CASE Lookup(r) \notin {None, Sender[Ord(r)]}
  <2>1. req[r] \in Request /\ RequestOK(req[r]) /\ Ord(r) \in Orders
    BY <1>1, InFlight
  <2>2. Lookup(r) \in Users
    BY <1>3, <2>1, ConstantsAssumption DEF Lookup, IInv, TypeOK
  <2>3. PICK u \in Users : u = Lookup(r) /\ u # Sender[Ord(r)]
    BY <1>3, <2>2
  <2>4. PICK x \in Request :
          /\ x = [req[r] EXCEPT !.pc = "profile", !.payee = u]
          /\ x.pc = "profile" /\ x.try = req[r].try /\ x.payee = u
          /\ x.cardless = req[r].cardless /\ x.pin = req[r].pin
    <3>1. [req[r] EXCEPT !.pc = "profile", !.payee = u] \in Request
      BY <2>1 DEF Request
    <3> QED
      BY <2>1, <3>1 DEF Request
  <2>5. req' = [req EXCEPT ![r] = x] /\ UNCHANGED answer
    BY <1>3, <2>3, <2>4 DEF findRecipient, IInv, TypeOK
  <2>6. x.cardless \/ x.pin = "right"
    BY <1>1, <2>1, <2>4 DEF RequestOK, At
  <2>7. x.pc \notin PaidLabels
    BY <2>4 DEF PaidLabels
  <2> QED
    BY <1>1, <2>3, <2>4, <2>5, <2>6, <2>7, ReceiptsPaid, AdvanceStep DEF Try
<1> QED
  BY <1>2, <1>3

LEMMA FindProfileStep ==
    ASSUME IInv, NEW r \in Requests, findProfileByUserId(r)
    PROVE  IInv'
<1>1. /\ At(r, "profile") /\ ~At(r, "idle") /\ req[r].pc \notin PaidLabels
      /\ UNCHANGED <<world, money, receipts, attempts>>
  BY DEF findProfileByUserId, At, PaidLabels
<1>2. req[r].cardless \/ req[r].pin = "right"
  BY <1>1 DEF IInv, RequestOK, At
<1>3. CASE Goto(r, "call") /\ UNCHANGED answer
  BY <1>1, <1>2, <1>3, ReceiptsPaid, GotoStep DEF PaidLabels
<1>4. CASE Answer(r, "refused")
  BY <1>1, <1>4, RefuseStep
<1> QED
  BY <1>3, <1>4 DEF findProfileByUserId

\* The move: a try that had moved nothing has now moved once.
LEMMA MoveFirst ==
    ASSUME IInv, NEW r \in Requests, At(r, "call"), Move(r)
    PROVE  /\ ~At(r, "idle") /\ Try(r) \in Tries /\ moved' = [moved EXCEPT ![Try(r)] = 1]
           /\ paid' = paid \cup {<<Try(r), req[r].payee>>}
<1>1. ~At(r, "idle") /\ req[r].pc \notin PaidLabels
  BY DEF At, PaidLabels
<1>2. Try(r) \in Tries /\ moved[Try(r)] = 0
  BY <1>1, InFlight
<1> QED
  BY <1>1, <1>2 DEF Move

LEMMA BackofficeTransferStep ==
    ASSUME IInv, NEW r \in Requests, backofficeTransfer(r)
    PROVE  IInv'
<1>1. /\ At(r, "call") /\ Move(r) /\ Goto(r, "names")
      /\ UNCHANGED <<physical, holder, receipts, attempts, answer>>
  BY DEF backofficeTransfer, world
<1>2. ~At(r, "idle")
  BY <1>1, MoveFirst
<1>3. PICK t \in Tries :
        /\ t = Try(r) /\ moved' = [moved EXCEPT ![t] = 1]
        /\ paid' = paid \cup {<<t, req[r].payee>>} /\ answer[t] = "none"
  BY <1>1, <1>2, MoveFirst, InFlight
<1>4. req[r] \in Request /\ RequestOK(req[r])
  BY <1>2, InFlight
<1>5. PICK x \in Request :
        /\ x = [req[r] EXCEPT !.pc = "names"]
        /\ x.pc = "names" /\ x.try = req[r].try /\ x.payee = req[r].payee
        /\ x.cardless = req[r].cardless /\ x.pin = req[r].pin
  <2>1. [req[r] EXCEPT !.pc = "names"] \in Request
    BY <1>4 DEF Request
  <2> QED
    BY <1>4, <2>1 DEF Request
<1>6. req' = [req EXCEPT ![r] = x]
  BY <1>1, <1>5 DEF Goto, IInv, TypeOK
<1>7. /\ x.try = t /\ t[2] <= attempts[t[1]] /\ x.payee # Sender[t[1]]
      /\ x.cardless \/ x.pin = "right"
  BY <1>1, <1>3, <1>4, <1>5 DEF RequestOK, At, Try
<1>8. moved'[t] = 1
  BY <1>3 DEF IInv, TypeOK
<1>9. RequestOK(x)'
  BY <1>1, <1>3, <1>5, <1>7, <1>8 DEF RequestOK, PaidLabels
<1>10. PICK a \in Answers : a = "none"
  BY DEF Answers
<1>11. /\ answer' = [answer EXCEPT ![t] = a] /\ a # "ok" /\ a \notin {"invalid", "refused"}
       /\ x.pc # "idle" => x.try = t
  BY <1>1, <1>3, <1>7, <1>10 DEF IInv, TypeOK
<1>12. PICK m \in {0, 1} : m = 1
  OBVIOUS
<1>13. /\ receipts \subseteq receipts' /\ receipts' \subseteq paid'
       /\ paid \subseteq paid' /\ paid' \subseteq paid \cup {<<t, req[r].payee>>}
       /\ moved' = [moved EXCEPT ![t] = m] /\ UNCHANGED <<physical, holder, attempts>>
  BY <1>1, <1>3, <1>12, ReceiptsPaid
<1> QED
  BY <1>2, <1>3, <1>6, <1>9, <1>11, <1>13, TryStep

\* The call fails before the move, or after it.
LEMMA CallFailsStep ==
    ASSUME IInv, NEW r \in Requests, CallFails(r)
    PROVE  IInv'
<1>1. /\ At(r, "call") /\ ~At(r, "idle") /\ Answer(r, "error")
      /\ UNCHANGED <<physical, holder, receipts, attempts>>
      /\ UNCHANGED <<world, receipts, attempts>>
  BY DEF CallFails, At, world
<1>2. CASE UNCHANGED money
  BY <1>1, <1>2, RefuseStep
<1>3. CASE Move(r)
  <2>1. PICK t \in Tries :
          /\ t = Try(r) /\ moved' = [moved EXCEPT ![t] = 1]
          /\ paid' = paid \cup {<<t, req[r].payee>>}
    BY <1>1, <1>3, MoveFirst
  <2>2. req' = [req EXCEPT ![r] = IdleRequest] /\ answer' = [answer EXCEPT ![t] = "error"]
    BY <1>1, <2>1 DEF Answer
  <2>3. RequestOK(IdleRequest)'
    BY DEF RequestOK, IdleRequest, PaidLabels
  <2>4. "error" \in Answers /\ receipts \subseteq receipts' /\ receipts' \subseteq paid'
    BY <1>1, <2>1, ReceiptsPaid DEF Answers
  <2> QED
    BY <1>1, <2>1, <2>2, <2>3, <2>4, IdleOK, TryStep
<1> QED
  BY <1>2, <1>3 DEF CallFails

LEMMA NamesStep ==
    ASSUME IInv, NEW r \in Requests, resolveUserDisplayName(r)
    PROVE  IInv'
<1>1. /\ At(r, "names") /\ ~At(r, "idle") /\ req[r].pc \in PaidLabels
      /\ UNCHANGED <<world, money, receipts, attempts>>
  BY DEF resolveUserDisplayName, At, PaidLabels
<1>2. req[r].cardless \/ req[r].pin = "right"
  BY <1>1 DEF IInv, RequestOK, At
<1>3. CASE Goto(r, "receipt") /\ UNCHANGED answer
  BY <1>1, <1>2, <1>3, ReceiptsPaid, GotoStep DEF PaidLabels
<1>4. CASE Answer(r, "error")
  BY <1>1, <1>4, RefuseStep
<1> QED
  BY <1>3, <1>4 DEF resolveUserDisplayName

LEMMA PersistReceiptStep ==
    ASSUME IInv, NEW r \in Requests, persistReceipt(r)
    PROVE  IInv'
<1>1. /\ At(r, "receipt") /\ ~At(r, "idle") /\ req[r].pc \in PaidLabels
      /\ receipts' = receipts \cup {<<Try(r), req[r].payee>>}
      /\ UNCHANGED <<world, money, attempts>>
  BY DEF persistReceipt, StoreReceipt, At, PaidLabels
<1>2. <<Try(r), req[r].payee>> \in paid /\ (req[r].cardless \/ req[r].pin = "right")
  BY <1>1 DEF IInv, RequestOK, At, Try
<1>3. receipts \subseteq receipts' /\ receipts' \subseteq paid
  BY <1>1, <1>2, ReceiptsPaid
<1>4. CASE Goto(r, "notifyRecipient") /\ UNCHANGED answer
  <2>1. <<Try(r), req[r].payee>> \in receipts' /\ "notifyRecipient" \in PaidLabels
    BY <1>1 DEF PaidLabels
  <2>2. UNCHANGED <<world, money, attempts, answer>>
    BY <1>1, <1>4
  <2> QED
    BY <1>1, <1>2, <1>3, <1>4, <2>1, <2>2, GotoStep
<1>5. CASE Answer(r, "ok")
  <2> DEFINE p == <<Try(r), req[r].payee>>
  <2>1. p \in receipts' /\ p[1] = Try(r)
    BY <1>1
  <2> QED
    BY <1>1, <1>3, <1>5, <2>1, AnswerStep
<1> QED
  BY <1>4, <1>5 DEF persistReceipt, StoreReceipt

LEMMA SendToUserStep ==
    ASSUME IInv, NEW r \in Requests, sendToUser(r)
    PROVE  IInv'
<1>1. /\ req[r].pc \in {"notifyRecipient", "notifySender"} /\ ~At(r, "idle")
      /\ req[r].pc \in PaidLabels
      /\ UNCHANGED <<world, money, receipts, attempts>>
  BY DEF sendToUser, At, PaidLabels
<1>2. <<Try(r), req[r].payee>> \in receipts /\ (req[r].cardless \/ req[r].pin = "right")
  BY <1>1 DEF IInv, RequestOK, Try
<1>3. receipts \subseteq receipts' /\ receipts' \subseteq paid
  BY <1>1, ReceiptsPaid
<1>4. CASE Goto(r, "notifySender") /\ UNCHANGED answer
  BY <1>1, <1>2, <1>3, <1>4, GotoStep DEF PaidLabels
<1>5. CASE Answer(r, "ok")
  <2>1. \E p \in receipts' : p[1] = Try(r)
    BY <1>1, <1>2
  <2> QED
    BY <1>1, <1>3, <1>5, <2>1, AnswerStep
<1> QED
  BY <1>4, <1>5 DEF sendToUser

LEMMA DbFailsStep ==
    ASSUME IInv, NEW r \in Requests, DbFails(r)
    PROVE  IInv'
  BY RefuseStep DEF DbFails, At

-----------------------------------------------------------------------------
\* A new request is a try that left no trace so far.
LEMMA SendOrderStep ==
    ASSUME IInv, NEW r \in Requests, NEW o \in Orders, NEW pin \in Pins, NEW type \in Types,
           SendOrder(r, o, pin, type)
    PROVE  IInv'
<1>1. /\ At(r, "idle") /\ attempts[o] < MaxAttempts[o]
      /\ attempts' = [attempts EXCEPT ![o] = @ + 1]
      /\ UNCHANGED <<physical, holder, moved, paid, receipts>>
  BY DEF SendOrder, world, money
<1>2. /\ attempts[o] \in Nat /\ MaxAttempts[o] \in Nat /\ attempts' \in [Orders -> Nat]
      /\ attempts'[o] = attempts[o] + 1
      /\ \A p \in Orders : attempts[p] \in Nat /\ attempts[p] <= attempts'[p]
      /\ \A p \in Orders : attempts'[p] <= MaxAttempts[p]
  <2>1. /\ attempts \in [Orders -> Nat] /\ MaxAttempts \in [Orders -> Nat]
        /\ \A p \in Orders : attempts[p] <= MaxAttempts[p]
    BY ConstantsAssumption DEF IInv, TypeOK
  <2>2. attempts' \in [Orders -> Nat] /\ attempts'[o] = attempts[o] + 1
    BY <1>1, <2>1
  <2>3. \A p \in Orders \ {o} : attempts'[p] = attempts[p]
    BY <1>1, <2>1
  <2>4. attempts[o] \in Nat /\ MaxAttempts[o] \in Nat /\ attempts'[o] <= MaxAttempts[o]
    BY <1>1, <2>1, <2>2
  <2> QED
    BY <2>1, <2>2, <2>3, <2>4
<1>3. PICK t \in Tries : t = <<o, attempts[o] + 1>> /\ t[1] = o /\ t[2] = attempts[o] + 1
  <2>1. attempts[o] + 1 \in 1 .. MaxAttempts[o]
    BY <1>1, <1>2
  <2>2. <<o, attempts[o] + 1>> \in {o} \X (1 .. MaxAttempts[o])
    BY <2>1
  <2> QED
    BY <2>2 DEF Tries
<1>4. moved[t] = 0 /\ answer[t] = "none"
  BY <1>2, <1>3 DEF IInv, Fresh
<1>5. \A q \in Requests : ~At(q, "idle") => Try(q) \in Tries \ {t}
  <2>1. ASSUME NEW q \in Requests, ~At(q, "idle") PROVE Try(q) \in Tries \ {t}
    <3>1. Try(q) \in Tries /\ Try(q)[2] <= attempts[Try(q)[1]]
      BY <2>1, InFlight DEF RequestOK, At, Try
    <3> QED
      BY <1>2, <1>3, <3>1
  <2> QED
    BY <2>1
<1>6. \A s \in Tries : attempts'[s[1]] < s[2] => attempts[s[1]] < s[2] /\ s # t
  <2>1. ASSUME NEW s \in Tries, attempts'[s[1]] < s[2] PROVE attempts[s[1]] < s[2] /\ s # t
    <3>1. s[1] \in Orders /\ s[2] \in Nat
      BY TryType
    <3> QED
      BY <1>2, <1>3, <2>1, <3>1
  <2> QED
    BY <2>1
<1>7. ASSUME NEW q \in Requests, req'[q] = req[q],
             \A s \in Tries \ {t} : answer'[s] = answer[s]
      PROVE  RequestOK(req[q])'
  <2>1. CASE At(q, "idle")
    BY <1>7, <2>1 DEF RequestOK, At, PaidLabels
  <2>2. CASE ~At(q, "idle")
    <3>1. RequestOK(req[q]) /\ Try(q) \in Tries \ {t}
      BY <1>5, <2>2 DEF IInv
    <3>2. Try(q)[1] \in Orders /\ Try(q)[2] \in Nat
      BY <3>1, TryType
    <3>3. Try(q)[2] <= attempts'[Try(q)[1]]
      BY <1>2, <2>2, <3>1, <3>2, SMTT(30) DEF RequestOK, At, Try
    <3> QED
      BY <1>1, <1>7, <2>2, <3>1, <3>3 DEF RequestOK, At, Try
  <2> QED
    BY <2>1, <2>2
<1>8. CASE answer' = [answer EXCEPT ![<<o, attempts[o] + 1>>] = "invalid"] /\ UNCHANGED req
  <2>1. /\ answer' \in [Tries -> Answers] /\ answer'[t] = "invalid"
        /\ \A s \in Tries \ {t} : answer'[s] = answer[s]
    BY <1>3, <1>8 DEF IInv, TypeOK, Answers
  <2>2. \A q \in Requests : RequestOK(req[q])'
    BY <1>7, <1>8, <2>1
  <2>3. Fresh'
    BY <1>1, <1>6, <2>1 DEF IInv, Fresh
  <2>4. AnswerTellsMove' /\ ReceiptNamesPayee' /\ SuccessHasReceipt'
    BY <1>1, <1>4, <2>1 DEF IInv, AnswerTellsMove, ReceiptNamesPayee, SuccessHasReceipt
  <2>5. Apart'
    BY <1>8 DEF IInv, Apart, At, Try
  <2>6. TypeOK'
    BY <1>1, <1>2, <1>8, <2>1 DEF IInv, TypeOK, Answers
  <2> QED
    BY <2>2, <2>3, <2>4, <2>5, <2>6 DEF IInv
<1>9. CASE /\ req' = [req EXCEPT ![r] = [pc |-> "cards", try |-> <<o, attempts[o] + 1>>,
                            pin |-> pin, type |-> type, payee |-> None,
                            cardless |-> physical[Sender[o]] = "none"]]
           /\ UNCHANGED answer
  <2>1. PICK c \in BOOLEAN : c = (physical[Sender[o]] = "none")
    OBVIOUS
  <2>2. PICK x \in Request :
          /\ x = [pc |-> "cards", try |-> t, pin |-> pin, type |-> type, payee |-> None,
                  cardless |-> c]
          /\ x.pc = "cards" /\ x.try = t /\ x.payee = None /\ x.cardless = c
    <3>1. [pc |-> "cards", try |-> t, pin |-> pin, type |-> type, payee |-> None,
           cardless |-> c] \in Request
      BY DEF Request
    <3> QED
      BY <3>1
  <2>3. req' = [req EXCEPT ![r] = x]
    BY <1>3, <1>9, <2>1, <2>2
  <2>4. RequestOK(x)'
    <3>1. None # Sender[t[1]]
      BY <1>3, ConstantsAssumption
    <3>2. t[2] <= attempts'[t[1]] /\ moved'[t] = 0 /\ answer'[t] = "none"
      <4>1. moved' = moved /\ answer' = answer
        BY <1>1, <1>9
      <4>2. attempts'[o] \in Nat /\ t[2] = attempts'[o] /\ t[1] = o
        BY <1>2, <1>3
      <4> QED
        BY <1>4, <4>1, <4>2
    <3>3. x.cardless \/ physical'[Sender[t[1]]] # "none"
      BY <1>1, <1>3, <2>1, <2>2
    <3> QED
      BY <2>2, <3>1, <3>2, <3>3 DEF RequestOK, PaidLabels
  <2>5. req'[r] = x /\ \A q \in Requests \ {r} : req'[q] = req[q]
    BY <2>3 DEF IInv, TypeOK
  <2>6. \A q \in Requests : RequestOK(req[q])'
    <3>1. \A q \in Requests \ {r} : RequestOK(req[q])'
      BY <1>7, <1>9, <2>5
    <3>2. RequestOK(req[r])'
      BY <2>4, <2>5 DEF RequestOK
    <3> QED
      BY <3>1, <3>2
  <2>7. Apart'
    <3>1. \A q \in Requests \ {r} : (At(q, "idle")' <=> At(q, "idle")) /\ Try(q)' = Try(q)
      BY <2>5 DEF At, Try
    <3>2. Try(r)' = t
      BY <2>2, <2>5 DEF Try
    <3> QED
      BY <1>5, <3>1, <3>2 DEF IInv, Apart
  <2>8. Fresh'
    BY <1>1, <1>6, <1>9 DEF IInv, Fresh
  <2>9. AnswerTellsMove' /\ ReceiptNamesPayee' /\ SuccessHasReceipt'
    BY <1>1, <1>9 DEF IInv, AnswerTellsMove, ReceiptNamesPayee, SuccessHasReceipt
  <2>10. TypeOK'
    <3>1. req' \in [Requests -> Request]
      BY <2>3 DEF IInv, TypeOK
    <3> QED
      BY <1>1, <1>2, <1>9, <3>1 DEF IInv, TypeOK
  <2> QED
    BY <2>6, <2>7, <2>8, <2>9, <2>10 DEF IInv
<1> QED
  BY <1>8, <1>9 DEF SendOrder

\* Cards come and go: a request still to be checked remembers that its sender was
\* without one.
LEMMA CardsChangeStep ==
    ASSUME IInv, NEW u \in Senders, CardsChange(u)
    PROVE  IInv'
<1>1. UNCHANGED <<holder, moved, paid, receipts, attempts, answer>>
  BY DEF CardsChange, money
<1>2. PICK p \in Possession : physical' = [physical EXCEPT ![u] = p]
  BY DEF CardsChange
<1>3. /\ physical' \in [Senders -> Possession] /\ physical'[u] = p
      /\ \A v \in Senders \ {u} : physical'[v] = physical[v]
  BY <1>2 DEF IInv, TypeOK
<1>4. \A q \in Requests :
        req'[q] = IF At(q, "cards") /\ Sender[Ord(q)] = u /\ physical'[u] = "none"
                  THEN [req[q] EXCEPT !.cardless = TRUE] ELSE req[q]
  BY DEF CardsChange
<1>5. \A q \in Requests :
        /\ req'[q] \in Request
        /\ req'[q].pc = req[q].pc /\ req'[q].try = req[q].try /\ req'[q].pin = req[q].pin
        /\ req'[q].payee = req[q].payee /\ (req[q].cardless => req'[q].cardless)
        /\ At(q, "cards") /\ Sender[Ord(q)] = u /\ physical'[u] = "none" => req'[q].cardless
  <2>1. ASSUME NEW q \in Requests
        PROVE  /\ req'[q] \in Request
               /\ req'[q].pc = req[q].pc /\ req'[q].try = req[q].try /\ req'[q].pin = req[q].pin
               /\ req'[q].payee = req[q].payee /\ (req[q].cardless => req'[q].cardless)
               /\ At(q, "cards") /\ Sender[Ord(q)] = u /\ physical'[u] = "none" => req'[q].cardless
    <3>1. req[q] \in Request
      BY DEF IInv, TypeOK
    <3>2. CASE At(q, "cards") /\ Sender[Ord(q)] = u /\ physical'[u] = "none"
      <4>1. req'[q] = [req[q] EXCEPT !.cardless = TRUE]
        BY <1>4, <3>2
      <4>2. [req[q] EXCEPT !.cardless = TRUE] \in Request
        BY <3>1 DEF Request
      <4> QED
        BY <3>1, <4>1, <4>2 DEF Request
    <3>3. CASE ~(At(q, "cards") /\ Sender[Ord(q)] = u /\ physical'[u] = "none")
      BY <1>4, <3>1, <3>3
    <3> QED
      BY <3>2, <3>3
  <2> QED
    BY <2>1
<1>6. ASSUME NEW q \in Requests PROVE RequestOK(req[q])'
  <2>1. RequestOK(req[q])
    BY DEF IInv
  <2>2. req'[q].pc = "cards" => req'[q].cardless \/ physical'[Sender[req'[q].try[1]]] # "none"
    <3> SUFFICES ASSUME At(q, "cards"), ~req[q].cardless, Sender[Ord(q)] # u
                 PROVE  physical'[Sender[req'[q].try[1]]] # "none"
      BY <1>5 DEF At, Ord, Try
    <3>1. ~At(q, "idle")
      BY DEF At
    <3>2. Sender[Ord(q)] \in Senders \ {u}
      BY <3>1, InFlight
    <3>3. physical[Sender[Ord(q)]] # "none"
      BY <2>1 DEF RequestOK, At, Ord, Try
    <3>4. physical'[Sender[Ord(q)]] # "none"
      BY <1>3, <3>2, <3>3
    <3>5. req'[q].try = req[q].try
      BY <1>5
    <3> QED
      BY <3>4, <3>5 DEF Ord, Try
  <2> QED
    BY <1>1, <1>5, <2>1, <2>2 DEF RequestOK
<1>7. req' \in [Requests -> Request]
  <2>1. req' = [q \in Requests |-> req'[q]]
    BY DEF CardsChange
  <2> QED
    BY <1>5, <2>1
<1>8. Apart'
  BY <1>5 DEF IInv, Apart, At, Try
<1>9. Fresh' /\ AnswerTellsMove' /\ ReceiptNamesPayee' /\ SuccessHasReceipt'
  BY <1>1 DEF IInv, Fresh, AnswerTellsMove, ReceiptNamesPayee, SuccessHasReceipt
<1>10. TypeOK'
  BY <1>1, <1>3, <1>7 DEF IInv, TypeOK
<1> QED
  BY <1>6, <1>8, <1>9, <1>10 DEF IInv

\* Aliases change hands: no request relies on who holds them.
LEMMA AddAliasStep ==
    ASSUME IInv, NEW u \in Users, NEW a \in Aliases, addAlias(u, a)
    PROVE  IInv'
<1>1. UNCHANGED <<physical, moved, paid, receipts, attempts, answer, req>>
  BY DEF addAlias, money
<1>2. holder' \in [Targets -> Users \cup {None}]
  BY DEF addAlias, IInv, TypeOK
<1>3. \A q \in Requests : RequestOK(req[q])'
  BY <1>1 DEF IInv, RequestOK
<1>4. Apart' /\ Fresh' /\ AnswerTellsMove' /\ ReceiptNamesPayee' /\ SuccessHasReceipt'
  BY <1>1 DEF IInv, Apart, Fresh, At, Try, AnswerTellsMove, ReceiptNamesPayee, SuccessHasReceipt
<1> QED
  BY <1>1, <1>2, <1>3, <1>4 DEF IInv, TypeOK

LEMMA InitIInv == Init => IInv
<1> SUFFICES ASSUME Init PROVE IInv
  OBVIOUS
<1>1. TypeOK
  BY IdleOK, ConstantsAssumption DEF Init, TypeOK
<1>2. \A r \in Requests : req[r].pc = "idle"
  BY IdleOK DEF Init
<1>3. \A r \in Requests : RequestOK(req[r])
  BY <1>2 DEF RequestOK, PaidLabels
<1>4. Apart /\ Fresh
  BY <1>2 DEF Init, Apart, Fresh, At
<1>5. AnswerTellsMove /\ ReceiptNamesPayee /\ SuccessHasReceipt
  BY DEF Init, AnswerTellsMove, ReceiptNamesPayee, SuccessHasReceipt
<1> QED
  BY <1>1, <1>3, <1>4, <1>5 DEF IInv

LEMMA NextIInv == IInv /\ [Next]_vars => IInv'
<1> SUFFICES ASSUME IInv, [Next]_vars PROVE IInv'
  OBVIOUS
<1>1. ASSUME NEW r \in Requests, NEW o \in Orders, NEW pin \in Pins, NEW type \in Types,
             SendOrder(r, o, pin, type)
      PROVE  IInv'
  BY <1>1, SendOrderStep
<1>2. ASSUME NEW r \in Requests, Handler(r) PROVE IInv'
  BY <1>2, ValidateTransferCardPinStep, ViewPinStep, FindRecipientStep, FindProfileStep,
     BackofficeTransferStep, CallFailsStep, NamesStep, PersistReceiptStep, SendToUserStep,
     DbFailsStep DEF Handler
<1>3. ASSUME NEW u \in Senders, CardsChange(u) PROVE IInv'
  BY <1>3, CardsChangeStep
<1>4. ASSUME NEW u \in Users, NEW a \in Aliases, addAlias(u, a) PROVE IInv'
  BY <1>4, AddAliasStep
<1>5. CASE UNCHANGED vars
  BY <1>5 DEF vars, IInv, TypeOK, RequestOK, Apart, Fresh, At, Try,
     AnswerTellsMove, ReceiptNamesPayee, SuccessHasReceipt
<1> QED
  BY <1>1, <1>2, <1>3, <1>4, <1>5 DEF Next

\* For any number of overlapping requests for an order, and whatever fails: a request
\* that was refused moved no money, one that succeeded moved it once, none moves it twice.
THEOREM AnswerTellsMoveThm == Spec => []AnswerTellsMove
<1>1. IInv => AnswerTellsMove
  BY DEF IInv
<1> QED
  BY <1>1, InitIInv, NextIInv, PTL DEF Spec

\* A receipt names the user who was paid, who is not the sender, whatever aliases change
\* hands meanwhile.
THEOREM ReceiptNamesPayeeThm == Spec => []ReceiptNamesPayee
<1>1. IInv => ReceiptNamesPayee
  BY DEF IInv
<1> QED
  BY <1>1, InitIInv, NextIInv, PTL DEF Spec

\* A request answered with success has its own receipt, whatever failed on the way to it.
THEOREM SuccessHasReceiptThm == Spec => []SuccessHasReceipt
<1>1. IInv => SuccessHasReceipt
  BY DEF IInv
<1> QED
  BY <1>1, InitIInv, NextIInv, PTL DEF Spec

\* Only the call to the backoffice moves money, and the request it is made for has
\* passed the PIN or its sender was without a card.
LEMMA MovesWithPin ==
    ASSUME IInv, Next, NEW t \in Tries, moved'[t] # moved[t]
    PROVE  \E r \in Requests : /\ Try(r) = t /\ At(r, "call")
                               /\ req[r].pin = "right" \/ req[r].cardless
<1>1. ASSUME NEW r \in Requests, backofficeTransfer(r) \/ (CallFails(r) /\ Move(r))
      PROVE  /\ Try(r) = t /\ At(r, "call")
             /\ req[r].pin = "right" \/ req[r].cardless
  <2>1. At(r, "call") /\ moved' = [moved EXCEPT ![Try(r)] = @ + 1]
    BY <1>1 DEF backofficeTransfer, CallFails, Move
  <2>2. Try(r) = t
    BY <2>1 DEF IInv, TypeOK
  <2>3. req[r].pin = "right" \/ req[r].cardless
    BY <2>1 DEF IInv, RequestOK, At
  <2> QED
    BY <2>1, <2>2, <2>3
<1>2. ASSUME NEW r \in Requests, Handler(r)
      PROVE  backofficeTransfer(r) \/ (CallFails(r) /\ Move(r))
  BY <1>2 DEF Handler, validateTransferCardPin, viewPinForCustomer, findRecipient,
     findProfileByUserId, CallFails, resolveUserDisplayName, persistReceipt, StoreReceipt,
     sendToUser, DbFails, money
<1>3. ~(\E u \in Senders : CardsChange(u)) /\ ~(\E u \in Users, a \in Aliases : addAlias(u, a))
  BY DEF CardsChange, addAlias, money
<1>4. ~\E r \in Requests, p \in Orders, pin \in Pins, type \in Types : SendOrder(r, p, pin, type)
  BY DEF SendOrder, money
<1> QED
  BY <1>1, <1>2, <1>3, <1>4 DEF Next

\* However cards are assigned, linked and unlinked meanwhile, money moves only with the
\* right PIN unless the sender was without a physical card between arrival and check.
THEOREM PinGuardsMoneyThm == Spec => PinGuardsMoney
<1>1. IInv /\ [Next]_vars
        => [\A t \in Tries : moved'[t] # moved[t] =>
              \E r \in Requests : /\ Try(r) = t /\ At(r, "call")
                                  /\ req[r].pin = "right" \/ req[r].cardless]_vars
  BY MovesWithPin
<1> QED
  BY <1>1, InitIInv, NextIInv, PTL DEF Spec, PinGuardsMoney
=============================================================================
