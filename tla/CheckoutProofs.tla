---------------------------- MODULE CheckoutProofs ---------------------------
(***************************************************************************)
(* Proofs about Checkout, for any number of submissions, any outcomes at    *)
(* Clip and any failing calls.                                              *)
(***************************************************************************)
EXTENDS Checkout, TLAPS

\* The page waits for 3DS.
Waiting(x) == x.pc \in {"challenge", "verify"} \/ (x.pc = "answered" /\ x.reply = "3ds")

\* The charge is paid, or was undecided in the answer the submission has.
Sound(x) == clip \in Paid \/ x.seen \in Undecided

\* What a submission has established: no result is shown before its report to the app, a
\* verification is under way only in the step that waits for it, and a success it was told
\* or shows is that of a charge that is paid or was undecided when the API answered.
SubmissionOK(x) ==
    /\ x.verdicts <= 1
    /\ x.pc \notin {"notify", "told", "untold"} => x.verdict = "none" /\ x.verdicts = 0
    /\ x.verifying \in {0, 1} /\ (x.verifying = 1 => x.pc = "verify")
    /\ Waiting(x) => clip # "none"
    /\ x.pc = "answered" /\ x.reply \in {"COMPLETED", "PROCESSING"} => Sound(x)
    /\ x.verdict = "done" => Sound(x)

\* A payment is PENDING exactly while it has no charge.
IInv ==
    /\ TypeOK
    /\ clip = "none" <=> status = "PENDING"
    /\ \A s \in Submissions : SubmissionOK(sub[s])

-----------------------------------------------------------------------------
LEMMA MappedStatus ==
    ASSUME NEW c \in ClipStatuses
    PROVE  /\ mapClipStatusBeforeWebhook(c) \in {"PENDING", "PROCESSING", "FAILED"}
           /\ mapClipStatusBeforeWebhook(c) = "PENDING" <=> c = "none"
           /\ mapClipStatusBeforeWebhook(c) = "FAILED" <=> c = "rejected"
  BY DEF mapClipStatusBeforeWebhook, ClipStatuses

\* A charge is not taken back, and a paid one stays paid.
ChargeKept == /\ clip' \in ClipStatuses
              /\ clip # "none" => clip' # "none"
              /\ clip \in Paid => clip' \in Paid

LEMMA OthersKnow ==
    ASSUME NEW x, SubmissionOK(x), ChargeKept
    PROVE  SubmissionOK(x)'
  BY DEF SubmissionOK, ChargeKept, Waiting, Sound

\* Submission s moves to the record x.
LEMMA SubmissionMoves ==
    ASSUME IInv, NEW s \in Submissions, NEW x \in Submission,
           sub' = [sub EXCEPT ![s] = x], ChargeKept, SubmissionOK(x)'
    PROVE  /\ sub' \in [Submissions -> Submission]
           /\ \A t \in Submissions : SubmissionOK(sub[t])'
<1>1. sub' \in [Submissions -> Submission] /\ sub'[s] = x
  BY DEF IInv, TypeOK
<1>2. ASSUME NEW t \in Submissions \ {s} PROVE SubmissionOK(sub[t])'
  <2>1. sub'[t] = sub[t] /\ SubmissionOK(sub[t])
    BY DEF IInv, TypeOK
  <2>2. PICK y : y = sub[t]
    OBVIOUS
  <2>3. SubmissionOK(y)'
    BY <2>1, <2>2, OthersKnow
  <2> QED
    BY <2>1, <2>2, <2>3 DEF SubmissionOK, Waiting, Sound
<1>3. SubmissionOK(sub[s])'
  BY <1>1 DEF SubmissionOK, Waiting, Sound
<1> QED
  BY <1>1, <1>2, <1>3

\* A submission that has shown no result goes on to one.
LEMMA ShowsResult ==
    ASSUME IInv, NEW s \in Submissions, NEW v \in {"done", "failed"},
           NEW c \in ClipStatuses, renderResultUI(s, v, c),
           sub[s].pc \notin {"notify", "told", "untold"}, ChargeKept,
           v = "done" => clip' \in Paid \/ c \in Undecided
    PROVE  /\ sub' \in [Submissions -> Submission] /\ form' = FALSE
           /\ \A t \in Submissions : SubmissionOK(sub[t])'
<1>1. sub[s] \in Submission /\ SubmissionOK(sub[s])
  BY DEF IInv, TypeOK
<1>2. PICK x \in Submission :
        /\ x = [sub[s] EXCEPT !.pc = "notify", !.verdict = v, !.seen = c, !.verdicts = @ + 1,
                              !.tries = 0, !.verifying = IF @ > 0 THEN @ - 1 ELSE 0]
        /\ x.pc = "notify" /\ x.verdict = v /\ x.seen = c /\ x.verdicts = 1 /\ x.verifying = 0
  <2>1. sub[s].verifying \in {0, 1} /\ sub[s].verdicts = 0
    BY <1>1 DEF Submission, SubmissionOK
  <2> DEFINE y == [sub[s] EXCEPT !.pc = "notify", !.verdict = v, !.seen = c, !.verdicts = @ + 1,
                                 !.tries = 0, !.verifying = IF @ > 0 THEN @ - 1 ELSE 0]
  <2>2. /\ sub[s].verdicts + 1 = 1 /\ 1 \in Nat
        /\ 0 \in 0 .. 2 /\ 0 \in 0 .. ReadyTries + FallbackTries
        /\ (IF sub[s].verifying > 0 THEN sub[s].verifying - 1 ELSE 0) = 0
    BY <2>1, ConstantsAssumption
  <2>3. y = [sub[s] EXCEPT !.pc = "notify", !.verdict = v, !.seen = c, !.verdicts = 1,
                           !.tries = 0, !.verifying = 0]
    BY <2>2
  <2>4. y \in Submission
    BY <1>1, <2>2, <2>3, Zenon DEF Submission
  <2>5. y.pc = "notify" /\ y.verdict = v /\ y.seen = c /\ y.verdicts = 1 /\ y.verifying = 0
    BY <1>1, <2>3 DEF Submission
  <2> QED
    BY <2>4, <2>5
<1>3. sub' = [sub EXCEPT ![s] = x] /\ form' = FALSE
  BY <1>2 DEF renderResultUI, IInv, TypeOK
<1>4. SubmissionOK(x)'
  BY <1>2 DEF SubmissionOK, Waiting, Sound
<1> QED
  BY <1>3, <1>4, SubmissionMoves

\* A submission goes on without a result; Clip and the row are left alone.
LEMMA SubmissionGoesOn ==
    ASSUME IInv, NEW s \in Submissions,
           NEW l \in {"token", "prevention", "process", "told", "untold"},
           Goto(s, l), UNCHANGED server,
           sub[s].verifying = 0,
           l \in {"token", "prevention", "process"} =>
                sub[s].pc \notin {"notify", "told", "untold"}
    PROVE  /\ sub' \in [Submissions -> Submission]
           /\ \A t \in Submissions : SubmissionOK(sub[t])'
<1>1. sub[s] \in Submission /\ SubmissionOK(sub[s])
  BY DEF IInv, TypeOK
<1>2. PICK x \in Submission : x = [sub[s] EXCEPT !.pc = l]
  BY <1>1 DEF Submission
<1>3. x.pc = l /\ x.verdict = sub[s].verdict /\ x.verdicts = sub[s].verdicts
        /\ x.verifying = sub[s].verifying /\ x.reply = sub[s].reply /\ x.seen = sub[s].seen
  BY <1>1, <1>2 DEF Submission
<1>4. sub' = [sub EXCEPT ![s] = x]
  BY <1>2 DEF Goto, IInv, TypeOK
<1>5. ChargeKept
  BY DEF ChargeKept, server, IInv, TypeOK
<1>6. SubmissionOK(x)
  BY <1>1, <1>3 DEF SubmissionOK, Waiting, Sound
<1> QED
  BY <1>4, <1>5, <1>6, SubmissionMoves, OthersKnow

\* Steps of the page's own variables.
LEMMA PageStep ==
    ASSUME IInv, UNCHANGED <<server, sub>>, TypeOK'
    PROVE  IInv'
  BY DEF IInv, server, SubmissionOK, Waiting, Sound

-----------------------------------------------------------------------------
(* The API and Clip *)

LEMMA ProcessPaymentStep ==
    ASSUME IInv, NEW s \in Submissions, processPayment(s)
    PROVE  IInv'
<1>1. sub[s] \in Submission /\ SubmissionOK(sub[s]) /\ sub[s].pc = "process"
  BY DEF processPayment, At, IInv, TypeOK
<1>2. CASE status # "PENDING"
  <2>1. PICK x \in Submission : x = [sub[s] EXCEPT !.pc = "answered", !.reply = "error"]
    BY <1>1 DEF Submission
  <2>2. x.pc = "answered" /\ x.verdict = sub[s].verdict /\ x.verdicts = sub[s].verdicts
          /\ x.verifying = sub[s].verifying /\ x.reply = "error"
    BY <1>1, <2>1 DEF Submission
  <2>3. sub' = [sub EXCEPT ![s] = x] /\ UNCHANGED <<server, page>>
    BY <1>2, <2>1 DEF processPayment, IInv, TypeOK
  <2>4. ChargeKept
    BY <2>3 DEF ChargeKept, server, IInv, TypeOK
  <2>5. SubmissionOK(x)
    BY <1>1, <2>2 DEF SubmissionOK, Waiting, Sound
  <2>6. /\ sub' \in [Submissions -> Submission]
        /\ \A t \in Submissions : SubmissionOK(sub[t])'
    BY <2>3, <2>4, <2>5, SubmissionMoves, OthersKnow
  <2> QED
    BY <2>3, <2>6 DEF IInv, TypeOK, server, page
<1>3. CASE status = "PENDING"
  <2>1. PICK o \in Outcomes :
            /\ clip' = IF o = "challenge" THEN "pending" ELSE o
            /\ status' = mapClipStatusBeforeWebhook(clip')
            /\ sub' = [sub EXCEPT ![s].pc = "answered", ![s].seen = clip',
                                  ![s].reply = IF o = "challenge" THEN "3ds" ELSE status']
    BY <1>3 DEF processPayment, Charge
  <2>2. clip = "none" /\ clip' \in ClipStatuses \ {"none"}
    BY <1>3, <2>1, ConstantsAssumption DEF IInv, ClipStatuses
  <2>3. PICK c \in ClipStatuses \ {"none"} : c = clip'
    BY <2>2
  <2>4. PICK v \in {"PROCESSING", "FAILED"} : v = status' /\ (v = "FAILED" <=> c = "rejected")
    BY <2>1, <2>3, MappedStatus
  <2>5. PICK x \in Submission :
            x = [sub[s] EXCEPT !.pc = "answered", !.seen = c,
                               !.reply = IF o = "challenge" THEN "3ds" ELSE v]
    BY <1>1 DEF Submission
  <2>6. x.pc = "answered" /\ x.verdict = sub[s].verdict /\ x.verdicts = sub[s].verdicts
          /\ x.verifying = sub[s].verifying /\ x.seen = c
          /\ x.reply = IF o = "challenge" THEN "3ds" ELSE v
    BY <1>1, <2>5 DEF Submission
  <2>7. sub' = [sub EXCEPT ![s] = x] /\ UNCHANGED page
    BY <2>1, <2>3, <2>4, <2>5 DEF processPayment, IInv, TypeOK
  <2>8. ChargeKept
    BY <2>2 DEF ChargeKept, Paid
  <2>9. v = "PROCESSING" => c \in Paid \cup Undecided
    BY <2>3, <2>4 DEF ClipStatuses, Paid, Undecided
  <2>10. SubmissionOK(x)'
    BY <1>1, <2>2, <2>3, <2>4, <2>6, <2>9 DEF SubmissionOK, Waiting, Sound
  <2>11. /\ sub' \in [Submissions -> Submission]
         /\ \A t \in Submissions : SubmissionOK(sub[t])'
    BY <2>7, <2>8, <2>10, SubmissionMoves
  <2> QED
    BY <2>2, <2>4, <2>7, <2>11 DEF IInv, TypeOK, page
<1> QED
  BY <1>2, <1>3

LEMMA ProcessLostStep ==
    ASSUME IInv, NEW s \in Submissions, ProcessLost(s)
    PROVE  IInv'
<1>1. sub[s] \in Submission /\ SubmissionOK(sub[s]) /\ sub[s].pc = "process"
  BY DEF ProcessLost, At, IInv, TypeOK
<1>2. PICK x \in Submission : x = [sub[s] EXCEPT !.pc = "answered", !.reply = "error"]
  BY <1>1 DEF Submission
<1>3. x.pc = "answered" /\ x.verdict = sub[s].verdict /\ x.verdicts = sub[s].verdicts
        /\ x.verifying = sub[s].verifying /\ x.reply = "error"
  BY <1>1, <1>2 DEF Submission
<1>4. sub' = [sub EXCEPT ![s] = x] /\ UNCHANGED page
  BY <1>2 DEF ProcessLost, IInv, TypeOK
<1>5. /\ ChargeKept /\ (clip' = "none" <=> status' = "PENDING")
      /\ status' \in {"PENDING", "PROCESSING", "COMPLETED", "FAILED"}
  <2>1. CASE UNCHANGED server
    BY <2>1 DEF ChargeKept, server, IInv, TypeOK
  <2>2. ASSUME NEW o \in Outcomes, Charge(o)
        PROVE  /\ ChargeKept /\ (clip' = "none" <=> status' = "PENDING")
               /\ status' \in {"PENDING", "PROCESSING", "COMPLETED", "FAILED"}
    <3>1. clip = "none" /\ clip' \in ClipStatuses \ {"none"}
      BY <2>2, ConstantsAssumption DEF IInv, ClipStatuses, Charge
    <3>2. PICK c \in ClipStatuses \ {"none"} : c = clip'
      BY <3>1
    <3> QED
      BY <2>2, <3>1, <3>2, MappedStatus DEF ChargeKept, Paid, Charge
  <2> QED
    BY <2>1, <2>2 DEF ProcessLost
<1>6. SubmissionOK(x)
  BY <1>1, <1>3 DEF SubmissionOK, Waiting, Sound
<1>7. /\ sub' \in [Submissions -> Submission]
      /\ \A t \in Submissions : SubmissionOK(sub[t])'
  BY <1>4, <1>5, <1>6, SubmissionMoves, OthersKnow
<1> QED
  BY <1>4, <1>5, <1>7 DEF IInv, TypeOK, page, ChargeKept

LEMMA ClipStep ==
    ASSUME IInv, Decide \/ Webhook
    PROVE  IInv'
<1>1. UNCHANGED <<page, sub>> /\ ChargeKept /\ (clip' = "none" <=> status' = "PENDING")
        /\ status' \in {"PENDING", "PROCESSING", "COMPLETED", "FAILED"}
  BY DEF Decide, Webhook, ChargeKept, Paid, Undecided, ClipStatuses, IInv, TypeOK
<1>2. ASSUME NEW t \in Submissions PROVE SubmissionOK(sub[t])'
  <2>1. PICK y : y = sub[t] /\ SubmissionOK(y)
    BY DEF IInv
  <2>2. SubmissionOK(y)'
    BY <1>1, <2>1, OthersKnow
  <2> QED
    BY <1>1, <2>1, <2>2 DEF SubmissionOK, Waiting, Sound
<1> QED
  BY <1>1, <1>2 DEF IInv, TypeOK, page, ChargeKept

-----------------------------------------------------------------------------
(* The page *)

LEMMA FormStep ==
    ASSUME IInv, FlutterReady \/ updateButtonFromCardEvent \/ EnableFallback
    PROVE  IInv'
<1>1. TypeOK' /\ UNCHANGED <<server, sub>>
  BY DEF FlutterReady, updateButtonFromCardEvent, EnableFallback, IInv, TypeOK, server
<1> QED
  BY <1>1, PageStep

LEMMA SubmitStep ==
    ASSUME IInv, NEW s \in Submissions, submit(s)
    PROVE  IInv'
<1>1. sub[s].verifying = 0 /\ sub[s].pc = "idle"
  BY DEF submit, At, IInv, SubmissionOK
<1>2. /\ sub' \in [Submissions -> Submission]
      /\ \A t \in Submissions : SubmissionOK(sub[t])'
  BY <1>1, SubmissionGoesOn DEF submit
<1> QED
  BY <1>2 DEF submit, server, IInv, TypeOK

LEMMA CardTokenStep ==
    ASSUME IInv, NEW s \in Submissions, cardToken(s)
    PROVE  IInv'
<1>1. /\ sub[s].verifying = 0 /\ sub[s].pc = "token"
      /\ UNCHANGED <<server, inApp, ready, gotEvent, button>>
  BY DEF cardToken, At, IInv, SubmissionOK
<1>2. ChargeKept
  BY <1>1 DEF ChargeKept, server, IInv, TypeOK
<1>3. /\ sub' \in [Submissions -> Submission] /\ form' \in BOOLEAN
      /\ \A t \in Submissions : SubmissionOK(sub[t])'
  <2>1. CASE Goto(s, "prevention") /\ UNCHANGED form
    BY <1>1, <2>1, SubmissionGoesOn DEF IInv, TypeOK
  <2>2. CASE renderResultUI(s, "failed", sub[s].seen)
    <3>1. sub[s].seen \in ClipStatuses
      BY DEF IInv, TypeOK, Submission
    <3> QED
      BY <1>1, <1>2, <2>2, <3>1, ShowsResult
  <2> QED
    BY <2>1, <2>2 DEF cardToken
<1> QED
  BY <1>1, <1>3 DEF server, IInv, TypeOK

LEMMA PreventionDataStep ==
    ASSUME IInv, NEW s \in Submissions, preventionData(s)
    PROVE  IInv'
<1>1. sub[s].verifying = 0 /\ sub[s].pc = "prevention"
  BY DEF preventionData, At, IInv, SubmissionOK
<1>2. /\ sub' \in [Submissions -> Submission]
      /\ \A t \in Submissions : SubmissionOK(sub[t])'
  BY <1>1, SubmissionGoesOn DEF preventionData
<1> QED
  BY <1>2 DEF preventionData, server, page, IInv, TypeOK

LEMMA AnswerStep ==
    ASSUME IInv, NEW s \in Submissions, Answer(s)
    PROVE  IInv'
<1>1. /\ sub[s] \in Submission /\ SubmissionOK(sub[s]) /\ sub[s].pc = "answered"
      /\ UNCHANGED <<server, inApp, ready, gotEvent, button>>
  BY DEF Answer, At, IInv, TypeOK
<1>2. ChargeKept
  BY <1>1 DEF ChargeKept, server, IInv, TypeOK
<1>3. /\ sub' \in [Submissions -> Submission] /\ form' \in BOOLEAN
      /\ \A t \in Submissions : SubmissionOK(sub[t])'
  <2>1. CASE sub[s].reply = "3ds"
    <3>1. PICK x \in Submission : x = [sub[s] EXCEPT !.pc = "challenge"]
      BY <1>1 DEF Submission
    <3>2. x.pc = "challenge" /\ x.verdict = sub[s].verdict /\ x.verdicts = sub[s].verdicts
            /\ x.verifying = sub[s].verifying /\ x.reply = sub[s].reply /\ x.seen = sub[s].seen
      BY <1>1, <3>1 DEF Submission
    <3>3. sub' = [sub EXCEPT ![s] = x] /\ UNCHANGED form
      BY <2>1, <3>1 DEF Answer, Goto, IInv, TypeOK
    <3>4. SubmissionOK(x)
      BY <1>1, <2>1, <3>2 DEF SubmissionOK, Waiting, Sound
    <3> QED
      BY <1>2, <3>3, <3>4, SubmissionMoves, OthersKnow DEF IInv, TypeOK
  <2>2. CASE sub[s].reply # "3ds"
    <3>1. PICK v \in {"done", "failed"} :
            /\ renderResultUI(s, v, sub[s].seen)
            /\ v = "done" => sub[s].reply \in {"COMPLETED", "PROCESSING"}
      BY <2>2 DEF Answer
    <3>2. /\ sub[s].seen \in ClipStatuses
          /\ v = "done" => clip' \in Paid \/ sub[s].seen \in Undecided
      BY <1>1, <3>1 DEF SubmissionOK, Sound, Submission, server
    <3> QED
      BY <1>1, <1>2, <3>1, <3>2, ShowsResult
  <2> QED
    BY <2>1, <2>2
<1> QED
  BY <1>1, <1>3 DEF server, IInv, TypeOK

\* All listeners that wait resolve; each starts one verification.
LEMMA Show3DSIframeStep ==
    ASSUME IInv, show3DSIframe
    PROVE  IInv'
<1>1. UNCHANGED <<server, page>> /\ ChargeKept
  BY DEF show3DSIframe, ChargeKept, server, IInv, TypeOK
<1>2. ASSUME NEW t \in Submissions PROVE sub'[t] \in Submission /\ SubmissionOK(sub[t])'
  <2>1. sub[t] \in Submission /\ SubmissionOK(sub[t])
    BY DEF IInv, TypeOK
  <2>2. PICK x \in Submission :
            x = IF At(t, "challenge") THEN [sub[t] EXCEPT !.pc = "verify", !.verifying = 1]
                ELSE sub[t]
    <3>1. 1 \in 0 .. 2
      OBVIOUS
    <3>2. [sub[t] EXCEPT !.pc = "verify", !.verifying = 1] \in Submission
      BY <2>1, <3>1, Zenon DEF Submission
    <3> QED
      BY <2>1, <3>2
  <2>3. sub'[t] = x
    BY <2>2 DEF show3DSIframe
  <2>4. SubmissionOK(x)
    <3>1. CASE At(t, "challenge")
      <4>1. x.pc = "verify" /\ x.verdict = sub[t].verdict /\ x.verdicts = sub[t].verdicts
              /\ x.verifying = 1 /\ x.reply = sub[t].reply /\ x.seen = sub[t].seen
        BY <2>1, <2>2, <3>1 DEF Submission
      <4> QED
        BY <2>1, <3>1, <4>1 DEF At, SubmissionOK, Waiting, Sound
    <3> QED
      BY <2>1, <2>2, <3>1
  <2>5. SubmissionOK(x)'
    BY <1>1, <2>4, OthersKnow
  <2> QED
    BY <2>3, <2>5 DEF SubmissionOK, Waiting, Sound
<1>3. sub' \in [Submissions -> Submission]
  BY <1>2 DEF show3DSIframe
<1> QED
  BY <1>1, <1>2, <1>3 DEF server, page, IInv, TypeOK

\* The verification never answers COMPLETED before the webhook, so it shows no success.
LEMMA VerifyPaymentStatusStep ==
    ASSUME IInv, NEW s \in Submissions, verifyPaymentStatus(s)
    PROVE  IInv'
<1>1. /\ sub[s].pc = "verify" /\ clip # "none" /\ clip \in ClipStatuses
      /\ UNCHANGED <<clip, inApp, ready, gotEvent, button>>
  <2>1. SubmissionOK(sub[s]) /\ sub[s].verifying > 0
    BY DEF IInv, verifyPaymentStatus
  <2>2. sub[s].pc = "verify"
    BY <2>1 DEF SubmissionOK
  <2>3. Waiting(sub[s])
    BY <2>2 DEF Waiting
  <2>4. clip # "none"
    BY <2>1, <2>3, Zenon DEF SubmissionOK
  <2> QED
    BY <2>2, <2>4 DEF verifyPaymentStatus, IInv, TypeOK
<1>2. ChargeKept
  BY <1>1 DEF ChargeKept
<1>3. PICK m \in {"PROCESSING", "FAILED"} : m = mapClipStatusBeforeWebhook(clip)
  BY <1>1, MappedStatus
<1>4. /\ status' \in {"PROCESSING", "COMPLETED", "FAILED"}
      /\ renderResultUI(s, "failed", clip) \/ renderResultUI(s, "failed", sub[s].seen)
      /\ sub[s].seen \in ClipStatuses
  BY <1>1, <1>3 DEF verifyPaymentStatus, IInv, TypeOK, Submission
<1>5. /\ sub' \in [Submissions -> Submission] /\ form' = FALSE
      /\ \A t \in Submissions : SubmissionOK(sub[t])'
  BY <1>1, <1>2, <1>4, ShowsResult
<1> QED
  BY <1>1, <1>4, <1>5 DEF IInv, TypeOK

LEMMA NotifyAppStep ==
    ASSUME IInv, NEW s \in Submissions, notifyApp(s)
    PROVE  IInv'
<1>1. /\ sub[s] \in Submission /\ SubmissionOK(sub[s]) /\ sub[s].pc = "notify"
      /\ sub[s].verifying = 0 /\ UNCHANGED <<server, page>>
  BY DEF notifyApp, At, IInv, TypeOK, SubmissionOK
<1>2. ChargeKept
  BY <1>1 DEF ChargeKept, server, IInv, TypeOK
<1>3. /\ sub' \in [Submissions -> Submission]
      /\ \A t \in Submissions : SubmissionOK(sub[t])'
  <2>1. CASE Goto(s, "told") \/ Goto(s, "untold")
    BY <1>1, <2>1, SubmissionGoesOn
  <2>2. CASE /\ sub[s].tries # ReadyTries + FallbackTries
             /\ sub' = [sub EXCEPT ![s].tries = @ + 1]
    <3>1. sub[s].tries + 1 \in 0 .. ReadyTries + FallbackTries
      BY <1>1, <2>2, ConstantsAssumption DEF Submission
    <3>2. PICK x \in Submission : x = [sub[s] EXCEPT !.tries = @ + 1]
      BY <1>1, <3>1 DEF Submission
    <3>3. x.pc = sub[s].pc /\ x.verdict = sub[s].verdict /\ x.verdicts = sub[s].verdicts
            /\ x.verifying = sub[s].verifying /\ x.reply = sub[s].reply /\ x.seen = sub[s].seen
      BY <1>1, <3>2 DEF Submission
    <3>4. sub' = [sub EXCEPT ![s] = x]
      BY <2>2, <3>2 DEF IInv, TypeOK
    <3>5. SubmissionOK(x)
      BY <1>1, <3>3 DEF SubmissionOK, Waiting, Sound
    <3> QED
      BY <1>2, <3>4, <3>5, SubmissionMoves, OthersKnow
  <2> QED
    BY <2>1, <2>2 DEF notifyApp
<1> QED
  BY <1>1, <1>3 DEF server, page, IInv, TypeOK

-----------------------------------------------------------------------------
(* The theorems *)

LEMMA InitIInv == Init => IInv
<1>1. IdleSubmission \in Submission
  BY ConstantsAssumption DEF IdleSubmission, Submission, ClipStatuses
<1>2. SubmissionOK(IdleSubmission)
  BY DEF IdleSubmission, SubmissionOK, Waiting, Sound
<1> SUFFICES ASSUME Init PROVE IInv
  OBVIOUS
<1>3. sub \in [Submissions -> Submission] /\ \A s \in Submissions : SubmissionOK(sub[s])
  BY <1>1, <1>2 DEF Init
<1> QED
  BY <1>3 DEF Init, IInv, TypeOK, ClipStatuses

LEMMA NextIInv == IInv /\ [Next]_vars => IInv'
<1> SUFFICES ASSUME IInv, [Next]_vars PROVE IInv'
  OBVIOUS
<1>1. ASSUME NEW s \in Submissions, submit(s) \/ Step(s) PROVE IInv'
  BY <1>1, SubmitStep, CardTokenStep, PreventionDataStep, ProcessPaymentStep, ProcessLostStep,
     AnswerStep, VerifyPaymentStatusStep, NotifyAppStep DEF Step
<1>2. CASE UNCHANGED vars
  BY <1>2 DEF vars, IInv, TypeOK, SubmissionOK, Waiting, Sound
<1> QED
  BY <1>1, <1>2, ClipStep, FormStep, Show3DSIframeStep DEF Next

\* The type invariant, among it that the two loops of notifyApp end within their turns.
THEOREM TypeCorrect == Spec => []TypeOK
<1>1. IInv => TypeOK
  BY DEF IInv
<1> QED
  BY <1>1, InitIInv, NextIInv, PTL DEF Spec

\* However many submissions, messages of the 3DS iframe and calls overlap, each submission
\* shows at most one result.
THEOREM OneVerdictThm == Spec => []OneVerdict
<1>1. IInv => OneVerdict
  BY DEF IInv, OneVerdict, SubmissionOK
<1> QED
  BY <1>1, InitIInv, NextIInv, PTL DEF Spec

\* For any outcomes at Clip, any number of submissions and any failing calls, a charge the
\* page reports as a success is paid, or Clip had not decided on it when the API answered.
THEOREM DoneMeansPaidOrOpenThm == Spec => []DoneMeansPaidOrOpen
<1>1. IInv => DoneMeansPaidOrOpen
  BY DEF IInv, DoneMeansPaidOrOpen, SubmissionOK, Sound
<1> QED
  BY <1>1, InitIInv, NextIInv, PTL DEF Spec
=============================================================================
