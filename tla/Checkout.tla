------------------------------ MODULE Checkout ------------------------------
(***************************************************************************)
(* The checkout page in the app's web view together with the API and Clip:  *)
(* the submit button, tokenisation, the call to process the payment, the    *)
(* 3DS iframe and its messages, the verification, and the report to the     *)
(* app.  The API answers in one step here; its own interleavings are those  *)
(* of ClipPayments.                                                         *)
(***************************************************************************)
EXTENDS Naturals

CONSTANTS
    Submissions,    \* submissions of the form of one page
    Outcomes,       \* what Clip makes of a charge
    LateEvents,     \* whether the card form is touched while it is processed
    ReadyTries,     \* 40 turns waiting for Flutter
    FallbackTries,  \* 10 turns calling it anyway
    Faults          \* "sdk", "net", "app"

ASSUME ConstantsAssumption ==
    /\ Outcomes \subseteq {"approved", "authorized", "rejected", "in_process", "pending",
                         "challenge"}   \* pending with a pending_action, 3DS
    /\ LateEvents \in BOOLEAN
    /\ ReadyTries \in Nat /\ FallbackTries \in Nat
    /\ Faults \subseteq {"sdk", "net", "app"}

VARIABLES
    clip,       \* Clip: status of the charge
    status,     \* the payment's row
    inApp,      \* the page runs inside the app's web view
    ready,      \* isFlutterReady
    gotEvent,   \* gotAnyCardEvent
    button,     \* the submit button is enabled
    form,       \* the form is still on the page
    sub         \* what each submission is doing

vars == <<clip, status, inApp, ready, gotEvent, button, form, sub>>
server == <<clip, status>>
page == <<inApp, ready, gotEvent, button, form>>

-----------------------------------------------------------------------------
ClipStatuses == {"none", "pending", "in_process", "authorized", "approved", "rejected"}
Paid == {"authorized", "approved"}
Undecided == {"pending", "in_process"}
Submission == [pc : {"idle", "token", "prevention", "process", "answered", "challenge",
                     "verify", "notify", "told", "untold"},
               reply : {"none", "error", "3ds", "PENDING", "PROCESSING", "COMPLETED", "FAILED"},
               seen : ClipStatuses,  \* Clip's status behind the last answer of the API
               verifying : 0 .. 2,   \* calls to verify under way
               verdict : {"none", "done", "failed"},
               verdicts : Nat,       \* results shown
               tries : 0 .. ReadyTries + FallbackTries]
IdleSubmission == [pc |-> "idle", reply |-> "none", seen |-> "none", verifying |-> 0,
                   verdict |-> "none", verdicts |-> 0, tries |-> 0]

TypeOK ==
    /\ clip \in ClipStatuses
    /\ status \in {"PENDING", "PROCESSING", "COMPLETED", "FAILED"}
    /\ inApp \in BOOLEAN /\ ready \in BOOLEAN /\ gotEvent \in BOOLEAN
    /\ button \in BOOLEAN /\ form \in BOOLEAN
    /\ sub \in [Submissions -> Submission]

Init ==
    /\ clip = "none" /\ status = "PENDING"
    /\ inApp \in BOOLEAN /\ ready = FALSE /\ gotEvent = FALSE
    /\ button = FALSE /\ form = TRUE
    /\ sub = [s \in Submissions |-> IdleSubmission]

At(s, label) == sub[s].pc = label
Goto(s, label) == sub' = [sub EXCEPT ![s].pc = label]
UnderWay(s) == sub[s].pc \notin {"idle", "told", "untold"} /\ sub[s].verdict = "none"

-----------------------------------------------------------------------------
(* The API and Clip *)

\* mapClipStatusToInternal, and COMPLETED held back until the webhook.
mapClipStatusBeforeWebhook(c) ==
    CASE c \in {"approved", "authorized", "pending", "in_process"} -> "PROCESSING"
      [] c = "rejected" -> "FAILED"
      [] OTHER -> "PENDING"

\* What Clip makes of a charge, and what the API stores of it.
Charge(o) ==
    /\ status = "PENDING"
    /\ clip' = IF o = "challenge" THEN "pending" ELSE o
    /\ status' = mapClipStatusBeforeWebhook(clip')

\* POST /payments/process: a payment that is not PENDING is refused.
processPayment(s) ==
    /\ At(s, "process")
    /\ IF status # "PENDING"
       THEN /\ sub' = [sub EXCEPT ![s].pc = "answered", ![s].reply = "error"]
            /\ UNCHANGED server
       ELSE \E o \in Outcomes :
            /\ Charge(o)
            /\ sub' = [sub EXCEPT ![s].pc = "answered", ![s].seen = clip',
                                  ![s].reply = IF o = "challenge" THEN "3ds" ELSE status']
    /\ UNCHANGED page

\* The call fails, or its answer is lost, be it one that asks for 3DS.
ProcessLost(s) ==
    /\ "net" \in Faults /\ At(s, "process")
    /\ sub' = [sub EXCEPT ![s].pc = "answered", ![s].reply = "error"]
    /\ \/ UNCHANGED server
       \/ \E o \in Outcomes : Charge(o)
    /\ UNCHANGED page

\* The bank decides on a pending charge.
Decide ==
    /\ clip \in Undecided
    /\ clip' \in Paid \cup {"rejected"}
    /\ UNCHANGED <<status, page, sub>>

\* The webhook completes an approved payment.
Webhook ==
    /\ clip = "approved" /\ status = "PROCESSING"
    /\ status' = "COMPLETED"
    /\ UNCHANGED <<clip, page, sub>>

-----------------------------------------------------------------------------
(* The form *)

FlutterReady ==
    /\ inApp /\ ~ready
    /\ ready' = TRUE
    /\ UNCHANGED <<server, inApp, gotEvent, button, form, sub>>

\* A change of the card form, in error or well started.
updateButtonFromCardEvent ==
    /\ form
    /\ LateEvents \/ \A s \in Submissions : ~UnderWay(s)
    /\ gotEvent' = TRUE
    /\ button' \in BOOLEAN
    /\ UNCHANGED <<server, inApp, ready, form, sub>>

\* The timer of 1.2 s that enables the button when no event came.
EnableFallback ==
    /\ form /\ ~gotEvent
    /\ \A s \in Submissions : At(s, "idle")
    /\ button' = TRUE
    /\ UNCHANGED <<server, inApp, ready, gotEvent, form, sub>>

submit(s) ==
    /\ At(s, "idle") /\ form /\ button
    /\ button' = FALSE
    /\ Goto(s, "token")
    /\ UNCHANGED <<server, inApp, ready, gotEvent, form>>

\* A result replaces the form and is then reported to the app; it rests on an answer given
\* when Clip's status was seen.
renderResultUI(s, verdict, seen) ==
    /\ sub' = [sub EXCEPT ![s].pc = "notify", ![s].verdict = verdict, ![s].seen = seen,
                          ![s].verdicts = @ + 1, ![s].tries = 0,
                          ![s].verifying = IF @ > 0 THEN @ - 1 ELSE 0]
    /\ form' = FALSE

\* mutant: a card that cannot be tokenised ends the submission without a word
TokeniseSilent(s) ==
    /\ At(s, "token")
    /\ \/ Goto(s, "prevention")
       \/ "sdk" \in Faults /\ Goto(s, "idle")
    /\ UNCHANGED <<server, page>>

\* card.cardToken(): without a token the submission fails.
cardToken(s) ==
    /\ At(s, "token")
    /\ \/ Goto(s, "prevention") /\ UNCHANGED form
       \/ "sdk" \in Faults /\ renderResultUI(s, "failed", sub[s].seen)
    /\ UNCHANGED <<server, inApp, ready, gotEvent, button>>

\* card.preventionData(): optional.
preventionData(s) ==
    /\ At(s, "prevention")
    /\ Goto(s, "process")
    /\ UNCHANGED <<server, page>>

\* mutant: the answer is shown in the words of the API
AnswerRaw(s) ==
    /\ At(s, "answered")
    /\ renderResultUI(s, sub[s].reply, sub[s].seen)
    /\ UNCHANGED <<server, inApp, ready, gotEvent, button>>

\* The page reads the answer to process: PROCESSING is shown as authorised, also for a
\* charge Clip has not decided.
Answer(s) ==
    /\ At(s, "answered")
    /\ IF sub[s].reply = "3ds"
       THEN Goto(s, "challenge") /\ UNCHANGED form
       ELSE renderResultUI(s, IF sub[s].reply \in {"COMPLETED", "PROCESSING"}
                              THEN "done" ELSE "failed", sub[s].seen)
    /\ UNCHANGED <<server, inApp, ready, gotEvent, button>>

-----------------------------------------------------------------------------
(* 3DS *)

\* mutant: the listener is closed only when the verification is over
MessageTwice ==
    /\ \E s \in Submissions :
        /\ sub[s].pc \in {"challenge", "verify", "notify"} /\ sub[s].reply = "3ds"
        /\ sub[s].verifying < 2 /\ sub[s].verdicts < 2
    /\ sub' = [s \in Submissions |->
                IF sub[s].pc \in {"challenge", "verify", "notify"} /\ sub[s].reply = "3ds"
                    /\ sub[s].verifying < 2
                THEN [sub[s] EXCEPT !.pc = "verify", !.verifying = @ + 1]
                ELSE sub[s]]
    /\ UNCHANGED <<server, page>>

\* A message of the iframe's origin with a paymentId, at any time: every listener that is
\* not resolved resolves and verifies.  Messages of another origin or without paymentId
\* are ignored, nobody limits the wait, and the message may never come.
show3DSIframe ==
    /\ \E s \in Submissions : At(s, "challenge")
    /\ sub' = [s \in Submissions |->
                IF At(s, "challenge") THEN [sub[s] EXCEPT !.pc = "verify", !.verifying = 1]
                ELSE sub[s]]
    /\ UNCHANGED <<server, page>>

\* mutant: any answer of the API counts as success
VerifyHttpOk(s) ==
    /\ sub[s].verifying > 0
    /\ status' = mapClipStatusBeforeWebhook(clip)
    /\ \/ renderResultUI(s, "done", clip)
       \/ "net" \in Faults /\ renderResultUI(s, "failed", sub[s].seen)
    /\ UNCHANGED <<clip, inApp, ready, gotEvent, button>>

\* GET /payments/verify stores and answers the status of the charge; only COMPLETED
\* counts as success.  A failed call is shown as a failure.
verifyPaymentStatus(s) ==
    /\ sub[s].verifying > 0
    /\ \/ /\ status' = mapClipStatusBeforeWebhook(clip)
          /\ renderResultUI(s, IF status' = "COMPLETED" THEN "done" ELSE "failed", clip)
       \/ /\ "net" \in Faults
          /\ status' \in {status, mapClipStatusBeforeWebhook(clip)}
          /\ renderResultUI(s, "failed", sub[s].seen)
    /\ UNCHANGED <<clip, inApp, ready, gotEvent, button>>

-----------------------------------------------------------------------------
(* notifyApp *)

\* mutant: only the loop that waits for Flutter
NotifyReadyOnly(s) ==
    /\ At(s, "notify")
    /\ IF ~inApp \/ sub[s].tries >= ReadyTries
       THEN Goto(s, "untold")
       ELSE IF ready THEN Goto(s, "told") ELSE sub' = [sub EXCEPT ![s].tries = @ + 1]
    /\ UNCHANGED <<server, page>>

\* One turn of the two loops; outside the app there is nobody to tell.
notifyApp(s) ==
    /\ At(s, "notify")
    /\ IF ~inApp \/ sub[s].tries = ReadyTries + FallbackTries
       THEN Goto(s, "untold")
       ELSE \/ (ready \/ sub[s].tries >= ReadyTries) /\ Goto(s, "told")
            \/ /\ (~ready /\ sub[s].tries < ReadyTries) \/ "app" \in Faults
               /\ sub' = [sub EXCEPT ![s].tries = @ + 1]
    /\ UNCHANGED <<server, page>>

Step(s) ==
    \/ cardToken(s) \/ preventionData(s) \/ processPayment(s) \/ ProcessLost(s) \/ Answer(s)
    \/ verifyPaymentStatus(s) \/ notifyApp(s)

Next ==
    \/ Decide \/ Webhook \/ FlutterReady \/ updateButtonFromCardEvent \/ EnableFallback
    \/ show3DSIframe
    \/ \E s \in Submissions : submit(s) \/ Step(s)

Spec == Init /\ [][Next]_vars

\* The page's scripts go on and its calls are answered or fail.  Nothing is assumed of the
\* bank or of the page in the iframe.
FairSpec == Spec /\ \A s \in Submissions : WF_vars(Step(s))

-----------------------------------------------------------------------------
(* Properties *)

\* However many messages the iframe posts and calls overlap, a submission shows one result.
OneVerdict == \A s \in Submissions : sub[s].verdicts <= 1

\* "Tu pago fue autorizado" (checkout.js:517): a charge the page reports as a success is
\* paid, unless Clip had not decided on it when the API answered.  None that Clip had
\* refused is, at once or after 3DS, whatever calls fail or overlap.
DoneMeansPaidOrOpen ==
    \A s \in Submissions :
        sub[s].verdict = "done" => clip \in Paid \/ sub[s].seen \in Undecided

\* Every submission comes to a result, whatever call fails and also once the message of
\* the iframe is there; only the wait for that message may last.
SubmissionEnds ==
    \A s \in Submissions : UnderWay(s) ~> (sub[s].verdict # "none" \/ At(s, "challenge"))

\* Inside the app every result reaches the app, also when the event that announces
\* Flutter is never seen.
AppIsTold ==
    \A s \in Submissions : (inApp /\ At(s, "notify")) ~> At(s, "told")

\* "Autenticación 3DS fallida" (checkout.js:640): a charge is not reported as failed on an
\* answer the API gave when it had seen the charge authorised or approved.
FailedMeansNotPaid ==
    \A s \in Submissions : sub[s].verdict = "failed" => sub[s].seen \notin Paid
=============================================================================
