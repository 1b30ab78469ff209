# TLA+ specifications of the banking mobile backend

The backend is one Node process (Express, Prisma, MySQL) between a mobile app, a
payment page and several outside services. Nearly every operation is a sequence of
awaited calls: read a row, call a service, write the row. Between two awaits any other
request may run, and every awaited call may fail. The specifications model the operations
at that grain, one action per awaited call that matters.

## Inventory

| Part | Source | State | Module |
|---|---|---|---|
| Clip card payments | `payment.service.ts`, `payment.repository.ts` | `payments`, MySQL named lock | `ClipPayments` |
| SIP/BMSC QR payments | `bmsc.payment.service.ts`, `bmsc.payment.repository.ts` | `payments`, `Transactions` | `SipPayments` |
| Wallet topup | `topup.backoffice.service.ts`, `topup.utils.ts`, `backoffice.instance.ts` | backoffice ledger (external) | both, abstractly `WalletCrediting` |
| SIP token cache | `sip.auth.service.ts`, `sip.bmsc.service.ts` | module variable `cache` | `SipToken`, `TokenCache` |
| Cards, batches, batch notification, card scripts | `card.service.ts`, `webhooks.service.ts`, `scripts/*.ts` | `Cards`, `BulkBatch`, issuer | `Cards` |
| Registration, login, migration script | `auth.service.ts`, `scripts/migrate-users-to-backoffice.ts` | profile and auth state tables, tokens | `Onboarding` |
| Biometric login | `auth.biometric.service.ts` | credentials, challenges | `Biometric` |
| Transfers and receipts | `transfer.service.ts` | receipts, aliases, backoffice | `Transfers` |
| Crypto wallet | `userWallet.service.ts` | wallets, Crossmint | `UserWallet` (proved, no run) |
| Checkout page | `public/js/checkout.js` | page state | `Checkout` |
| Fees, BOB/MXN rate | `payment.utils.ts`, `exchangeRate.utils.ts` | none: a computation | `PaymentFees` (proved, no run) |
| Push notifications, news, transaction charts, sessions and HTTP layer, ramp orders, investments, campaigns, inspiration, files, e-mail | | | not modelled, see below |

`PROJECT.json` has the same list with sources, the map from definitions to source lines,
and the hazards the properties are aimed at.

## Modules

**`WalletCrediting`** is the promise of both payment components: a payment is credited
only after its provider was paid, and at most once.

**`ClipPayments`**. `payments` is the table, reduced to status, provider payment id and
the status of the key `topup` in `response_payload`. `charges`, `undelivered`, `ledger`,
`credits` and `lock` are external: the provider's charges, the approvals it still has to
deliver (no 2xx yet), the transaction ids the backoffice knows, the credits it made and
the MySQL named locks. `req[r]` is a request in flight: where it stands and its local
variables, which go stale as the code's do.

- `processPayment`, `ProcessReset`, `ProcessPost`, `ProcessStore`: status check, reset,
  call of the provider, result. A new charge is made by every call.
- `verifyPaymentStatus`, `VerifyGet`, `VerifySave`: the client asks for the status. The
  write replaces `response_payload`, so the topup marker is lost.
- `handleClipWebhook` to `releasePaymentLock`: find the row, lock, read again, ask the
  provider, merge the status, top up, record the outcome, notify, release. A named lock
  belongs to a connection; each call picks any connection of the pool.
- `RequestThrow`, `WebhookThrow`, `AfterTopUpThrow`, `TopUpFails`, `Crash`: the error
  paths. An error after a successful topup is recorded as a failed one, as in the code.

**`SipPayments`**. `createSipQr`, `createSipPayment`, `generateQr`, `saveSipQrResponse`
make a QR. `handleSipCallback` to `Acknowledge` serve the bank's callback, without a lock:
validation, merge of the payload, TOPUP transaction, topup, record, notification.
`CustomerPays` lets a customer pay, rightly or with a wrong amount, a QR that was stored. A
callback is checked only against the amount and currency it carries: one that leaves them out is accepted
whatever was paid (history `unchecked`).

**`SipToken`**. One token cached in the process, with a lifetime that starts when the answer
arrives while SIP's own starts when it is issued. `Validity`, `Ttl` and `Timeout` keep the
order of the configured times. Requests read the cache, call, drop the token when refused,
fetch another and repeat once; SIP may revoke tokens and the process may restart. `TokenCache` gives it
names that `SipPayments` does not use; the run and the proofs go through it.

**`Cards`**. The rows of `Cards` and `BulkBatch` beside the issuer's own state of each card.
Each operation of `CardService` (activate, details, stop, unstop, cvv, unlink, assign,
virtual, request) reads the row, calls the issuer and writes the row in steps of their own.
The batch notification and three operator scripts are further actors; `Operations` selects
which of them an instance has. The fallbacks of the scripts are kept: user 9 (`ScriptUser`) for cards without
owner, wallet 1 (`DefaultWallet`) for users without wallet. Two histories: `held`, who ever held a card, and `lost`, the
ordered cards whose handler ended with an error before it stored them. `MCCards` adds `behind`, the
cards whose row may disagree with the issuer because handlers failed or overlapped.

**`Onboarding`**. The account at the backoffice, then profile, auth state and program, each in
a statement of its own; the login with its token refresh and two writes; the migration script
and the auth state that `activate-cards` writes. An answer of the backoffice that carries an error is
taken for an account (`TakenForAccount`, token 0): an empty profile is saved, and an existing auth state
loses its customer and gets the new device.

**`Biometric`**. Enrolment (one upsert), a challenge with its expiry, and the verification in
four statements: challenge, credential, `used_at`, `last_used_at`. A signature is the key that
made it.

**`UserWallet`**. Look for the row, let Crossmint make a wallet, insert under a unique key.
`Duplicates` says what Crossmint may do on a second wallet of a user.

**`Transfers`**. Internal transfers and SPEI cash-outs: PIN, recipient, profile, the move at the
backoffice, names, receipt, notifications. An order is what a person wants done once; the app
may send it again at any time, also while an earlier request for it runs, and nothing ties the two
together. Each request is a try of its own. Aliases change hands and cards come and go meanwhile.

**`Checkout`** composes the page (button, tokenisation, 3DS iframe, verification, report to the
app) with an API that answers in one step; the interleavings inside the API are those of
`ClipPayments`. The page in the iframe is a third party's: it may post its message at any time or never, and the
messages the listener ignores change nothing. `seen` is a history: Clip's status behind the
answer a submission has.

**`PaymentFees`** has no state: the fee worked back from the net amount, which may be a fraction of a
cent, with the rounding of the columns, and the quoted BOB/MXN rate.

`XProofs` holds the proofs about `X`; `AccountProofs` those about `Onboarding` and, through an instance, `UserWallet`. The proofs about
`SipToken` stand at the end of `SipPaymentsProofs`, those about `PaymentFees` at the end of
`ClipPaymentsProofs`. `MCX`, where there is one, adds the symmetry sets, constant
functions and bounds TLC uses. Definitions marked `mutant` are faulty variants of the definition that follows them and
are used by no specification.

## Runs

| Run | Instance | Shows |
|---|---|---|
| `clip_safety` | 1 payment, 2 charges, 2 requests, 2 connections, all faults | credited at most once and only if approved; no credit forgotten; markers and COMPLETED are true |
| `clip_liveness` | 2 payments, one of a user without complete backoffice data, 1 charge, 2 connections, failing topups and notifications | an approved charge is credited in the end, unless its lock leaks again and again |
| `sip_safety` | 3 orders, 2 keys, 2 requests, all faults | one QR per key, credited at most once and only when paid in full or when the callback left out what differs, transaction first, QR kept, marker true |
| `sip_token_safety` | 2 requests, 6 units of time, all faults, fair | no expired entry is used; one QR per request; every request is answered |
| `cards_safety` | 2 users, one without wallet, a physical and a virtual card, of which one is made, 2 requests, scripts or notifications, lost calls, answers and writes | only holders are served and spent for; active only after activation; an ordered card has a row, or its handler failed; row and issuer disagree only after handlers failed or overlapped; given up only when retired |
| `onboarding_safety` | 2 users, one for migration, 2 requests or scripts, all faults | an auth state has a profile and, with a customer, an account; a login that names a customer presents the account's device, unless the migration wrote its row |
| `biometric_safety` | 2 people, devices and challenges, 2 requests | the signer is logged in; a login closes its challenge, for good |
| `transfers_safety` | a transfer to an alias, sent up to twice, and a cash-out, 2 requests, all faults | a refused request moved nothing, a success moved once, none moves twice; receipts true; the PIN guards the money of card holders |
| `checkout_safety` | 2 submissions, every outcome, failing calls, fair | one result per submission, success only for a charge that is paid or that Clip had not decided when the API answered; only the wait for the 3DS message may last; the result reaches the app |
| `clip_double_charge` | 2 requests, no faults | violated: two concurrent `processPayment` calls charge a card twice ("Payment has already been processed") |
| `sip_forgotten_credit` | 1 order, a failing topup | violated: a topup that fails is never repeated, because the payment is COMPLETED before it and the bank's retry is acknowledged |
| `checkout_paid_as_failed` | 1 submission with 3DS, no faults | violated: a charge approved after 3DS is shown as "Autenticación 3DS fallida", because the verification answers PROCESSING until the webhook and the page takes only COMPLETED |

The last three are findings: messages and a comment of the code say otherwise (quoted in
`PROJECT.json`).

### Differences without a run

The modules also state, at their end, what other comments, logs, messages and tests say and the
code does not do. Each can be seen by adding the definition, as an INVARIANT or, where it is an
action formula, as a PROPERTY, to the configuration named:

| Definition | Configuration | What happens |
|---|---|---|
| `RefusedOnlyWhileBusy` | `ClipSafety` | GET_LOCK and RELEASE_LOCK may run on different connections, so a released lock may stay held ("Clip webhook is already being processed", `payment.service.ts`) |
| `OneTransactionPerReference` | `SipSafety` | two callbacks create two TOPUP transactions ("idempotent by prosperaReference"); the wallet is credited once all the same |
| `TopupRecordKept` | `SipSafety` | a slower callback wipes the stored topup record |
| `RefreshOnlyOn401` | `SipTokenSafety` | a 403 with a valid token empties the cache, as a 401 does |
| `NotificationStored` | `CardsSafety` | notification and handler both only insert the batch; the second fails and its card ids are lost |
| `GivenCardUsable`, `AnsweredAsShown` | `CardsSafety` | an unlinked card, retired at the issuer, is given again; a card answered as PENDING is listed otherwise |
| `OnePhysicalCard` | `CardsSafety` with two physical cards and without `OneCard` | a second physical card is given while the first is PENDING ("Check if user already has a physical card requested or active", `card.service.ts`) |
| `NothingToCreate`, `ProvisionedInProgram` | `OnboardingSafety` | a failure between two statements of a registration is never made good |
| `MigrationCoversAll` | `OnboardingSafety` | the migration covers the users of one id, not all |
| `ChallengeUsedOnce` | `BiometricSafety` | two verifications that overlap both log in with one challenge |
| `DefaultsToEmail` | `TransfersSafety` | the default transfer type is out of reach behind the validator |

Further: a migrated user's auth state has a device id the backoffice never saw, hence the exception in
`LoginReusesDevice`; the page shows "Tu pago fue autorizado" also for a charge Clip has left pending or
`in_process`, hence the exception in `DoneMeansPaidOrOpen`; overlapping requests and scripts do give one card to
two users in turn and leave rows and issuer apart, hence the exceptions in `RowMatchesIssuer`; `createSipPayment` is documented to create a PROCESSING record and creates a
PENDING one; the unique key refuses the slower of two wallet requests although a wallet is
stored by then; the stored fee rate has two decimals and does not explain the stored amounts.

### Bounds

Two requests are what each race found here needs; the two charges of a Clip payment are needed
for a webhook of the older charge and a verification of the newer one. Every bound is a constant:

- `Charges`, `Orders`, `CardIds`, `Devices` and `Challenges` bound what is created. They are large
  enough for each actor to create one and, for charges, orders and devices, for one more attempt
  after a failure. `ChargeLeft` keeps a Clip request from starting when no charge is left for it.
- `MaxLockDepth` bounds nested GET_LOCKs of one connection; `MaxAttempts`, `MaxTokens` and the two
  `Tries` of the page bound repetitions; `MaxTime` bounds clocks.
- Lifetimes are a few ticks in the order the code gives them: a token lives at least as long as its
  cache entry plus a timeout.
- `OneCard` stops `cards_safety` once two cards are made; each history of one card, physical or virtual, is complete.
- `transfers_safety` sends to an alias, whose holder may change; an email differs only in that its
  holder does not.

`Operations` and `Faults` select actors and failures. Deadlock is not checked: a system whose ids
are used up may rest.

### Fairness

`WF(Handler(r))` (in `ClipPayments` and `SipToken`): the event loop continues every request, calls to
SIP are given up after 15 seconds, and GET_LOCK has a limit of five seconds. The clients of the
backoffice and of Clip set no timeout, so for them it is an assumption about those services: a call is
answered or its connection breaks. `SF(TopUp(r))`: a backoffice that is called again and again answers
at some time. `SF` of webhook deliveries: the provider repeats an event until it gets a 2xx, and
`Requests` bounds the requests served, so that a delivery is not always possible. `Checkout` assumes that the
scripts of the page go on and that its calls are answered or fail, and nothing of the bank or of the page in the
iframe: the wait for its message has no limit in the code and none in `SubmissionEnds`. `AppIsTold` is checked with
an app whose handler does not throw; one that throws in every turn is told nothing, as in the code. No
fairness is assumed of other clients, of customers or of faults. With two connections a lock may be released on the
wrong one and then refuses deliveries until its connection comes up again (`LockLeaked`), hence the exception in
`ApprovedIsCredited`. SIP payments have no liveness run: one failed topup loses the
credit (`sip_forgotten_credit`).

## Proofs

All theorems hold for every value of the constants that the named assumptions of the module allow:
any number of users, orders, requests and so on, and every choice of faults.

| Module | Theorems | Hypotheses beyond typing |
|---|---|---|
| `ClipPaymentsProofs` | `TypeCorrect`, `TopupMarkerSoundThm`, `CompletedOnlyIfApprovedThm`, `NoCreditForgottenThm`, `Refinement` | none |
| | `RowAddsUpToACent`, `WholeCentsAddUp`, `NotAboveMarket` (fees) | fee rates below one; the BOB fee is not above the MXN fee |
| `SipPaymentsProofs` | `TypeCorrect`, `NoDuplicateQrThm`, `TopupMarkerSoundThm`, `TransactionBeforeCreditThm`, `QrKeptThm`, `Refinement` | none |
| | `CachedTokenValidThm`, `OneQrPerRequestThm` (token) | `TimesAssumption`: `Ttl + Timeout <= Validity` |
| `TransfersProofs` | `AnswerTellsMoveThm`, `ReceiptNamesPayeeThm`, `SuccessHasReceiptThm`, `PinGuardsMoneyThm` | none |
| `CardsProofs` | `TypeCorrect`, `OnlyHoldersServedThm`, `ActiveOnlyIfActivatedThm`, `SpendsForHolderThm`, `OrderedCardsRecordedThm`, `UnlinkedIsRetiredThm` | none |
| `BiometricProofs` | `SignerLogsInThm`, `LoginClosesChallengeThm`, `ClosedStaysClosedThm` | a key has one holder |
| `AccountProofs` | `TypeCorrect`, `AuthStateCompleteThm`, `LoginReusesDeviceThm` | none |
| | `WalletSafety` (crypto wallet) | none (`ConstantsOK`: `None` is no user or wallet) |
| `CheckoutProofs` | `TypeCorrect`, `OneVerdictThm`, `DoneMeansPaidOrOpenThm` | none |

`UserWallet` and `PaymentFees` have no run: their theorems carry their hypotheses in the statement.

None of the invariants is inductive as it stands. Each module strengthens it to `IInv`, mostly by what
a request in flight has established (`RequestOK`), since that is what the stale local variables are
worth when they are used:

- Clip: the charge a request holds belongs to its payment, a status `approved` it has seen was really
  given, a topup marker it read was true (credits are never taken back, so it stays true), and a
  request that will answer 2xx to an approval works on a credited payment or a refunded charge.
- SIP: keys are unique per row, ledger and credits agree, and a callback past its validation works on
  an order paid in full or recorded in `unchecked`. `Kept` collects what no step undoes, so that it can be used after an await.
- Token: an entry expires at most `Timeout + Ttl` after the token was issued.
- Transfers: no two requests are the same try (`Apart`) and a try not sent yet left no trace (`Fresh`); the
  payee of a request is not the sender; past the PIN step a request has the right PIN or its sender was
  without a card meanwhile; a request past the move has moved once, one past the receipt has a receipt.
- Cards: what a request found when it read (the row is there, the caller held the card, the issuer
  activated or retired it) is still so when it writes, because rows and past holders stay and the issuer's
  state never goes back (`Kept`). The rows a request is about to create are absent and no other request
  makes them (`MakersApart`), so that an insert never meets an existing row. Ordered cards without a row
  are in the hands of such a request or in `lost`, and every owner a row ever had is in `held`, so that the customer
  and wallet taken from a stale row are those of a holder.
- Onboarding: what a registration, login or script has established when it writes. A profile comes before the
  auth state, and an account before a customer in it; the device stored beside a customer is the account's, except for users of
  the migration. Accounts keep their device, profiles and auth states stay (`Kept`), so a stale reading stays true.
- Checkout: no result is shown before the report to the app, a verification is under way only in the step
  that waits for it, and a payment is PENDING exactly while it has no charge; a success told or shown is that of a
  charge that is paid, and stays paid, or was undecided in the answer (`Sound`).
- Biometric: user and key were read together, and the last step finds its challenge closed.
- Wallet: the wallet a request is about to store was made for its user.

Each action has a lemma that it preserves `IInv`; lemmas such as `RequestMoves` say that a step of one
request does not disturb what the others know. The two `Refinement` theorems show that both payment
components implement `WalletCrediting`. The fees rest on lemmas about integer division.

Only model-checked: the liveness properties `ApprovedIsCredited`, `SubmissionEnds`, `AppIsTold` and
`RequestsAnswered`, which need fairness and ENABLED and are out of the prover's reach, and
`RowMatchesIssuer`, which is about the history of `MCCards`. Every other property of a passing run is
proved.

## Not modelled

The project concentrates on what moves money, issues cards or logs people in.

- Push notifications (rows of device tokens and the send loop), news (drafts, publication, announcement),
  transaction charts (computed from one answer of the backoffice), sessions, password changes and the
  translation of errors into HTTP statuses: they have interleavings or edge cases of their own and no
  module. The other modules see a push as a call that succeeds or fails and a request as authenticated.
- Ramp orders and investment operations: the services only read, nothing calls the repositories'
  writes.
- Campaigns and inspiration: one read or one call passed through, without state of their own.
- Files, e-mail, templates, logs: I/O and rendering.
- Routing, CORS, body parsing and field validation: declarations of libraries, apart from the validator
  of the transfer type.
- The USD/MXN rate (one call times a constant) and profile reads and updates (one database call on
  the caller's own row).
- Read-only routes of cards and transfers, repository functions without a caller, and the
  corrections of user data in the migration script.
- Amounts in the payment flows, the contents of payloads, and doubles: `PaymentFees` uses exact
  quotients.
- That a webhook or callback really comes from the provider or bank is assumed.

Hazards without a property are listed in `PROJECT.json` with the reason.
