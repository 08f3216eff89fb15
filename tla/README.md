# QuotePilot: a verification development

TLA+ specifications, TLC runs and TLAPS proofs of the parts of QuotePilot where
concurrency, failure and money meet.  The reference is the code under `src/`;
every definition names the lines it models in `PROJECT.json` ("map").

QuotePilot is a catering-quote product.  A React client calls Firebase Cloud
Functions (`functions/index.js`, a second codebase in `functions-connect/`);
all authority lives there.  The functions keep their state in Firestore, whose
transactions are serializable, and call three providers that are not part of any
transaction: Stripe (payments, Connect accounts), Resend (e-mail) and Pingram
(SMS).  A function instance may be killed between any two of these calls, its
caller retries, and Stripe, Pub/Sub and the triggers deliver at least once and in
any order.  Nearly everything that can go wrong lies between two transactions.

## Inventory

| Part | State it keeps | Operations | Interacts through | Hard behaviour | Correct when |
|---|---|---|---|---|---|
| Payment planners (`paymentSafety`, `stripeProviderState`, `paymentDispatchState`, `paymentApprovalScope`) | none | plan a checkout, build prepared/published records, plan a Stripe observation, classify an error, plan a dispatch attempt, failure, resume or recovery | called inside every payment transaction | terminal states that may still be promoted to paid; errors that look definite | a settled or closed record is never reopened |
| Payment-request saga (`index.js:23502-24502` and helpers) | `quote.payment`, approval request, execution document, private dispatch document | claim, create, persist, restore, dispatch, send, accept, publish; cleanup and recovery | Stripe and Resend between transactions; the quote and its portal with all others | overlapping retries by one admin, death between any two steps, ambiguous answers, portal expiry and session expiry meanwhile | the link appears only after acceptance; one charge; no payable leftovers |
| Stripe webhook (`index.js:30026`) and reconciliation (`28075`) | `quote.payment`, event audit documents | record an observation once | `patchPaymentState` | duplicates, reordering, stale reads before the transaction | one outcome per event; paid money reaches the record |
| Portal rotation (`index.js:22541-22963`) | portal key, approvals | resolve the checkout, invalidate approvals, issue a key | Stripe, approvals, payment record | check with Stripe, then commit later | no payment is stranded on the old portal |
| Quote e-mail delivery (`quoteDelivery.js`, `index.js:22965-23500`) | `workflow.quoteDelivery`, quote status, portal activation | claim with a lease, send, complete, record failure, manual resolution | Resend; gates edits, acceptance and payment scopes | lease expiry, ambiguous outcome, retry window of the provider key, revision change | one e-mail per key; the portal shows only what was sent; an acceptance is final |
| Owner SMS (`ownerSmsAttempts.js`, `index.js:5440-6683`, `27101-27201`) | outbox, attempts, bindings, receipts, test lock, suppression, readiness | reserve, dispatch, finalize, recover, receive signed evidence | payment and quote triggers, Pingram, scheduler | a provider without idempotency keys; evidence before the outcome; two deployments side by side | one message per notification, only with a proved configuration; no false outcome |
| Connect commands (`functions-connect/`: edge, worker, executor, repository) | authority head, organization record, commands, leases, receipts, account claim | project authority, reserve, freeze, claim, execute, commit, quarantine, complete | a command queue, Stripe accounts | lease takeover, replayed tasks, authority that changes under a call, closing key window | one account; an outcome is committed once, under its fence |
| Connect onboarding hand-off (`onboardingHandoff.js`, repository) | private hand-off records, active and latest attempt | prepare, consume, create a link, record its issuance, disclose | the browser, Stripe account links | lost answers, two clocks, status and authority changed meanwhile | no second bearer link within the ten minutes of an attempt |
| Revenue autopilot (`revenueAutopilot.js`, `index.js:2060-2500`, `21868-22260`) | jobs, recipient controls, reconciliation receipts, message index, events | materialize, stop, claim, re-check, dispatch, record, reconcile, take provider events | scheduler, staff, Resend and its webhook | overlapping runs, stale snapshots, killed runs, forgotten keys, events out of order | one sender per job; ends are final; evidence is proved |
| Final-balance rail (`finalBalancePayment`, `paymentLedger`) | `payment.finalBalance`, ledger | as the deposit saga | the same functions | two rails on one quote | rails do not cross |
| Inventory authority (`inventoryAuthority.js`, `inventory*Core.cjs`) | stock, cost, recipe and requirement heads, allocations, receipts | receive, adjust, allocate, execute, reconcile, configure | one transaction each, retry receipts | retries and stale revisions | stock and allocations agree |
| Commercial change, staffing, calendar, buyer access, provisioning | their documents with revisions, leases where a provider is called | propose/apply/reconcile, assign, synchronise, activate | quote, providers | optimistic revisions, leases | no lost update |
| Kitchen BEO, contracts, closeout, pricing, catalog, client, tooling | documents or none | sequential | - | none | unit tests |

## What is modelled

```
PaymentCheckout      the pure planners and the records they decide on
     |  EXTENDS
PaymentRequest       the saga: invocations, Stripe, e-mail, approvals, executions
     |  EXTENDS                         PaymentRequest_proofs
PaymentRails         + webhook, reconciliation, portal rotation
     |                                  PaymentRails_proofs, PaymentSessions_proofs
     |  INSTANCE ... WITH (refinement)
     |--> DepositOnce  abstract: what the writers of a payment record promise
     |  EXTENDS
MCPaymentRails       symmetry for TLC

QuoteDelivery        the delivery of a quote: invocations, Resend, portal, review
     |  EXTENDS                         QuoteDelivery_proofs
MCQuoteDelivery      symmetry for TLC

DispatchOnce         abstract: what a durable dispatch promises
     |  INSTANCE ... WITH (refinement)
OwnerSms             alerts, diagnostics, triggers, reconciler, Pingram, webhooks
                                        OwnerSms_proofs

ConnectCommands      edge, command worker, executor, repository, Stripe accounts
     |  EXTENDS                         ConnectCommands_proofs
MCConnectCommands    symmetry for TLC
ConnectHandoff       the one-use hand-off to hosted onboarding
                                        ConnectHandoff_proofs

RevenueAutopilot     jobs, schedule, staff reconciliation, Resend and its webhook
     |  EXTENDS                         RevenueAutopilot_proofs
MCRevenueAutopilot   symmetry for TLC
```

The payment and delivery groups meet at two guards of the code: a payment request
starts only for an issuance of the portal that was delivered and is not locked
(`BeginPayment` in `QuoteDelivery`), and a delivery starts only while no payment
request runs (`MaySend`).  `QuoteDelivery` keeps of the payment rail whether one
runs; the payment modules keep of the delivery that a renewed portal reaches the
customer.  Owner SMS, Connect and the autopilot share no documents with these
beyond reads: an alert is written in the transaction of its cause, the
autopilot reads the quote and its portal as evidence, Connect stands alone.

All modules use one grain: a Firestore transaction is one action, a provider call is
one action, what an invocation read before is in its record, and it may die
between any two.  A Firestore call that fails without committing leaves the state
killing would leave.

### Payments: `PaymentCheckout`, `PaymentRequest`, `PaymentRails`, and what they implement: `DepositOnce`

| Variable | In the code |
|---|---|
| `payment` | `quote.payment`: depositStatus, whether the record shows its own link, stripeSessionId, stripeCheckoutState, checkoutGeneration |
| `portal` | `quote.portalKey` and whether its activation window has passed |
| `approval` | `state`/`executionState` of `quote.workflow.approvalRequests` |
| `scope` | the portal key inside an approval's `actionScope`, the part of the scope that varies here |
| `exec` | the approval execution document with `checkoutPreparation` (and the private dispatch document), `paymentDispatch` and `executedBy` |
| `stripe` | the Checkout Sessions with the metadata the code sets |
| `mail` | whether Resend has accepted the message of an approval (one idempotency key per approval) |
| `worker` | the local variables of the running invocations of `sendApprovedPaymentRequestEmail` |
| `event`, `delivery`, `clerk` | `stripeWebhookEvents` documents, running webhook invocations, running reconciliations and rotations |

The `catch` block of the saga is modelled step by step: re-read of the execution
(which may fail), expired-portal recovery (claim, Stripe, close), recording of the
failure, the accepted-but-expired close, neutralization, the three attempts to
settle the record, and the closing transaction.  `Die` kills an invocation at any
point; `Claim` is the retry.  Where the code continues after a Firestore call that
failed, the step says so (`PersistFails`, `Catch`, `Neutralize`, `RecoverStripe`).

The customer may complete a session once he holds its link: after the e-mail
was accepted, or on the portal once it is published.  A completed session is
paid at once or `processing`, as asynchronous methods are, and then paid or
failed.  Stripe returns the same session for the same idempotency key even when
it is closed, and an idempotency error when the parameters differ (another
approval of the same generation).  An event is anything Stripe has reported for a
session; any of them may be delivered at any time, again and concurrently.

`DepositOnce` says in four actions what the saga, the webhook, the reconciliation, the
rotation and the customer promise together: the deposit is on offer on one session at
a time, a session that was closed is never offered again, the deposit is taken at
most once, on the session on offer, and the record is settled by that session.
`PaymentRails` implements it under the mapping `OnOffer` (the session on the
record, unless it is closed), `ClosedSessions`, `PaidSessions` and `RecordedFor`.

*Left out.*  Amount, currency, customer and revision of the approved scope do not
change here, and the guards that would stop on their change never fire; the portal
key does.  The quote's status stays "accepted", and a renewed portal counts as
delivered to the customer at once (in the code, by a quote e-mail).  URLs, digests
and host checks are abstracted to what they identify.  "refunded" is never written
by the server.  The owner-SMS outbox row of a paid event, the audit documents that
reconciliations and rotations write under random ids, the portal's copy of the
payment (written in the same transactions) and the rotation's own approval are left
out.  An approval history of 50 requests and the 12 remembered sessions are never
filled.

### Quote delivery: `QuoteDelivery`

| Variable | In the code |
|---|---|
| `quote` | revision (saved version and portal issuance), status, the digest of the e-mail it renders to, whether a payment request runs |
| `portal` | the portal document of the issuance: unexpired, and the revision whose snapshot it shows (0: none yet) |
| `delivery` | `workflow.quoteDelivery`: revision, state, generation, attempt id, payload digest, lease, retry window, observed message id, portal activation |
| `mail`, `remembered` | what Resend accepted, and the idempotency keys it still knows |
| `call` | the local variables of the running invocations of `sendQuoteToCustomer` |

| Actions | In the code |
|---|---|
| `Claim`, `ClaimForReview` | the first transaction, with `claimQuoteDelivery` |
| `Send` | the call of Resend and the classification of its answer |
| `Complete` | the transaction that records the acceptance and activates the portal |
| `RecordOutcome` | the transaction of the `catch` block |
| `Die` | the invocation is killed; its attempt id is never used again |
| `ConfirmNotSent`, `ConfirmAccepted` | `resolveQuoteDeliveryOutcome` |
| `Edit`, `Rotate`, `Reopen`, `Decide`, `Book`, `Expire`, `BeginPayment`, `EndPayment`, `ChangePayload` | the other writers of the quote, as far as the delivery gates them or depends on them |
| `PortalLapses`, `LeaseEnds`, `WindowCloses`, `KeyForgotten` | time |

A claim takes a lease of two minutes; for 23 hours after the first attempt a
generation may be tried again under its key; Resend remembers a key for 24.  The
clocks run out at any moment, with one restriction: an invocation may outlive its
lease (the platform's 60 seconds make that unlikely, the code does not rely on
it), but not the hour between the window and the provider's memory, and that hour is
the margin the code chose.  An administrator who reconciles is assumed to tell the
truth about the provider, at a time when no request under the key is on its way;
both are what the manual asks of him, and nothing in the code can check them.

*Left out*: deletion of a quote, the attempt and resolution histories, the review of a
rebooking, and what an edit does to approvals.

### Owner SMS: `OwnerSms`, and what it implements: `DispatchOnce`

| Variable | In the code |
|---|---|
| `outbox` | `ownerSmsOutbox` of an alert, with the reservation that holds it |
| `attempt` | `ownerSmsAttempts`: state, payload (the number), configuration, lease, tracking id, time of the reservation |
| `summary`, `testLock`, `suppressed`, `ready` | the organization's state document, test lock, suppression and readiness |
| `bound`, `receipt` | provider bindings, webhook receipts |
| `sms`, `worker` | what Pingram took; the running triggers and reconcilers |

`WriteAlert`, `ClaimOutbox`, `ReserveAlert`, `CloseOutbox` and `RecoverOutbox` are the
outbox; `SendTest` is a diagnostic; `PreflightFails`, `ClaimAttempt`, `Send`,
`Finish` and `RecoverDispatch` the dispatch; `Report`, `OptOut` and `Process` the signed
webhooks.  Every handler picks the configuration of its own deployment, so that an
old and a new deployment run side by side.  Pingram has no idempotency key: whatever
it takes is a message.  `DispatchOnce` says in six actions what any durable
dispatch promises (at most one message, an acceptance only for a message, a failure
only for none, an outcome that is neither stays unknown until evidence settles it);
`Phase` maps the state of an attempt to it, and `Dispatch!Spec` is both a property of
the run `owner_sms` and a theorem.

*Left out*: message bodies, receipts of consent events, the limit of three
diagnostics an hour, the collision of two tracking ids.

### Connect: `ConnectCommands` and `ConnectHandoff`

| Variable | In the code |
|---|---|
| `authority` | the projected authority head: revision, and whether its expiry has passed |
| `org` | the organization's Connect record: revision, state, onboarding reservation and its window, binding, quarantine, last applied observation |
| `command`, `lease`, `receipt` | frozen commands, leases with their attempt counter, terminal receipts |
| `claim` | the claim document of the provider account |
| `stripe`, `exec` | accounts, the key Stripe remembers, the state of the account; the running executions |

`Reserve`, `Begin` and `Refresh` are the edge; `Claim`, `Reclaim`, `DeadLetter` and
`Complete` the worker's lease protocol; `FindReceipt`, `ReadStatus`, `Authorize`,
`Refused`, `CreateAccount`, `Retrieve`, `Commit`, `Apply`, `Quarantine` and `Confirm` the
executor and the repository's transactions, in their order.  Nothing in the
deployment constructs these modules yet (`functions-connect/index.js` exports
nothing), so the queue that delivers commands again is an assumption of the model.
`ConnectHandoff` has the private records (`handoff`), the active and latest attempt
(`org`), the links Stripe holds, the request that consumed an attempt (`visit`) and two
clocks; its actions are the calls of `onboardingHandoff.js` and the repository.

*Left out*: other organizations, the rate limiter, actor and digest checks, the
read-only status call, tokens, URLs and return pages.

### Revenue autopilot: `RevenueAutopilot`

| Variable | In the code |
|---|---|
| `job` | `revenueAutopilotJobs`: state, attempt id and count, provider message, suppression stamp, reconciliation claim |
| `authority`, `suppressed` | what gates, quote and stop evidence say together; the recipient's controls |
| `run`, `request`, `receipt` | running schedules, running staff reconciliations and their receipts |
| `mail`, `remembered`, `indexed`, `handled` | Resend, its memory of keys, the provider-message index, recorded events |

`Create`, `StaffStops` and `ScheduleStops` are the materialization;
`RunReads`, `DispatchStops`, `DispatchPasses`, `DispatchClaims`, `RecheckStops`,
`RecheckFails`, `RecheckClears`, `DispatchSends`, `RecordAcceptance` and
`RecordFailure` a visit of the schedule; `Reconcile...` the staff callable;
`WebhookRecords` the provider's events.  Whatever a visit read is in `run[r].seen`, and
a stop that writes back the whole record it read does so here.

*Left out*: which gate or evidence blocks (one value of `authority`), the unread-reply
lane, template rendering, calendar arithmetic, attribution, the settings callables.

## Properties and runs

| Run | Bounds | Properties | What it shows |
|---|---|---|---|
| `payment_saga` | 2 invocations, 1 approval, 2 sessions | `SagaInv`, `PublishedOnlyAfterAcceptance`, `RecordFollowsStripe`, `PreparedStands`, `FailuresCleanUp` | overlapping retries of one request; what an invocation remembers is what is stored; paid, failed and expired on the record are Stripe's; what a cleanup may do to a session that can be paid |
| `payment_rotation` | 1 invocation at a time, 2 approvals, 2 sessions, 1 clerk, 2 portal keys | `RailsTypeOK`, `OneCharge`, `PaidStaysRecordable`, `SessionInv`, `SessionsSucceed`, `CollectsOnce` | a second request after a failed one, with rotations and reconciliations anywhere between; the inductive invariant of the sessions; the refinement of `DepositOnce` |
| `payment_settlement` | 2 deliveries, 1 clerk, 1 session, 1 portal key, fairness | `PaidEventAccounted`, `AuditIsFinal`, `SettlementIsFinal`, `PaidIsRecorded` | overlapping deliveries against the saga and a reconciliation; a payment reaches the record |
| `quote_delivery` | 2 invocations, 2 texts, 3 revisions, 2 generations | `TypeOK`, `OneMailPerKey`, `PortalShowsWhatWasSent`, `PaymentFollowsDelivery`, `AcceptanceIsFinal` | overlapping deliveries among edits, rotations, payment requests, reviews and the clocks |
| `review_impossible` | violation, 2 revisions | `ReviewIsPossible` | finding 1 |
| `owner_sms` | 1 alert, 1 diagnostic, 2 workers, 2 numbers, fairness | `TypeOK`, `AlertsAreProved`, `SummaryIsLatest`, `DispatchesOnce`, `OutboxSettles` | triggers, reconciler and webhooks in any order; the refinement; no alert is forgotten |
| `connect_creation` | 2 executions, 2 lease ids, 2 attempts, 2 authorities, fairness | `OneAccount`, `BindingIsClaimed`, `CommandsEnd` | overlapping executions of the creation |
| `connect_refresh` | 2 executions, 2 refreshes, 1 attempt each, the account changes once | `TypeOK`, `ReceiptsAreEarned`, `EffectsAreFenced`, `ObservationsAdvance` | slow and lost refreshes and reviews behind the revision fence |
| `connect_exposed` | violation | `QuarantineExposesNothing` | finding 2 |
| `connect_handoff` | 3 requests, 2 revisions, 2 authorities | `TypeOK`, `UsableIsActive`, `ShownWasIssued` | lost answers, two clocks, changes of status and authority |
| `revenue_autopilot` | 1 job, 2 schedules, 1 reconciliation, 2 attempts, 2 e-mails | `TypeOK`, `OneSender`, `AttemptsAreBounded`, `EvidenceIsProved`, `EndedIsFinal` | overlapping and killed schedules, staff and webhook on one job |
| `lease_stranded` | violation, fairness | `LeaseEnds` | finding 3 |

*Bounds.*  Two overlapping invocations are what the code has to cope with: one that is
still running and its retry; a third behaves like the second.  In the payments, two
sessions and two approvals give one replacement, which is where the generation, the
idempotency key and stale events matter, and two portal keys give one rotation.
`payment_rotation` has one invocation at a time: what it checks of the sessions
(`OneCharge`, `PaidStaysRecordable`, `SessionInv`, `SessionsSucceed`, `CollectsOnce`) is proved for
any number.  What overlapping invocations leave behind is the question of
`payment_saga`.  `payment_settlement`
has one portal key, so no rotation: what a rotation does to a payment is the question
of `payment_rotation` (`PaidStaysRecordable`).  Rotations beside deliveries, and
events of an earlier session that arrive when the quote has a later one, are covered by
the proofs: `PaidEventAccounted`, `AuditIsFinal` and `SettlementIsFinal` hold for any
number of sessions, deliveries and portal keys.  In particular a session that is
replaced between the webhook's read and its transaction does not occur in
`payment_settlement`, which has one session: for it there is the proof of
`PaidEventAccounted`, and nothing for the liveness.  In the delivery, two
texts are a change of payload, two generations a retry after the window and the
limit at which a further one is refused; three revisions let an invocation of the
first be overtaken by two later issuances.  An SMS run needs one alert beside the
diagnostic that proves its configuration, and a second number for the
configuration that is not proved.  Two attempts of the creation show a lease taken
over and then dead-lettered; two refreshes frozen at one revision are what the
fence must separate.  Of three hand-offs, one is disclosed, one replaced, one
tries.  Two attempts and two e-mails of a job give a retry within and after Resend's
memory.

Symmetry (sessions, approvals, invocations, texts, executions, refreshes, runs, requests) is
used where no temporal formula needs the permuted values to be told apart; the runs
that check liveness use none.  `MaxPortal`, `MaxGeneration`, `MaxRevision`,
`MaxTime`, `MaxAttempts`, `MaxAuthority`, `MaxVersion` and `MaxMails` are the bounds of
counters; of these `MaxGeneration` and `MaxAttempts` are limits of the code.

`CHECK_DEADLOCK FALSE` in every configuration: the slots above are finite, and when
everything is settled the system has nothing left to do.

**Fairness.**
- `Redelivery` (`payment_settlement`): a webhook invocation ends, at the latest by the
  platform's timeout (weak fairness of its steps together with its death).  Stripe
  delivers an event again until it is answered with success, and not every
  invocation that works on a paid event is killed (strong fairness of reading and of
  answering one).  Nothing is assumed of administrators, customers, the e-mail
  provider or the saga.
- `Reconciled` (`owner_sms`): invocations end; the reconciler runs every 15 minutes
  (weak fairness of `RecoverOutbox`); and not every invocation that holds an outbox
  command is killed or overtaken (strong fairness of its steps).
- `Redelivered` (`connect_creation`): executions end, leases run out after a minute, and
  a queue delivers a command again until it has a receipt.  The last is an assumption
  about a queue that is not there yet.
- `FairSpec` of `RevenueAutopilot` (`lease_stranded`): visits go on, the cursor of
  the schedule comes to every job again and again, and a visit reaches its decision
  again and again.  Finding 3 is a behaviour that has all of this.

### Findings

1. *Review that takes neither answer.*  A claim for a new revision keeps the message
   id observed for the previous one (quoteDelivery.js:452).  When the new delivery
   becomes ambiguous, "not sent" is refused because an acceptance was observed,
   and the true message id because it differs from the observed one.
   docs/USER_MANUAL.md:1311.
2. *Quarantined creation with a usable binding.*  The executor looks for the receipt of
   the onboarding and then for its reservation, in two reads
   (connectProviderCommandExecutor.js:100, 138).  When another execution binds the
   account in between, the reader finds no reservation and quarantines the
   operation, which the revision fence allows because binding does not change the
   revision.  docs/STRIPE_CONNECT_PROGRAM.md:142-145.
3. *A lease that never ends.*  A visit that finds an expired send lease plans an ambiguous
   outcome, and compares the plan with the stored record by serializing both, which
   throws for the stored timestamps (index.js:2361).  Nothing is written and staff
   can reconcile only ambiguous jobs.  docs/REVENUE_AUTOPILOT_DESIGN.md:374.

### Observed

What the models reach that no run states as a property: what a document says of the
case is weaker or silent, or a run for it would repeat one above.

*Payments.*
1. An invocation dies after Resend accepted and before the acceptance is recorded;
   the session expires; the retry finds the session expired before it looks at the
   dispatch, and records `definite_failure` for a message that was sent.
2. The cleanup of an invocation acts on its own memory: after an unannotated transport
   error at restore it expires the session, although an overlapping retry has sent
   and published it.
3. An invocation can close the execution as failed over a session it never closed, when
   the preparation in its memory is not the stored one: its own creation call fails,
   so it remembers none and skips the cleanup (index.js:24335), or it cleaned up
   another session of its own, while an overlapping invocation has stored a
   preparation.  The approval is failed and its session can still be paid.
   docs/LAUNCH_RUNBOOK.md:1094-1096 and :1459-1462 say that a definite provider
   failure neutralizes the unsent session before a new approval is required; that
   is so for every invocation that remembers the stored preparation
   (`FailuresCleanUp`), and for requests that do not overlap.  The damage is
   bounded by `PreparedStands`: the open session stays on the record as prepared,
   so that no further session can be prepared until a reconciliation or an event
   closes it.
4. A published session that Stripe has expired cannot be replaced by the saga until
   a webhook or a reconciliation records the expiry, and the attempt leaves an
   orphan session whose key then refuses the next approval's creation.
5. An execution whose dispatch failed definitely but whose session the customer
   completed stays in progress until it is reconciled by hand.
6. The 15-minute boundary before an expired-portal recovery does not cover a first
   attempt that is still sending when a second one ended ambiguous.

*Quote delivery.*  An ambiguous attempt that the provider accepted is retried under its
key and the retry is rejected definitely: the whole delivery is recorded as failed,
and after the window a fresh generation sends the quote again (quoteDelivery.js:571).

*Owner SMS.*  An uncertain attempt without a tracking id is never resolved: its test lock
blocks every later diagnostic, the receipt of its message stays `pending_binding`, and
such rows can fill the reconciler's batches.  An outbox command whose attempt has
gone beyond "queued" is closed as `not_queued`.

*Connect.*  A refresh that was applied and then overtaken can end dead-lettered; a refresh or the binding overwrites the state
`security_review` that a second reservation set; `recordHandoffFailure` has no caller.
Two bearer links may be usable at once: an attempt ends for QuotePilot at the earlier of
its ten minutes and Stripe's expiry (onboardingHandoff.js:285,
connectControlRepository.js:1079), so a link that Stripe honours longer than the ten
minutes is beside the one of the next attempt.  docs/STRIPE_CONNECT_PROGRAM.md:148-162
promises no more than the block until the local expiry, which is `UsableIsActive`.

*Autopilot.*  A stop planned from a stale snapshot overwrites a sending or accepted
record with the whole record it read: the job is stopped and the evidence of its
sending lost, although docs/REVENUE_AUTOPILOT_DESIGN.md:154-156 says that evidence is
not overwritten.  `EndedIsFinal` says only that an ended job is not reopened and
lets this pass, as a stopped job is one of the ends.  Further, a job that waits for a retry
is stopped although its earlier attempt may have been sent; writing an acceptance or
a failure erases a suppression stamp set meanwhile; a deferral into quiet hours is not
persisted (the comparison of finding 3); an event that arrives before its message is
indexed is answered with success and lost; an event whose time precedes the
recorded acceptance is refused; a retry or a reconciliation more than a day after the
first attempt meets a forgotten key and may send a second e-mail; the expiry of the
portal is not looked at again after the claim; a schedule killed before it saved its
cursor repeats its page.

## Proofs

Eight modules `..._proofs` prove the following with TLAPS, for every value of the
constants: any number of invocations, administrators, approvals, sessions, deliveries,
clerks, texts, alerts, diagnostics, workers, refreshes, executions, leases, requests,
jobs and schedules, and any limits.

| Theorem | Statement |
|---|---|
| `SagaSafety` | `Spec => [](TypeOK /\ SagaInv /\ PublishedOnlyAfterAcceptance)` |
| `RailsTypeCorrect`, `RailsSagaInv`, `RailsPublished` | the same three invariants of `RailsSpec`, with every handler running |
| `RailsPaidEvent` | `RailsSpec => []PaidEventAccounted` |
| `RailsSettlement`, `RailsAudit` | `RailsSpec => SettlementIsFinal`, `RailsSpec => AuditIsFinal` |
| `RailsSessions`, `RailsRecord`, `RailsOneCharge`, `RailsPaidRecordable` | `RailsSpec => []` of `SessionInv`, `RecordFollowsStripe`, `OneCharge`, `PaidStaysRecordable` |
| `RailsSuccession` | `RailsSpec => SessionsSucceed` |
| `RailsCollectsOnce` | `RailsSpec => CollectsOnce`: `PaymentRails` implements `DepositOnce` |
| `RailsPreparedStands`, `RailsFailuresCleanUp` | `RailsSpec => []PreparedStands`, `RailsSpec => FailuresCleanUp` |
| `DeliveryTypeCorrect`, `DeliveryOneMail`, `DeliveryPortal`, `DeliveryPayment` | `Spec => []` of `TypeOK`, `OneMailPerKey`, `PortalShowsWhatWasSent`, `PaymentFollowsDelivery` |
| `DeliveryAcceptance` | `Spec => AcceptanceIsFinal` |
| `SmsTypeCorrect`, `SmsAlertsAreProved`, `SmsOneOpenDiagnostic`, `SmsSummaryIsLatest` | `Spec => []` of `TypeOK`, `AlertsAreProved`, `OneOpenDiagnostic`, `SummaryIsLatest` |
| `SmsDispatchesOnce` | `Spec => DispatchesOnce`: `OwnerSms` implements `DispatchOnce` for every notification |
| `ConnectTypeCorrect`, `ConnectOneAccount`, `ConnectBinding`, `ConnectReceipts`, `ConnectEffects` | `Spec => []` of `TypeOK`, `OneAccount`, `BindingIsClaimed`, `ReceiptsAreEarned`, `EffectsAreFenced` |
| `ConnectObservations` | `Spec => ObservationsAdvance` |
| `HandoffTypeCorrect`, `HandoffUsableIsActive`, `HandoffShown` | `Spec => []` of `TypeOK`, `UsableIsActive`, `ShownWasIssued` |
| `AutopilotTypeCorrect`, `AutopilotOneSender`, `AutopilotAttempts`, `AutopilotEvidence` | `Spec => []` of `TypeOK`, `OneSender`, `AttemptsAreBounded`, `EvidenceIsProved` |
| `AutopilotEndedIsFinal` | `Spec => EndedIsFinal` |

*Assumptions.*  Only the named `ASSUME`s of the modules: null values are no members of
the sets they stand for, alerts are not diagnostics, the creating command is not a
refresh, bounds are natural numbers and the limits of the code (attempts, generations,
portal keys, revisions, messages) at least one.  TLC evaluates them in every run.

*Payments.*  `PublishedOnlyAfterAcceptance` is not inductive: the step that
publishes (`Complete`) publishes the preparation the invocation *remembers*, so one
has to know that it is the stored one.  `SagaInv` says so for every program point
after `Persist` (`InvocationOK`), and that an execution with a dispatch has a
preparation and that an accepted dispatch was accepted by the provider
(`ExecutionOK`).  For `SagaInv` to be preserved while *other* invocations run, two
facts about every step are needed: a stored preparation is never replaced
(`StoredStays`) and an accepted dispatch stays accepted (`AcceptedStays`).  With them,
each action needs only a look at the invocation that takes it.  The inductive
invariant of the composition is `RailsTypeOK /\ SagaInv /\
PublishedOnlyAfterAcceptance`; the new handlers leave workers and executions alone,
and a patched payment never shows a link.  `SettlementIsFinal` follows because every
writer of `payment` is guarded by a condition that excludes a settled record: the
planners' for the transitions, the comparison with an expected or a prepared record
(both unsettled by `SagaInv`) elsewhere.  `PaidEventAccounted` adds that
the transaction which calls a paid event processed or ignored leaves the record
settled, and that a settled record stays so.

*Payment sessions.*  Three groups of writers move a session and the record that names it,
in different transactions, and Stripe moves it in none.  `SessionInv` says how they
fit: a charged session is the one on the record (`ChargedIsRecorded`), a
preparation stored in an execution names the session on the record or a closed one
(`PreparedIsRecorded`), the session that is on offer belongs to the quote's present portal
(`OnPortal`), and an end of a session that an invocation, a delivery or a staff call
remembers is still Stripe's answer when it writes it.  It would be hopeless to
carry this through every action for every actor, so a step is first classified, per
variable, by what it does to it: a session keeps its portal and its end and only the
session on the record is charged (`StripeKept`); the record keeps its session and takes an end only from Stripe, or
is replaced where the planners allow it (`PaymentKept`, `Replaced`); an approval keeps
its scope (`ApprovalKept`); the portal changes only with a clear payment rail
(`PortalKept`); an execution keeps what it has, stores its preparation or is decided
(`ExecutionKept`).  The shared conjuncts of
`SessionInv`, and everything an actor that does not move remembers, follow from
these classes; only the actor that moves is looked at action by action.  `OneCharge` and
`PaidStaysRecordable` are read off the invariant, `SessionsSucceed` off `Replaced`.

For the refinement a step changes the record or Stripe, never both, and Stripe one
session at a time (`OneMoves`), which gives `Offer`, `Close`, `Take` and `Record` or a
stutter.

Overlapping invocations of one approval are excluded nowhere: a repeat of a request that
is still running is admitted, and each invocation cleans up from the preparation it
remembers.  That a failed execution leaves nothing payable is therefore false
(observation 3), and what holds is stated by two properties, which `OverlapInv` makes
inductive.  A session is created for one approval and stays its (`Owned`), and its
preparation replaced a record that was not itself prepared; a cleanup that reached its
closing steps has its own session closed (`InvocationOwns`); and what a recovery, a webhook or a
staff call has observed is never an open session (`Observed`).  So of all writers of the
record only the completion of the approval's own execution can touch one whose prepared
session is open, which is `PreparedStands`, and a failure over an open session is recorded
by an invocation whose memory differs from what is stored, which is `FailuresCleanUp`.

*Quote delivery.*  `OneMailPerKey` rests on the provider's memory: a second
request under a key is harmless while the key is remembered.  So one has to know
that a request that is still to be sent finds its key remembered or unused
(`RequestsAgree`), that the current record carries the digest of everything under its
key and that its key is remembered until the window closes (`RecordCoversKey`), and
that nothing is younger than the record, so that a new revision or generation is
a new key (`KeysAreOld`).  A claim then either opens a key nobody has used or
repeats one inside its window with the stored digest.  `PortalShowsWhatWasSent` needs
that an invocation about to complete was answered by the provider
(`CompletionHasMail`) and, for the steps of the others, that an accepted record of the
quote's revision does not change (`FinalStep`, which is also `AcceptanceIsFinal`).
`PaymentFollowsDelivery` follows from it, as no revision is issued while a payment
request runs.

*Owner SMS.*  A document of an attempt is written in one of two ways, which is the
lemma all steps go through: a reservation creates it, or a write changes one that is
not resolved.  An invocation that is about to call Pingram holds the lease of its
attempt, which is dispatching or was given up without the tracking id that evidence
would need (`Holders`), so nothing can settle the attempt before Pingram has answered
(`SentOnce`).  So Pingram takes at most one message for
a notification, and what a finished invocation writes agrees with what Pingram did.
For the refinement, `Phase` is a function of the attempt, its messages and the
invocation that holds it; each action is a step of `DispatchOnce` for one
notification or leaves all phases as they are.  `AlertsAreProved` adds that a
readiness was written for a diagnostic that was delivered under its
configuration (`Proofs`).

*Connect.*  The invariant follows an outcome from its commit to its receipt: it is
committed while the record still has the revision of its command, and moves the record
past it (`MovedPast`), so a second command of that revision finds it gone
(`OneEffect`); what an execution has yet to report was committed before (`Effective`
counts the reports under way).  Binding is the one outcome that does not move the
revision, and has `Bound` instead.  `OneAccount` holds because the key of the creation is
remembered as long as the recovery window is open or an execution that saw it open
is still at its call (`Remembers`).

*Hand-off.*  `UsableIsActive` speaks of links that Stripe honours, whether they were shown
or their answer was lost.  It needs that an attempt on which no clock has passed, and which
has a link or may still obtain one, is the active one (`FreshIsActive`), and that an
attempt which was replaced has run out by one of the clocks (`Replaced`): if by
Stripe's, its link is not usable, and if by its own ten minutes, the property has let go
of it.

*Autopilot.*  The state of a job says who may talk to Resend about it: a visit that is to
send has its job in sending under its own attempt, or finds it stopped by
somebody with an older snapshot (`RunInv`); a job under reconciliation has left that
state (`RequestInv`).  `OneSender` then needs only that a claim finds a job nobody has
in sending.  For `EndedIsFinal` every step but a claim leaves a job as it is, stops
it, or moves it among the states that follow its own.

*Only model-checked.*  The liveness properties `PaidIsRecorded`, `OutboxSettles` and
`CommandsEnd`: liveness under fairness and `ENABLED` are beyond the prover.  Every
invariant and action property a passing run checks is stated by a theorem.  Nothing is proved by
induction over data, and no module uses a recursive operator.

## Not modelled

- *Final-balance rail.*  It runs the saga of the deposit, with the same planners and
  the same handlers, on a second payment record; a second copy of `PaymentRequest`
  would show the same.  What is its own, the ledger that keeps the rails apart, is
  sequential arithmetic over one document.
- *Inventory authority, commercial change, operational staffing, kitchen BEO, contracts,
  closeout, event operations.*  Each operation is a single transaction that checks
  the revisions it was given and answers a repeated request from its receipt.
  Nothing comes between two steps of one operation, and what remains (quantities,
  costs, plans) is numeric or documentary.
- *Google Calendar, buyer access, provisioning.*  Leased calls of a provider in the style of the
  delivery and the autopilot; what they send is repeated by hand when it is late.
- *Approval workflow.*  Its transitions are part of the payment and delivery models as far as
  these rely on them; commenting, assignment and the history of 50 requests are not.
- *Stripe Connect.*  The rate limiter and the digests of commands; one organization.
- *Pricing, catalog.*  Sequential numeric code, without concurrency or failure.
- *React client.*  Holds no authority: whatever it asks for is checked again by the
  functions.
- *Truthloop, infrastructure, marketing, documentation tooling.*  Not part of the running
  system.
