---------------------------- MODULE QuoteDelivery ----------------------------
(***************************************************************************)
(* Sending a quote to its customer: sendQuoteToCustomer and                *)
(* resolveQuoteDeliveryOutcome (functions/index.js) over the planners of   *)
(* functions/quoteDelivery.js, for one quote.  An invocation claims the    *)
(* delivery under a lease, calls the e-mail provider with an idempotency   *)
(* key and records the outcome, in transactions of its own; any number of  *)
(* invocations overlap, and each may be killed between two of its steps.   *)
(* While an outcome is unresolved the quote is locked: nothing else that   *)
(* edits the quote or asks for money may start.                            *)
(*                                                                         *)
(* Abstractions.  A revision is the pair of saved version and portal       *)
(* issuance; every edit, rotation and reopening issues the portal anew, so *)
(* a counter stands for both.  The idempotency key is the digest of        *)
(* revision and generation, and stands for itself.  "sent" is sent or      *)
(* viewed; a booked quote meets the contract and deposit checks of the     *)
(* claim.  A call that changes no document is not an action.  Quote        *)
(* deletion and the audit histories are left out.                          *)
(*                                                                         *)
(* Time.  Three clocks run: the lease of the current attempt, the 23 hours *)
(* in which a key may be used again, and the provider's memory of a key,   *)
(* which is an hour longer.  An invocation may outlive its lease, which    *)
(* the 60 seconds the platform grants it make unlikely, but not that hour. *)
(***************************************************************************)
EXTENDS Naturals

CONSTANTS Invocations,    \* calls of sendQuoteToCustomer; one is its attemptId
          NoInvocation,   \* the empty attempt id and the empty message id
          Payloads,       \* digests of the e-mail a quote renders to
          NoPayload,      \* the empty digest
          MaxGeneration,  \* the generation limit (1 000 000 000 in the code)
          MaxRevision     \* bound on the revisions of the quote

ASSUME NoInvocationAssumption == NoInvocation \notin Invocations
ASSUME NoPayloadAssumption == NoPayload \notin Payloads
ASSUME LimitsAssumption == MaxGeneration \in Nat \ {0} /\ MaxRevision \in Nat \ {0}

VARIABLES
  quote,       \* the quote: revision, status, rendered e-mail, payment running
  portal,      \* its portal document: unexpired, and the revision it shows
  delivery,    \* quote.workflow.quoteDelivery
  mail,        \* the e-mails the provider accepted
  remembered,  \* the idempotency keys the provider still knows
  call         \* what each invocation remembers

vars == <<quote, portal, delivery, mail, remembered, call>>

Statuses == {"draft", "sent", "accepted", "declined", "booked", "expired"}

Deliverable == {"draft", "sent", "accepted", "booked"}

TerminalDecisions == {"accepted", "declined"}

UnresolvedStates == {"sending", "outcome_ambiguous", "outcome_unknown"}

DeliveryStates == UnresolvedStates \cup {"none", "provider_accepted", "failed",
                                         "reconciled_not_sent"}

Quotes == [rev : Nat, status : Statuses, payload : Payloads, paying : BOOLEAN]

Portals == [valid : BOOLEAN, shows : Nat]

MessageIds == Invocations \cup {NoInvocation}

Records == [rev : Nat, state : DeliveryStates, gen : Nat, attempt : MessageIds,
            payload : Payloads \cup {NoPayload}, lease : BOOLEAN,
            window : {"none", "open", "closed"}, observed : MessageIds,
            active : BOOLEAN]

Mails == [rev : Nat, gen : Nat, payload : Payloads, by : Invocations]

Errors == {"", "definite", "ambiguous", "manual_review"}

Calls == [pc : {"idle", "send", "complete", "record", "done"}, rev : Nat, gen : Nat,
          payload : Payloads \cup {NoPayload}, msg : MessageIds, err : Errors]

NoDelivery == [rev |-> 0, state |-> "none", gen |-> 0, attempt |-> NoInvocation,
               payload |-> NoPayload, lease |-> FALSE, window |-> "none",
               observed |-> NoInvocation, active |-> FALSE]

NotCalled == [pc |-> "idle", rev |-> 0, gen |-> 0, payload |-> NoPayload,
              msg |-> NoInvocation, err |-> ""]

Init ==
  /\ quote \in [rev : {1}, status : {"draft"}, payload : Payloads, paying : {FALSE}]
  /\ portal = [valid |-> TRUE, shows |-> 0]
  /\ delivery = NoDelivery
  /\ mail = {}
  /\ remembered = {}
  /\ call = [i \in Invocations |-> NotCalled]

-----------------------------------------------------------------------------
(* The planners.                                                            *)

Key(d) == [rev |-> d.rev, gen |-> d.gen]

MailsUnder(k) == {m \in mail : Key(m) = k}

SameRevision == delivery.rev = quote.rev

Unresolved(d) == d.state \in UnresolvedStates

LeaseActive(d) == d.state = "sending" /\ d.lease

\* assertQuoteEditNotDispatching refuses.
Locked == SameRevision /\ Unresolved(delivery)

\* Mutant of NeedsReview: the age of the first attempt is not tested.
NeedsReviewIgnoringAge ==
  delivery.state = "outcome_unknown" \/ quote.status \in TerminalDecisions

\* What a stale retry may no longer do by itself.
NeedsReview ==
  \/ delivery.state = "outcome_unknown"
  \/ delivery.window = "closed"
  \/ quote.status \in TerminalDecisions

StartsNewGeneration ==
  SameRevision /\ delivery.state = "failed" /\ delivery.window = "closed"

AlreadyAccepted == SameRevision /\ delivery.state = "provider_accepted"

PayloadChanged(payload) ==
  SameRevision /\ ~AlreadyAccepted /\ delivery.payload \notin {NoPayload, payload}

\* claimQuoteDelivery for an e-mail with this digest plans a manual review.
ClaimReviews(payload) ==
  \/ PayloadChanged(payload)
  \/ Locked /\ ~LeaseActive(delivery) /\ NeedsReview

\* claimQuoteDelivery for an e-mail with this digest takes the lease.
ClaimAcquires(payload) ==
  /\ ~AlreadyAccepted
  /\ ~PayloadChanged(payload)
  /\ ~(Locked /\ (LeaseActive(delivery) \/ NeedsReview))
  /\ quote.status \in Deliverable
  /\ StartsNewGeneration => delivery.gen < MaxGeneration

\* buildManualReviewDelivery
ManualReview == [delivery EXCEPT !.state = "outcome_unknown", !.lease = FALSE]

\* The record of an acquired claim.  Only a new generation of the same
\* revision forgets the message id that was observed before.
AcquiredDelivery(i, payload) ==
  [rev      |-> quote.rev,
   state    |-> "sending",
   gen      |-> IF ~SameRevision THEN 1
                ELSE IF StartsNewGeneration THEN delivery.gen + 1 ELSE delivery.gen,
   attempt  |-> i,
   payload  |-> payload,
   lease    |-> TRUE,
   window   |-> IF SameRevision /\ ~StartsNewGeneration /\ delivery.window # "none"
                THEN delivery.window ELSE "open",
   observed |-> IF StartsNewGeneration THEN NoInvocation ELSE delivery.observed,
   active   |-> FALSE]

\* buildQuoteDeliverySuccess, after the portal of the revision was validated.
DeliverySuccess(msg) ==
  [delivery EXCEPT !.state = "provider_accepted", !.lease = FALSE,
                   !.observed = msg, !.active = TRUE]

\* Mutant of AttemptFailure: the outcome is written where the state belongs.
AttemptFailureNamesOutcome(err, msg) ==
  [delivery EXCEPT !.state = IF err = "definite" THEN "failed" ELSE err, !.lease = FALSE]

\* planQuoteDeliveryAttemptFailure, with the message id when there is one.
AttemptFailure(err, msg) ==
  [delivery EXCEPT
     !.state = CASE err = "definite"      -> "failed"
                 [] err = "ambiguous"     -> "outcome_ambiguous"
                 [] err = "manual_review" -> "outcome_unknown",
     !.lease = FALSE,
     !.observed = IF err = "definite" \/ msg = NoInvocation THEN @ ELSE msg]

SentStatus(status) == IF status = "draft" THEN "sent" ELSE status

\* assertQuoteDeliveryPortalActivation: the customer has this very issuance.
PortalActivated ==
  /\ portal.valid /\ portal.shows = quote.rev
  /\ SameRevision /\ delivery.state = "provider_accepted" /\ delivery.active

-----------------------------------------------------------------------------
(* sendQuoteToCustomer.                                                     *)

\* The claim looks at an unresolved delivery first, with the digest it has.
StoredPlanAnswers ==
  Locked /\ (LeaseActive(delivery) \/ ClaimReviews(delivery.payload))

\* assertNoConflictingQuoteExecution and assertQuoteDeliveryPortal.
MaySend == ~quote.paying /\ portal.valid

ClaimForReview ==
  /\ \/ Locked /\ ClaimReviews(delivery.payload)
     \/ ~StoredPlanAnswers /\ MaySend /\ ClaimReviews(quote.payload)
  /\ delivery' = ManualReview
  /\ UNCHANGED <<quote, portal, mail, remembered, call>>

Claim(i) ==
  /\ call[i].pc = "idle"
  /\ ~StoredPlanAnswers /\ MaySend /\ ClaimAcquires(quote.payload)
  /\ delivery' = AcquiredDelivery(i, quote.payload)
  /\ call' = [call EXCEPT ![i] = [pc |-> "send", rev |-> quote.rev, gen |-> delivery'.gen,
                                  payload |-> quote.payload, msg |-> NoInvocation,
                                  err |-> ""]]
  /\ UNCHANGED <<quote, portal, mail, remembered>>

\* The provider takes a request: an e-mail leaves unless it knows the key.
ProviderAccepts(i) ==
  LET k == Key(call[i])
      m == [rev |-> k.rev, gen |-> k.gen, payload |-> call[i].payload, by |-> i]
  IN  /\ mail' = IF k \in remembered THEN mail ELSE mail \cup {m}
      /\ remembered' = remembered \cup {k}

Send(i) ==
  /\ call[i].pc = "send"
  /\ \/ \* it answers with the message id of the key
        /\ ProviderAccepts(i)
        /\ \E m \in mail' : /\ Key(m) = Key(call[i])
                            /\ call' = [call EXCEPT ![i].pc = "complete", ![i].msg = m.by]
     \/ \* the answer is lost, or has no message id
        /\ ProviderAccepts(i)
        /\ call' = [call EXCEPT ![i].pc = "record", ![i].err = "ambiguous"]
     \/ \* it did not take the request, or its configuration or the provider
        \* rejects it
        /\ \E err \in {"ambiguous", "definite"} :
             call' = [call EXCEPT ![i].pc = "record", ![i].err = err]
        /\ UNCHANGED <<mail, remembered>>
  /\ UNCHANGED <<quote, portal, delivery>>

\* Mutant of OwnsRecord: the state is not compared.
OwnsRecordWhateverState(i) == delivery.rev = call[i].rev /\ delivery.attempt = i

\* The attempt still owns the delivery record.
OwnsRecord(i) ==
  /\ delivery.rev = call[i].rev
  /\ delivery.attempt = i
  /\ delivery.state = "sending"

CompleteFails(i, err) == call' = [call EXCEPT ![i].pc = "record", ![i].err = err]

\* The completion transaction; a database error fails it as well.
Complete(i) ==
  /\ call[i].pc = "complete"
  /\ \/ /\ quote.rev = call[i].rev /\ portal.valid /\ OwnsRecord(i)
        /\ delivery' = DeliverySuccess(call[i].msg)
        /\ quote' = [quote EXCEPT !.status = SentStatus(@)]
        /\ portal' = [portal EXCEPT !.shows = quote.rev]
        /\ call' = [call EXCEPT ![i].pc = "done"]
     \/ /\ quote.rev = call[i].rev /\ portal.valid /\ AlreadyAccepted
        /\ call' = [call EXCEPT ![i].pc = "done"]
        /\ UNCHANGED <<quote, portal, delivery>>
     \/ /\ quote.rev = call[i].rev /\ ~portal.valid
        /\ CompleteFails(i, "manual_review")
        /\ UNCHANGED <<quote, portal, delivery>>
     \/ /\ CompleteFails(i, "ambiguous")
        /\ UNCHANGED <<quote, portal, delivery>>
  /\ UNCHANGED <<mail, remembered>>

\* The transaction of the catch block.
RecordOutcome(i) ==
  /\ call[i].pc = "record"
  /\ delivery' = IF OwnsRecord(i) THEN AttemptFailure(call[i].err, call[i].msg)
                                  ELSE delivery
  /\ call' = [call EXCEPT ![i].pc = "done"]
  /\ UNCHANGED <<quote, portal, mail, remembered>>

Die(i) ==
  /\ call[i].pc \in {"send", "complete", "record"}
  /\ call' = [call EXCEPT ![i].pc = "done"]
  /\ UNCHANGED <<quote, portal, delivery, mail, remembered>>

-----------------------------------------------------------------------------
(* resolveQuoteDeliveryOutcome.  An administrator who reconciles has        *)
(* checked the provider: the note is true, and no call of that key is under *)
(* way any more.  A repeated call rewrites what is there.                   *)

MayReconcile == Locked /\ ~LeaseActive(delivery)

MayConfirmNotSent == MayReconcile /\ delivery.observed = NoInvocation

MayConfirmAccepted(msg) == MayReconcile /\ delivery.observed \in {NoInvocation, msg}

ReconciledNotSent ==
  [rev |-> quote.rev, state |-> "reconciled_not_sent", gen |-> delivery.gen + 1,
   attempt |-> NoInvocation, payload |-> NoPayload, lease |-> FALSE,
   window |-> "none", observed |-> NoInvocation, active |-> FALSE]

ConfirmNotSent ==
  /\ MayConfirmNotSent
  /\ delivery.gen < MaxGeneration
  /\ MailsUnder(Key(delivery)) = {}
  /\ \A i \in Invocations : call[i].pc = "send" => Key(call[i]) # Key(delivery)
  /\ delivery' = ReconciledNotSent
  /\ UNCHANGED <<quote, portal, mail, remembered, call>>

ConfirmAccepted ==
  /\ \E m \in MailsUnder(Key(delivery)) :
       /\ MayConfirmAccepted(m.by)
       /\ delivery' = [DeliverySuccess(m.by) EXCEPT !.active = portal.valid]
  /\ quote' = [quote EXCEPT !.status = SentStatus(@)]
  /\ portal' = IF portal.valid THEN [portal EXCEPT !.shows = quote.rev] ELSE portal
  /\ UNCHANGED <<mail, remembered, call>>

-----------------------------------------------------------------------------
(* What else writes the quote and its portal.                               *)

\* Mutant of Reissue: the new issuance keeps the snapshot of the old one.
ReissueKeepsSnapshot(status, payload) ==
  /\ quote.rev < MaxRevision
  /\ ~Locked /\ ~quote.paying
  /\ quote' = [quote EXCEPT !.rev = @ + 1, !.status = status, !.payload = payload]
  /\ portal' = [portal EXCEPT !.valid = TRUE]
  /\ UNCHANGED <<delivery, mail, remembered, call>>

\* Mutant of Reissue: a running payment request is not looked for.
ReissueWhilePaying(status, payload) ==
  /\ quote.rev < MaxRevision
  /\ ~Locked
  /\ quote' = [quote EXCEPT !.rev = @ + 1, !.status = status, !.payload = payload]
  /\ portal' = [valid |-> TRUE, shows |-> 0]
  /\ UNCHANGED <<delivery, mail, remembered, call>>

\* A new issuance of the portal, which shows nothing yet.
Reissue(status, payload) ==
  /\ quote.rev < MaxRevision
  /\ ~Locked /\ ~quote.paying
  /\ quote' = [quote EXCEPT !.rev = @ + 1, !.status = status, !.payload = payload]
  /\ portal' = [valid |-> TRUE, shows |-> 0]
  /\ UNCHANGED <<delivery, mail, remembered, call>>

Edit(payload) == quote.status \in {"draft", "sent"} /\ Reissue("draft", payload)

Rotate(payload) == quote.status \in Deliverable /\ Reissue(quote.status, payload)

Reopen(payload) == quote.status = "expired" /\ Reissue("draft", payload)

SetStatus(status) ==
  /\ quote' = [quote EXCEPT !.status = status]
  /\ UNCHANGED <<portal, delivery, mail, remembered, call>>

\* acceptQuoteProposal, and the decline the database rules let a visitor
\* write while the portal shows the quote.
Decide ==
  /\ quote.status = "sent"
  /\ \/ PortalActivated /\ SetStatus("accepted")
     \/ portal.valid /\ portal.shows # 0 /\ ~Unresolved(delivery) /\ SetStatus("declined")

Book == quote.status = "accepted" /\ ~Locked /\ SetStatus("booked")

\* Staff may mark a quote expired; the rules refuse while one is unresolved.
Expire ==
  quote.status \in {"draft", "sent"} /\ ~Unresolved(delivery) /\ SetStatus("expired")

\* A payment request of the quote runs; its publication changes the e-mail.
BeginPayment ==
  /\ ~Locked /\ ~quote.paying
  /\ quote.status \in {"accepted", "booked"} /\ PortalActivated
  /\ quote' = [quote EXCEPT !.paying = TRUE]
  /\ UNCHANGED <<portal, delivery, mail, remembered, call>>

EndPayment(payload) ==
  /\ quote.paying
  /\ quote' = [quote EXCEPT !.paying = FALSE, !.payload = payload]
  /\ UNCHANGED <<portal, delivery, mail, remembered, call>>

\* The webhook clears a payment link, the sender's configuration changes.
ChangePayload(payload) ==
  /\ quote' = [quote EXCEPT !.payload = payload]
  /\ UNCHANGED <<portal, delivery, mail, remembered, call>>

-----------------------------------------------------------------------------
(* The clocks.                                                              *)

PortalLapses ==
  /\ portal.valid
  /\ portal' = [portal EXCEPT !.valid = FALSE]
  /\ UNCHANGED <<quote, delivery, mail, remembered, call>>

LeaseEnds ==
  /\ LeaseActive(delivery)
  /\ delivery' = [delivery EXCEPT !.lease = FALSE]
  /\ UNCHANGED <<quote, portal, mail, remembered, call>>

WindowCloses ==
  /\ delivery.window = "open"
  /\ delivery' = [delivery EXCEPT !.window = "closed"]
  /\ UNCHANGED <<quote, portal, mail, remembered, call>>

\* An hour after the window: every call of the key has ended.
KeyForgotten ==
  /\ delivery.window = "closed" /\ Key(delivery) \in remembered
  /\ \A i \in Invocations : call[i].pc = "send" => Key(call[i]) # Key(delivery)
  /\ remembered' = remembered \ {Key(delivery)}
  /\ UNCHANGED <<quote, portal, delivery, mail, call>>

Next ==
  \/ \E i \in Invocations : Claim(i) \/ Send(i) \/ Complete(i) \/ RecordOutcome(i) \/ Die(i)
  \/ ClaimForReview \/ ConfirmNotSent \/ ConfirmAccepted
  \/ \E p \in Payloads : Edit(p) \/ Rotate(p) \/ Reopen(p) \/ EndPayment(p) \/ ChangePayload(p)
  \/ Decide \/ Book \/ Expire \/ BeginPayment
  \/ PortalLapses \/ LeaseEnds \/ WindowCloses \/ KeyForgotten

Spec == Init /\ [][Next]_vars

-----------------------------------------------------------------------------
(* Properties.                                                              *)

\* Types of the documents, the provider and what the invocations remember.
TypeOK ==
  /\ quote \in Quotes
  /\ portal \in Portals
  /\ delivery \in Records
  /\ mail \subseteq Mails
  /\ remembered \subseteq [rev : Nat, gen : Nat]
  /\ call \in [Invocations -> Calls]

\* A key buys one e-mail: retries, killed invocations, review and new
\* generations never make the provider accept a second one under the same
\* key, and no request under it is for another text (claimQuoteDelivery's
\* window, generation and digest tests).
OneMailPerKey ==
  /\ \A m, n \in mail : Key(m) = Key(n) => m = n
  /\ \A m \in mail, i \in Invocations :
       call[i].pc = "send" /\ Key(call[i]) = Key(m) => call[i].payload = m.payload

\* The portal shows only the current issuance, and only after the provider
\* accepted the e-mail that carries its link.
PortalShowsWhatWasSent ==
  portal.shows # 0 =>
    /\ portal.shows = quote.rev
    /\ SameRevision /\ delivery.state = "provider_accepted" /\ delivery.active
    /\ \E m \in mail : m.rev = quote.rev

\* While a payment request runs, the issuance it was approved for stays the
\* one the customer received.
PaymentFollowsDelivery ==
  quote.paying => portal.shows = quote.rev /\ AlreadyAccepted

\* A recorded acceptance is final for its revision: no late attempt, retry
\* or reconciliation rewrites it.
AcceptanceIsFinal ==
  [][delivery.state = "provider_accepted" /\ delivery'.rev = delivery.rev
       => delivery' = [delivery EXCEPT !.window = delivery'.window]]_vars

\* An outcome that is unresolved when no lease protects it can be reconciled
\* with what the provider knows (docs/USER_MANUAL.md:1311).
ReviewIsPossible ==
  MayReconcile =>
    LET sent == MailsUnder(Key(delivery))
    IN  IF sent = {} THEN MayConfirmNotSent
                     ELSE \E m \in sent : MayConfirmAccepted(m.by)

=============================================================================
