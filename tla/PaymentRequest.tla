--------------------------- MODULE PaymentRequest ---------------------------
(***************************************************************************)
(* The approved payment-request saga of functions/index.js:                *)
(* sendApprovedPaymentRequestEmail and every helper it calls, for one      *)
(* quote, with any number of concurrent invocations, each of which may be  *)
(* killed at any point.                                                    *)
(*                                                                         *)
(* One invocation claims an approval, creates or restores a Stripe         *)
(* Checkout Session, stores it as a private preparation, records a         *)
(* dispatch attempt, asks the e-mail provider to send the link, records    *)
(* the provider's acceptance and only then publishes the link on the       *)
(* quote.  Each Firestore transaction and each provider call is one        *)
(* action; everything an invocation remembers between two of them is in    *)
(* worker[w].  Invocations are retried by the admin who began them.        *)
(*                                                                         *)
(* Abstractions.  The deposit rail is modelled; the final-balance rail     *)
(* runs the same code on a payment record of its own.  Of the approved     *)
(* scope (amount, customer, revision, portal) the portal key and its       *)
(* expiry vary here.  The quote's status stays "accepted" and no quote     *)
(* e-mail is being dispatched, so the guards on these never fire.  A       *)
(* Firestore call that fails without committing leaves what killing the    *)
(* invocation leaves, except where a step below says otherwise.            *)
(***************************************************************************)
EXTENDS PaymentCheckout

CONSTANTS Workers,     \* slots for concurrent invocations of the callable
          Admins,      \* administrators of the organization
          Approvals,   \* approval requests for send_payment_request
          NoApproval, NoAdmin,
          MaxPortal    \* bound: portal keys are 1 .. MaxPortal

ASSUME NoApprovalAssumption == NoApproval \notin Approvals
ASSUME NoAdminAssumption == NoAdmin \notin Admins
ASSUME MaxPortalAssumption == MaxPortal \in Nat \ {0}

VARIABLES
  payment,   \* quote.payment
  portal,    \* quote.portalKey and its activation window
  approval,  \* state and executionState of quote.workflow.approvalRequests
  scope,     \* the portal key an approval request was derived from
  exec,      \* approval execution documents with their private dispatch record
  stripe,    \* Stripe: the Checkout Sessions
  mail,      \* e-mail provider: the keys (one per approval) it has accepted
  worker     \* the invocations of the callable that are running

vars == <<payment, portal, approval, scope, exec, stripe, mail, worker>>

ApprovalStates == {"none", "pending", "rejected", "awaiting",
                   "in_progress", "succeeded", "failed"}

Preparations == [session  : Sessions \cup {NoSession},
                 gen      : Nat,
                 expected : Payments,
                 reused   : BOOLEAN]

NoPreparation == [session |-> NoSession, gen |-> 0,
                  expected |-> UnpaidQuote, reused |-> FALSE]

Prepares(p) == p.session # NoSession

\* preparedPayment and publishedPayment of a preparation: of a checkout that
\* is already published both are the stored record itself.
PreparedOf(p)  == IF p.reused THEN p.expected ELSE PreparedPayment(p.session, p.gen)
PublishedOf(p) == IF p.reused THEN p.expected ELSE PublishedPayment(p.session, p.gen)

Executions == [state    : {"none", "in_progress", "succeeded", "failed"},
               owner    : Admins \cup {NoAdmin},
               prep     : Preparations,
               dispatch : DispatchStates,
               stale    : BOOLEAN,   \* 15 minutes passed since lastAttemptAtISO
               review   : BOOLEAN]   \* result.manualReviewRequired

NoExecution == [state |-> "none", owner |-> NoAdmin, prep |-> NoPreparation,
                dispatch |-> "none", stale |-> FALSE, review |-> FALSE]

SessionRecords == [status : SessionStates, portal : 0 .. MaxPortal, gen : Nat,
                   appr : Approvals \cup {NoApproval}, async : BOOLEAN]

UnusedSession == [status |-> "unused", portal |-> 0, gen |-> 0,
                  appr |-> NoApproval, async |-> FALSE]

WorkerPCs == {"idle", "close_unprepared", "prepare", "discard", "persist",
              "restore", "dispatch", "send", "record", "complete", "catch",
              "claim_recovery", "recover_stripe", "recover_close",
              "record_failure", "close_accepted", "neutralize",
              "mark_expired", "advance", "check_resolved", "mark_failed"}

Invocations == [pc : WorkerPCs,
                appr : Approvals \cup {NoApproval},
                admin : Admins \cup {NoAdmin},
                pay : Payments,               \* the claimed quote's payment
                prep : Preparations,          \* checkoutPreparation
                disp : DispatchStates,        \* paymentDispatch, as last seen
                portalExpired : BOOLEAN,      \* paymentPortalExpired
                accepted : BOOLEAN,           \* providerAccepted
                uncertain : BOOLEAN,          \* executionStateUncertain
                err : Errors,
                obs : {""} \cup SessionStates] \* Stripe's answer in recovery

Idle == [pc |-> "idle", appr |-> NoApproval, admin |-> NoAdmin,
         pay |-> UnpaidQuote, prep |-> NoPreparation, disp |-> "none",
         portalExpired |-> FALSE, accepted |-> FALSE, uncertain |-> FALSE,
         err |-> "", obs |-> ""]

Init ==
  /\ payment = UnpaidQuote
  /\ portal = [key |-> 1, expired |-> FALSE]
  /\ approval = [a \in Approvals |-> "none"]
  /\ scope = [a \in Approvals |-> 0]
  /\ exec = [a \in Approvals |-> NoExecution]
  /\ stripe = [s \in Sessions |-> UnusedSession]
  /\ mail = [a \in Approvals |-> FALSE]
  /\ worker = [w \in Workers |-> Idle]

-----------------------------------------------------------------------------
(* Shared pieces of the transactions.                                      *)

\* derivePaymentRequestApprovalScope: it throws unless this holds.
ScopeDerivable(allowSettled, allowExpired) ==
  /\ IF Settled(payment) THEN allowSettled
                         ELSE PlanDepositCheckout(payment) # "refuse"
  /\ portal.expired => allowExpired

\* assertPaymentApprovalRequestScope: the digest still matches.
ScopeMatches(a) == scope[a] = portal.key

At(w, pc) == worker[w].pc = pc

Goto(w, pc) == worker' = [worker EXCEPT ![w].pc = pc]

Throw(w, e) == worker' = [worker EXCEPT ![w].pc = "catch", ![w].err = e]

Return(w) == worker' = [worker EXCEPT ![w] = Idle]

InProgress(a) == exec[a].state = "in_progress"

OwnedBy(w) == exec[worker[w].appr].owner = worker[w].admin

\* buildApprovalExecutionOutcome and the execution audit of one transaction.
Finish(a, outcome) ==
  /\ approval' = [approval EXCEPT ![a] = outcome]
  /\ exec' = [exec EXCEPT ![a].state = outcome]

\* assertNoInProgressPaymentDispatch.
NoInProgressDispatch == \A a \in Approvals : approval[a] # "in_progress"

-----------------------------------------------------------------------------
(* requestQuoteApproval and resolveQuoteApprovalRequest.                    *)

RequestApproval(a) ==
  /\ approval[a] = "none"
  /\ \A b \in Approvals : approval[b] \notin {"pending", "awaiting", "in_progress"}
  /\ ScopeDerivable(FALSE, FALSE)
  /\ approval' = [approval EXCEPT ![a] = "pending"]
  /\ scope' = [scope EXCEPT ![a] = portal.key]
  /\ UNCHANGED <<payment, portal, exec, stripe, mail, worker>>

ResolveApproval(a) ==
  /\ approval[a] = "pending"
  /\ \/ /\ ScopeDerivable(FALSE, FALSE) /\ ScopeMatches(a)
        /\ approval' = [approval EXCEPT ![a] = "awaiting"]
     \/ approval' = [approval EXCEPT ![a] = "rejected"]
  /\ UNCHANGED <<payment, portal, scope, exec, stripe, mail, worker>>

-----------------------------------------------------------------------------
(* The claim transaction.  A call that finds the execution closed, or owned *)
(* by another administrator, returns or throws without effect.              *)

MayClaim(a, adm) ==
  \/ exec[a].state = "none" /\ approval[a] = "awaiting"
  \/ InProgress(a) /\ exec[a].owner = adm

ClaimScopeHolds(a) ==
  /\ ScopeDerivable(exec[a].state # "none", Prepares(exec[a].prep))
  /\ ScopeMatches(a)

Claim(w, a, adm) ==
  /\ At(w, "idle")
  /\ MayClaim(a, adm)
  /\ ClaimScopeHolds(a)
  /\ IF exec[a].state = "none"
       THEN /\ exec' = [exec EXCEPT ![a].state = "in_progress", ![a].owner = adm]
            /\ approval' = [approval EXCEPT ![a] = "in_progress"]
       ELSE UNCHANGED <<exec, approval>>
  /\ worker' = [worker EXCEPT ![w] =
       [Idle EXCEPT !.pc = IF Prepares(exec[a].prep) THEN "restore" ELSE "prepare",
                    !.appr = a, !.admin = adm, !.pay = payment,
                    !.prep = exec[a].prep, !.disp = exec[a].dispatch,
                    !.portalExpired = portal.expired]]
  /\ UNCHANGED <<payment, portal, scope, stripe, mail>>

ClaimRefused(w, a, adm) ==
  /\ At(w, "idle")
  /\ MayClaim(a, adm)
  /\ ~ClaimScopeHolds(a)
  /\ worker' = [worker EXCEPT ![w] = [Idle EXCEPT !.pc = "close_unprepared",
                                                  !.appr = a, !.admin = adm]]
  /\ UNCHANGED <<payment, portal, approval, scope, exec, stripe, mail>>

\* finalizeUnpreparedPaymentExecutionFailure.
CloseUnprepared(w) ==
  LET a == worker[w].appr
  IN  /\ At(w, "close_unprepared")
      /\ IF \/ /\ InProgress(a) /\ OwnedBy(w)
               /\ ~Prepares(exec[a].prep) /\ exec[a].dispatch = "none"
            \/ exec[a].state = "none" /\ approval[a] = "awaiting"
           THEN /\ approval' = [approval EXCEPT ![a] = "failed"]
                /\ exec' = [exec EXCEPT ![a].state = "failed",
                                        ![a].owner = worker[w].admin]
           ELSE UNCHANGED <<approval, exec>>
      /\ Return(w)
      /\ UNCHANGED <<payment, portal, scope, stripe, mail>>

-----------------------------------------------------------------------------
(* prepareCheckoutForApprovedSend, on the claimed (possibly stale) quote.   *)

\* An existing published checkout that Stripe still reports open is reused.
PrepareReuse(w) ==
  LET p == worker[w].pay
  IN  /\ At(w, "prepare")
      /\ PlanDepositCheckout(p) = "inspect_existing"
      /\ stripe[p.session].status = "open"
      /\ stripe[p.session].portal = scope[worker[w].appr]
      /\ worker' = [worker EXCEPT ![w].pc = "persist",
                      ![w].prep = [session |-> p.session, gen |-> p.gen,
                                   expected |-> p, reused |-> TRUE]]
      /\ UNCHANGED <<payment, portal, approval, scope, exec, stripe, mail>>

PrepareRefused(w) ==
  LET p == worker[w].pay
  IN  /\ At(w, "prepare")
      /\ \/ /\ PlanDepositCheckout(p) \in {"refuse", "inspect_prepared"}
            /\ Throw(w, "definite")
         \/ /\ PlanDepositCheckout(p) = "inspect_existing"
            /\ \/ stripe[p.session].portal # scope[worker[w].appr]
               \/ stripe[p.session].status \in {"paid", "processing", "failed"}
            /\ Throw(w, "definite")
         \/ /\ PlanDepositCheckout(p) = "inspect_existing"
            /\ Throw(w, "network")
      /\ UNCHANGED <<payment, portal, approval, scope, exec, stripe, mail>>

NeedsNewSession(w) ==
  LET p == worker[w].pay
  IN  /\ At(w, "prepare")
      /\ \/ PlanDepositCheckout(p) = "create"
         \/ /\ PlanDepositCheckout(p) = "inspect_existing"
            /\ stripe[p.session].portal = scope[worker[w].appr]
            /\ stripe[p.session].status = "expired"

\* The sessions created under this invocation's Stripe idempotency key.
SameKey(w) ==
  {s \in Sessions : /\ stripe[s].status # "unused"
                    /\ stripe[s].portal = scope[worker[w].appr]
                    /\ stripe[s].gen = worker[w].pay.gen + 1}

\* What the code does with the session a creation call returned: building the
\* prepared record throws when it would replace a record with a shown link.
Adopt(w, s) ==
  IF PreparedSource(worker[w].pay)
    THEN worker' = [worker EXCEPT ![w].pc = "persist",
                      ![w].prep = [session |-> s, gen |-> worker[w].pay.gen + 1,
                                   expected |-> worker[w].pay, reused |-> FALSE]]
    ELSE Throw(w, "definite")

CreateSession(w) ==
  /\ NeedsNewSession(w)
  /\ SameKey(w) = {}
  /\ \E s \in Sessions :
       /\ stripe[s].status = "unused"
       /\ stripe' = [stripe EXCEPT ![s] =
                       [status |-> "open", portal |-> scope[worker[w].appr],
                        gen |-> worker[w].pay.gen + 1,
                        appr |-> worker[w].appr, async |-> FALSE]]
       /\ Adopt(w, s) \/ Throw(w, "prep_ambiguous")
  /\ UNCHANGED <<payment, portal, approval, scope, exec, mail>>

\* Stripe replays the stored answer for the key, whatever became of the
\* session since; with other parameters it answers with an idempotency error.
ReplaySession(w) ==
  /\ NeedsNewSession(w)
  /\ \E s \in SameKey(w) :
       IF stripe[s].appr = worker[w].appr
         THEN \/ Adopt(w, s)
              \/ /\ stripe[s].status = "expired"   \* the replayed expires_at is past
                 /\ Goto(w, "discard")
         ELSE Throw(w, "prep_ambiguous")
  /\ UNCHANGED <<payment, portal, approval, scope, exec, stripe, mail>>

CreateSessionFails(w) ==
  /\ NeedsNewSession(w)
  /\ Throw(w, "prep_ambiguous") \/ Throw(w, "definite")
  /\ UNCHANGED <<payment, portal, approval, scope, exec, stripe, mail>>

\* The created session failed validation and Stripe reports it expired:
\* advanceCheckoutGenerationIfUnchanged burns its generation.
DiscardCreated(w) ==
  /\ At(w, "discard")
  /\ IF payment = worker[w].pay
       THEN /\ payment' = [payment EXCEPT !.gen = @ + 1]
            /\ Throw(w, "definite")
       ELSE /\ Throw(w, "prep_ambiguous")
            /\ UNCHANGED payment
  /\ UNCHANGED <<portal, approval, scope, exec, stripe, mail>>

-----------------------------------------------------------------------------
(* persistApprovedCheckoutPreparation, with the read of                     *)
(* recoverPersistedApprovedCheckoutPreparation that follows a failure.      *)

PaymentAllowsPersist(p) ==
  IF p.reused THEN payment = p.expected
              ELSE payment \in {p.expected, PreparedOf(p)}

Persist(w) ==
  LET a == worker[w].appr
      p == worker[w].prep
  IN  /\ At(w, "persist")
      /\ InProgress(a) /\ OwnedBy(w)
      /\ IF Prepares(exec[a].prep)
           THEN /\ worker' = [worker EXCEPT ![w].pc = "restore", ![w].prep = exec[a].prep]
                /\ UNCHANGED <<payment, exec>>
           ELSE /\ ScopeDerivable(FALSE, FALSE) /\ ScopeMatches(a)
                /\ PaymentAllowsPersist(p)
                /\ payment' = PreparedOf(p)
                /\ exec' = [exec EXCEPT ![a].prep = p]
                /\ Goto(w, "restore")
      /\ UNCHANGED <<portal, approval, scope, stripe, mail>>

PersistFails(w) ==
  LET a == worker[w].appr
  IN  /\ At(w, "persist")
      /\ \/ /\ ~(InProgress(a) /\ OwnedBy(w))
            /\ Throw(w, IF Prepares(exec[a].prep) THEN "prep_ambiguous" ELSE "aborted")
         \/ /\ InProgress(a) /\ OwnedBy(w) /\ ~Prepares(exec[a].prep)
            /\ \/ portal.expired /\ Throw(w, "prep_ambiguous")
               \/ /\ \/ ~ScopeDerivable(FALSE, TRUE)
                     \/ ~portal.expired /\ ~ScopeMatches(a)
                     \/ ~portal.expired /\ ~PaymentAllowsPersist(worker[w].prep)
                  /\ Throw(w, "definite")
               \/ Throw(w, "prep_ambiguous")     \* the transaction did not commit
      /\ UNCHANGED <<payment, portal, approval, scope, exec, stripe, mail>>

-----------------------------------------------------------------------------
(* restoreApprovedCheckoutPreparation and the portal guard after it.        *)

Restore(w) ==
  LET st == stripe[worker[w].prep.session].status
  IN  /\ At(w, "restore")
      /\ \/ st = "expired" /\ Throw(w, "expired")
         \/ /\ st # "expired"
            /\ IF worker[w].portalExpired /\ worker[w].disp # "provider_accepted"
                 THEN Throw(w, "definite")
                 ELSE Goto(w, "dispatch")
         \/ Throw(w, "network")
      /\ UNCHANGED <<payment, portal, approval, scope, exec, stripe, mail>>

\* claimPaymentDispatchAttempt.
ClaimDispatch(w) ==
  LET a == worker[w].appr
  IN  /\ At(w, "dispatch")
      /\ IF ~InProgress(a)
           THEN Throw(w, "definite") /\ UNCHANGED exec
           ELSE CASE exec[a].dispatch = "provider_accepted" ->
                       /\ worker' = [worker EXCEPT ![w].pc = "complete",
                                       ![w].disp = "provider_accepted", ![w].accepted = TRUE]
                       /\ UNCHANGED exec
                  [] exec[a].dispatch = "recovery_claimed" ->
                       Throw(w, "aborted") /\ UNCHANGED exec
                  [] exec[a].dispatch = "definite_failure" ->
                       Throw(w, "definite") /\ UNCHANGED exec
                  [] MayBeginAttempt(exec[a].dispatch) ->
                       /\ exec' = [exec EXCEPT ![a].dispatch = "sending",
                                               ![a].stale = FALSE]
                       /\ worker' = [worker EXCEPT ![w].pc = "send",
                                                   ![w].disp = "sending"]
      /\ UNCHANGED <<payment, portal, approval, scope, stripe, mail>>

\* Mutant of Send: an unanswered request is taken for an accepted one.
SendTrustsSilence(w) ==
  /\ At(w, "send")
  /\ \/ /\ mail' = [mail EXCEPT ![worker[w].appr] = TRUE]
        /\ worker' = [worker EXCEPT ![w].pc = "record", ![w].accepted = TRUE]
     \/ /\ worker' = [worker EXCEPT ![w].pc = "record", ![w].accepted = TRUE]
        /\ UNCHANGED mail
  /\ UNCHANGED <<payment, portal, approval, scope, exec, stripe>>

\* sendCustomerEmail: the provider keeps one message per idempotency key, and
\* does not refuse a request it has accepted under its key before.
Send(w) ==
  /\ At(w, "send")
  /\ \/ /\ mail' = [mail EXCEPT ![worker[w].appr] = TRUE]
        /\ \/ worker' = [worker EXCEPT ![w].pc = "record", ![w].accepted = TRUE]
           \/ Throw(w, "mail_ambiguous")         \* accepted, the answer is lost
     \/ Throw(w, "mail_ambiguous") /\ UNCHANGED mail
     \/ /\ ~mail[worker[w].appr]
        /\ Throw(w, "mail_rejected") /\ UNCHANGED mail
  /\ UNCHANGED <<payment, portal, approval, scope, exec, stripe>>

\* recordPaymentDispatchAcceptance; it does not look at execution.state.
RecordAcceptance(w) ==
  LET a == worker[w].appr
  IN  /\ At(w, "record")
      /\ IF exec[a].dispatch \in {"sending", "provider_accepted"}
           THEN /\ exec' = [exec EXCEPT ![a].dispatch = "provider_accepted"]
                /\ worker' = [worker EXCEPT ![w].pc = "complete",
                                            ![w].disp = "provider_accepted"]
           ELSE Throw(w, "definite") /\ UNCHANGED exec
      /\ UNCHANGED <<payment, portal, approval, scope, stripe, mail>>

-----------------------------------------------------------------------------
(* The completion transaction: publish the link and close the execution.    *)

SamePreparedSession(w) == payment.session = worker[w].prep.session

\* The provider's answer is already on the record: nothing is published.
ProviderTruthObserved(w) ==
  /\ SamePreparedSession(w)
  /\ Settled(payment) \/ payment.checkout \in {"processing", "failed", "expired"}

\* assertPreparedCheckoutPublicationTransition, or the check of a checkout
\* that was already published.
PublicationAllowed(w) ==
  IF worker[w].prep.reused THEN SamePreparedSession(w) /\ payment.link
  ELSE payment \in {PreparedOf(worker[w].prep), PublishedOf(worker[w].prep)}

MayComplete(w) ==
  LET a == worker[w].appr
  IN  /\ InProgress(a)
      /\ exec[a].dispatch = "provider_accepted"
      /\ ScopeDerivable(TRUE, worker[w].portalExpired)
      /\ ScopeMatches(a)
      /\ ProviderTruthObserved(w) \/ PublicationAllowed(w)

\* A refusal throws after the provider accepted, which leaves the execution
\* resumable and changes nothing.
Complete(w) ==
  /\ At(w, "complete")
  /\ IF MayComplete(w)
       THEN /\ payment' = IF ProviderTruthObserved(w) \/ worker[w].prep.reused
                            THEN payment ELSE PublishedOf(worker[w].prep)
            /\ Finish(worker[w].appr, "succeeded")
       ELSE UNCHANGED <<payment, approval, exec>>
  /\ Return(w)
  /\ UNCHANGED <<portal, scope, stripe, mail>>

-----------------------------------------------------------------------------
(* The catch block of the saga.                                             *)

\* Mutants of CleanupPC: the record is closed without the session, or the
\* execution without either.
CleanupPCWithoutStripe(w) ==
  IF worker[w].uncertain \/ worker[w].err = "prep_ambiguous" THEN "idle"
  ELSE IF Prepares(worker[w].prep) /\ ~worker[w].prep.reused THEN "mark_expired"
  ELSE "mark_failed"

CleanupPCWithoutCleanup(w) ==
  IF worker[w].uncertain \/ worker[w].err = "prep_ambiguous" THEN "idle" ELSE "mark_failed"

\* What remains to be done of an execution whose dispatch is settled or was
\* never begun: close the Stripe session, then the execution.
CleanupPC(w) ==
  IF worker[w].uncertain \/ worker[w].err = "prep_ambiguous" THEN "idle"
  ELSE IF Prepares(worker[w].prep) /\ ~worker[w].prep.reused THEN "neutralize"
  ELSE "mark_failed"

\* "idle" stands for the throw that keeps the execution resumable.
Proceed(w, pc) == IF pc = "idle" THEN Return(w) ELSE Goto(w, pc)

RecoverableDispatch(w) ==
  /\ worker[w].portalExpired
  /\ Prepares(worker[w].prep)
  /\ worker[w].disp \in {"sending", "outcome_ambiguous", "recovery_claimed"}

Catch(w) ==
  /\ At(w, "catch")
  /\ \E readFails \in BOOLEAN :
       IF worker[w].accepted \/ (~readFails /\ ~InProgress(worker[w].appr))
         THEN Return(w)
         ELSE LET v == [worker[w] EXCEPT !.uncertain = readFails]
              IN  worker' = [worker EXCEPT ![w] =
                    IF RecoverableDispatch(w) THEN [v EXCEPT !.pc = "claim_recovery"]
                    ELSE IF v.disp # "none" THEN [v EXCEPT !.pc = "record_failure"]
                    ELSE IF readFails \/ CleanupPC(w) = "idle" THEN Idle
                    ELSE [v EXCEPT !.pc = CleanupPC(w)]]
  /\ UNCHANGED <<payment, portal, approval, scope, exec, stripe, mail>>

\* claimExpiredPortalPaymentDispatchRecovery.
ClaimRecovery(w) ==
  LET a == worker[w].appr
      action == PlanExpiredPortalRecovery(exec[a].dispatch, exec[a].stale)
  IN  /\ At(w, "claim_recovery")
      /\ IF ~InProgress(a) \/ ~OwnedBy(w) \/ action = "wait"
           THEN Return(w) /\ UNCHANGED exec
           ELSE IF action = "recover"
             THEN /\ exec' = [exec EXCEPT ![a].dispatch = "recovery_claimed"]
                  /\ worker' = [worker EXCEPT ![w].pc = "recover_stripe",
                                              ![w].disp = "recovery_claimed"]
             ELSE /\ IF exec[a].dispatch \in {"provider_accepted", "definite_failure"}
                       THEN worker' = [worker EXCEPT ![w].pc = "record_failure",
                                                     ![w].disp = exec[a].dispatch]
                       ELSE Return(w)
                  /\ UNCHANGED exec
      /\ UNCHANGED <<payment, portal, approval, scope, stripe, mail>>

\* Mutant of RecoverStripe: a call to expire the session that fails is
\* taken for one that succeeded.
RecoverStripeTrustsExpire(w) ==
  LET s == worker[w].prep.session
      Observe(o) == worker' = [worker EXCEPT ![w].pc = "recover_close", ![w].obs = o]
  IN  /\ At(w, "recover_stripe")
      /\ \/ stripe[s].status # "open" /\ Observe(stripe[s].status)
         \/ stripe[s].status = "open" /\ Observe("expired")
      /\ UNCHANGED <<payment, portal, approval, scope, exec, stripe, mail>>

\* finalizeExpiredPortalAmbiguousDispatch, before its transaction: retrieve,
\* expire when open, retrieve again.  Any of the calls may fail.
RecoverStripe(w) ==
  LET s == worker[w].prep.session
      Observe(o) == worker' = [worker EXCEPT ![w].pc = "recover_close", ![w].obs = o]
  IN  /\ At(w, "recover_stripe")
      /\ \/ Observe("") /\ UNCHANGED stripe
         \/ Observe(stripe[s].status) /\ UNCHANGED stripe
         \/ /\ stripe[s].status = "open"
            /\ stripe' = [stripe EXCEPT ![s].status = "expired"]
            /\ Observe("expired") \/ Observe("open")
      /\ UNCHANGED <<payment, portal, approval, scope, exec, mail>>

\* Its transaction.
RecoverClose(w) ==
  LET a == worker[w].appr
      p == worker[w].prep
      next == IF /\ Actionable(worker[w].obs)
                 /\ TransitionApplies(payment, p.session, worker[w].obs)
                THEN PatchedPayment(payment, worker[w].obs) ELSE payment
      resolved == Settled(next) \/ next.checkout \in {"paid", "failed", "expired"}
  IN  /\ At(w, "recover_close")
      /\ IF /\ InProgress(a) /\ exec[a].dispatch = "recovery_claimed"
            /\ payment.session = p.session /\ payment.gen = p.gen
           THEN /\ payment' = next
                /\ approval' = [approval EXCEPT ![a] = "failed"]
                /\ exec' = [exec EXCEPT ![a].state = "failed", ![a].review = ~resolved]
           ELSE UNCHANGED <<payment, approval, exec>>
      /\ Return(w)
      /\ UNCHANGED <<portal, scope, stripe, mail>>

\* recordPaymentDispatchFailure.  When the execution is no longer in progress
\* it returns no plan, and the invocation goes on to the cleanup.
RecordFailure(w) ==
  LET a == worker[w].appr
      d == exec[a].dispatch
      next == DispatchAfterFailure(worker[w].err)
  IN  /\ At(w, "record_failure")
      /\ CASE ~InProgress(a) \/ d = "definite_failure" ->
                 Proceed(w, CleanupPC(w)) /\ UNCHANGED exec
           [] InProgress(a) /\ d = "sending" ->
                 /\ exec' = [exec EXCEPT ![a].dispatch = next]
                 /\ Proceed(w, IF next = "definite_failure" THEN CleanupPC(w) ELSE "idle")
           [] InProgress(a) /\ d = "provider_accepted" ->
                 /\ Proceed(w, IF worker[w].err = "expired" THEN "close_accepted" ELSE "idle")
                 /\ UNCHANGED exec
           [] OTHER -> Return(w) /\ UNCHANGED exec
      /\ UNCHANGED <<payment, portal, approval, scope, stripe, mail>>

\* finalizeProviderAcceptedExpiredCheckout.
CloseAccepted(w) ==
  LET a == worker[w].appr
      p == worker[w].prep
      next == IF TransitionApplies(payment, p.session, "expired")
                THEN ExpiredPayment(payment) ELSE payment
  IN  /\ At(w, "close_accepted")
      /\ IF /\ InProgress(a) /\ exec[a].dispatch = "provider_accepted"
            /\ payment.session = p.session /\ payment.gen = p.gen
            /\ ~Settled(payment) /\ next.checkout = "expired"
           THEN payment' = next /\ Finish(a, "failed")
           ELSE UNCHANGED <<payment, approval, exec>>
      /\ Return(w)
      /\ UNCHANGED <<portal, scope, stripe, mail>>

\* neutralizeRejectedStripeCheckout.
Neutralize(w) ==
  LET s == worker[w].prep.session
  IN  /\ At(w, "neutralize")
      /\ \/ /\ stripe[s].status = "expired"
            /\ Goto(w, "mark_expired") /\ UNCHANGED stripe
         \/ /\ stripe[s].status = "open"
            /\ stripe' = [stripe EXCEPT ![s].status = "expired"]
            /\ Goto(w, "mark_expired") \/ Return(w)    \* or the answer is lost
         \/ Return(w) /\ UNCHANGED stripe              \* completed, or unreachable
      /\ UNCHANGED <<payment, portal, approval, scope, exec, mail>>

\* markPreparedCheckoutExpiredIfUnchanged.
MarkExpired(w) ==
  /\ At(w, "mark_expired")
  /\ IF payment = PreparedOf(worker[w].prep)
       THEN payment' = ExpiredPayment(payment) /\ Goto(w, "mark_failed")
       ELSE UNCHANGED payment /\ Goto(w, "advance")
  /\ UNCHANGED <<portal, approval, scope, exec, stripe, mail>>

\* advanceCheckoutGenerationIfUnchanged.
Advance(w) ==
  LET p == worker[w].prep
  IN  /\ At(w, "advance")
      /\ IF payment = p.expected /\ p.gen = p.expected.gen + 1
           THEN payment' = [payment EXCEPT !.gen = p.gen] /\ Goto(w, "mark_failed")
           ELSE UNCHANGED payment /\ Goto(w, "check_resolved")
      /\ UNCHANGED <<portal, approval, scope, exec, stripe, mail>>

\* isCheckoutCleanupStateResolved.
CleanupResolved(p) ==
  \/ Settled(payment)
  \/ IF payment.session = p.session /\ payment.gen = p.gen
       THEN ~payment.link /\ Terminal(payment)
       ELSE payment.gen >= p.gen /\ payment.session # p.session

CheckResolved(w) ==
  /\ At(w, "check_resolved")
  /\ IF CleanupResolved(worker[w].prep) THEN Goto(w, "mark_failed") ELSE Return(w)
  /\ UNCHANGED <<payment, portal, approval, scope, exec, stripe, mail>>

MarkFailed(w) ==
  LET a == worker[w].appr
  IN  /\ At(w, "mark_failed")
      /\ IF InProgress(a) THEN Finish(a, "failed") ELSE UNCHANGED <<approval, exec>>
      /\ Return(w)
      /\ UNCHANGED <<payment, portal, scope, stripe, mail>>

\* The function instance is killed; at the latest when its 60 s run out.
Die(w) ==
  /\ ~At(w, "idle")
  /\ Return(w)
  /\ UNCHANGED <<payment, portal, approval, scope, exec, stripe, mail>>

-----------------------------------------------------------------------------
(* The surroundings: time, the customer and Stripe.                         *)

SessionTimesOut(s) ==
  /\ stripe[s].status = "open"
  /\ stripe' = [stripe EXCEPT ![s].status = "expired"]
  /\ UNCHANGED <<payment, portal, approval, scope, exec, mail, worker>>

\* The customer holds the link: by e-mail, or on the portal.
Exposed(s) ==
  \/ \E a \in Approvals : mail[a] /\ exec[a].prep.session = s
  \/ payment.link /\ payment.session = s

CustomerPays(s) ==
  /\ stripe[s].status = "open"
  /\ Exposed(s)
  /\ \/ stripe' = [stripe EXCEPT ![s].status = "paid"]
     \/ stripe' = [stripe EXCEPT ![s].status = "processing", ![s].async = TRUE]
  /\ UNCHANGED <<payment, portal, approval, scope, exec, mail, worker>>

AsyncPaymentSettles(s) ==
  /\ stripe[s].status = "processing"
  /\ \E st \in {"paid", "failed"} : stripe' = [stripe EXCEPT ![s].status = st]
  /\ UNCHANGED <<payment, portal, approval, scope, exec, mail, worker>>

PortalExpires ==
  /\ ~portal.expired
  /\ portal' = [portal EXCEPT !.expired = TRUE]
  /\ UNCHANGED <<payment, approval, scope, exec, stripe, mail, worker>>

\* PAYMENT_DISPATCH_RECOVERY_STALE_MS is 15 minutes; no invocation lives long
\* enough to be still sending by then.
DispatchGoesStale(a) ==
  /\ exec[a].dispatch = "sending" /\ ~exec[a].stale
  /\ \A w \in Workers : worker[w].appr = a => worker[w].pc \notin {"send", "record"}
  /\ exec' = [exec EXCEPT ![a].stale = TRUE]
  /\ UNCHANGED <<payment, portal, approval, scope, stripe, mail, worker>>

-----------------------------------------------------------------------------
\* The steps of a running invocation.
Step(w) ==
  \/ CloseUnprepared(w) \/ PrepareReuse(w) \/ PrepareRefused(w)
  \/ CreateSession(w) \/ ReplaySession(w) \/ CreateSessionFails(w)
  \/ DiscardCreated(w) \/ Persist(w) \/ PersistFails(w) \/ Restore(w)
  \/ ClaimDispatch(w) \/ Send(w) \/ RecordAcceptance(w) \/ Complete(w)
  \/ Catch(w) \/ ClaimRecovery(w) \/ RecoverStripe(w) \/ RecoverClose(w)
  \/ RecordFailure(w) \/ CloseAccepted(w) \/ Neutralize(w) \/ MarkExpired(w)
  \/ Advance(w) \/ CheckResolved(w) \/ MarkFailed(w)

Environment ==
  \/ \E s \in Sessions : SessionTimesOut(s) \/ CustomerPays(s) \/ AsyncPaymentSettles(s)
  \/ PortalExpires
  \/ \E a \in Approvals : DispatchGoesStale(a)

Next ==
  \/ \E a \in Approvals : RequestApproval(a) \/ ResolveApproval(a)
  \/ \E w \in Workers, a \in Approvals, adm \in Admins :
       Claim(w, a, adm) \/ ClaimRefused(w, a, adm)
  \/ \E w \in Workers : Step(w) \/ Die(w)
  \/ Environment

Spec == Init /\ [][Next]_vars

-----------------------------------------------------------------------------
(* Every variable holds what the program can store in it.                   *)
TypeOK ==
  /\ payment \in Payments
  /\ portal \in [key : 1 .. MaxPortal, expired : BOOLEAN]
  /\ approval \in [Approvals -> ApprovalStates]
  /\ scope \in [Approvals -> 0 .. MaxPortal]
  /\ exec \in [Approvals -> Executions]
  /\ stripe \in [Sessions -> SessionRecords]
  /\ mail \in [Approvals -> BOOLEAN]
  /\ worker \in [Workers -> Invocations]

InvocationOK(w) ==
  LET v == worker[w]
  IN  /\ v.pc # "idle" => v.appr \in Approvals
      /\ v.pc \in {"persist", "claim_recovery", "recover_stripe", "recover_close"} =>
           Prepares(v.prep)
      /\ v.pc \in {"restore", "dispatch", "send", "record", "complete"} =>
           Prepares(v.prep) /\ v.prep = exec[v.appr].prep
      /\ v.pc = "record" => mail[v.appr]
      /\ v.pc = "discard" => ~Settled(v.pay)
      /\ v.pc \in {"neutralize", "mark_expired", "advance"} => ~v.prep.reused
      /\ ~Settled(v.prep.expected)

ExecutionOK(a) ==
  /\ exec[a].dispatch # "none" => Prepares(exec[a].prep)
  /\ exec[a].dispatch = "provider_accepted" => mail[a]
  /\ ~Settled(exec[a].prep.expected)

(* However the invocations of an approval overlap, each works on the          *)
(* preparation that is stored, its e-mail is only recorded as accepted when   *)
(* the provider accepted it, and a preparation never replaces a settled       *)
(* deposit (index.js:27600, 4388, 4469).                                      *)
SagaInv ==
  /\ \A w \in Workers : InvocationOK(w)
  /\ \A a \in Approvals : ExecutionOK(a)

(* The link is on the quote, and so on the portal, only after the e-mail     *)
(* provider accepted the message that carries it and the acceptance was      *)
(* recorded on the execution that prepared the session (index.js:23882,      *)
(* README "publishes the link ... only after provider acceptance").          *)
PublishedOnlyAfterAcceptance ==
  payment.link => \E a \in Approvals :
    /\ exec[a].prep.session = payment.session
    /\ exec[a].dispatch = "provider_accepted"
    /\ mail[a]

\* A session that an execution prepared and that the customer could still pay.
Payable(a) ==
  LET p == exec[a].prep
  IN  Prepares(p) /\ ~p.reused /\ stripe[p.session].status = "open"

(* As long as a prepared session can be paid and its link was not published, *)
(* it is on the record exactly as it was prepared, under whatever            *)
(* invocations overlap and also after one of them closed the execution as    *)
(* failed: no cleanup, recovery or late event closes the record of a session *)
(* that is open, or moves its generation on, and so no other session can be  *)
(* prepared beside it (index.js:7332, 7357, 24334, paymentSafety.js          *)
(* assertPreparedCheckoutSource).                                            *)
PreparedStands ==
  \A a \in Approvals :
    exec[a].state # "succeeded" /\ Payable(a) => payment = PreparedOf(exec[a].prep)

(* An execution is closed as failed, without asking for a manual review,     *)
(* while its session can still be paid, only by an invocation that remembers *)
(* another preparation than the one that is stored, or none: whoever         *)
(* remembers it has closed the session first (index.js:24334-24390, 7094).   *)
LeftPayable(a) == exec[a].state = "failed" /\ ~exec[a].review /\ Payable(a)

CleansUp ==
  \A a \in Approvals :
    ~LeftPayable(a) /\ LeftPayable(a)' =>
      \E w \in Workers :
        At(w, "mark_failed") /\ worker[w].appr = a /\ worker[w].prep # exec[a].prep

(* The record never claims an end of a session that Stripe does not have:    *)
(* paid, failed and expired are the provider's truth (index.js:7094, 7174,   *)
(* 7331, 6685).                                                              *)
RecordFollowsStripe ==
  payment.checkout \in {"paid", "failed", "expired"} =>
    stripe[payment.session].status = payment.checkout

(* One deposit is never charged on two sessions, and there are never two     *)
(* sessions the customer holds and could pay.                                *)
Chargeable(s) ==
  \/ stripe[s].status = "open" /\ Exposed(s)
  \/ stripe[s].status \in {"processing", "paid"}

OneCharge == \A s, t \in Sessions : Chargeable(s) /\ Chargeable(t) => s = t

(* A session replaces another one on the record only in a later generation,  *)
(* when the deposit is unsettled and Stripe has closed the replaced one      *)
(* (paymentSafety.js assertPreparedCheckoutSource, index.js:27600).          *)
Succession ==
  payment'.session # payment.session =>
    /\ payment'.gen > payment.gen
    /\ ~Settled(payment)
    /\ payment.session # NoSession =>
         stripe[payment.session].status \in {"failed", "expired"}

=============================================================================
