--------------------------- MODULE PaymentCheckout ---------------------------
(***************************************************************************)
(* The pure payment planners of QuotePilot: what functions/paymentSafety,  *)
(* functions/stripeProviderState and functions/paymentDispatchState decide *)
(* from a stored payment record, a Stripe observation or a stored e-mail   *)
(* dispatch.  They hold no state; PaymentRequest and PaymentRails call     *)
(* them inside their transactions, as functions/index.js does.             *)
(*                                                                         *)
(* Data abstraction.  A payment record keeps the five fields the planners  *)
(* tell apart.  depositConfirmedAtISO is set exactly when depositStatus is *)
(* "paid", so one field stands for both; "refunded" is never written by    *)
(* the server and is left out.  depositLink is TRUE when the record shows  *)
(* the URL of its own session.  knownStripeSessionIds follows from the     *)
(* succession of sessions and decides only the label of an audit record.   *)
(***************************************************************************)
EXTENDS Naturals

CONSTANTS Sessions,   \* Stripe Checkout Session identities
          NoSession   \* the empty session id

ASSUME NoSessionAssumption == NoSession \notin Sessions

ProviderStates == {"processing", "paid", "failed", "expired"}

CheckoutStates == {"", "prepared", "open"} \cup ProviderStates

Payments == [status   : {"unpaid", "sent", "paid"},
             link     : BOOLEAN,
             session  : Sessions \cup {NoSession},
             checkout : CheckoutStates,
             gen      : Nat]

UnpaidQuote == [status |-> "unpaid", link |-> FALSE, session |-> NoSession,
                checkout |-> "", gen |-> 0]

Settled(p) == p.status = "paid"

Terminal(p) == p.checkout \in {"failed", "expired"}

\* planDepositCheckout: what a caller may do with the stored checkout.
PlanDepositCheckout(p) ==
  LET hasSession == p.session # NoSession
  IN  IF Settled(p) THEN "refuse"
      ELSE IF ~p.link /\ hasSession /\ p.status = "unpaid" /\ p.checkout = "prepared"
        THEN IF p.gen < 1 THEN "refuse" ELSE "inspect_prepared"
      ELSE IF p.link /\ hasSession THEN "inspect_existing"
      ELSE IF ~p.link /\ hasSession /\ p.status = "unpaid" /\ Terminal(p) THEN "create"
      ELSE IF p.link \/ hasSession \/ p.status # "unpaid" THEN "refuse"
      ELSE "create"

\* assertPreparedCheckoutSource: the records a prepared session may replace.
PreparedSource(p) ==
  /\ p.status = "unpaid" /\ ~p.link
  /\ IF p.session = NoSession THEN p.checkout \in {"", "failed", "expired"}
                              ELSE Terminal(p)

\* Mutants of PreparedPayment: the link shows at once, the generation stays.
PreparedPaymentShown(s, g) ==
  [status |-> "unpaid", link |-> TRUE, session |-> s, checkout |-> "prepared", gen |-> g]

PreparedPaymentSameGeneration(s, g) ==
  [status |-> "unpaid", link |-> FALSE, session |-> s, checkout |-> "prepared", gen |-> g - 1]

\* buildPreparedCheckoutState and buildPublishedCheckoutState.
PreparedPayment(s, g) == [status |-> "unpaid", link |-> FALSE, session |-> s,
                          checkout |-> "prepared", gen |-> g]

PublishedPayment(s, g) == [PreparedPayment(s, g) EXCEPT
                             !.status = "sent", !.link = TRUE, !.checkout = "open"]

\* planStripeCheckoutTransition: its paymentPatch, and whether it is applied.
PatchedPayment(p, obs) ==
  [p EXCEPT !.link = FALSE, !.checkout = obs,
            !.status = CASE obs = "paid" -> "paid"
                         [] obs = "processing" -> "sent"
                         [] OTHER -> "unpaid"]

\* Mutants of TransitionApplies: it waits for the publication, or forgets that
\* nothing follows a settlement.
TransitionAppliesOncePublished(p, s, obs) ==
  p.session = s /\ p.checkout \in {"open", "processing"}

TransitionAppliesAfterSettlement(p, s, obs) ==
  /\ p.session = s
  /\ Terminal(p) => obs = "paid"
  /\ PatchedPayment(p, obs) # p

TransitionApplies(p, s, obs) ==
  /\ p.session = s
  /\ ~Settled(p)
  /\ Terminal(p) => obs = "paid"
  /\ PatchedPayment(p, obs) # p

\* markPreparedCheckoutExpiredIfUnchanged writes the same closed record.
ExpiredPayment(p) == PatchedPayment(p, "expired")

-----------------------------------------------------------------------------
(***************************************************************************)
(* The e-mail dispatch record kept on an approval execution.  "none" is    *)
(* its absence.                                                            *)
(***************************************************************************)
DispatchStates == {"none", "sending", "outcome_ambiguous", "recovery_claimed",
                   "provider_accepted", "definite_failure"}

\* planPaymentDispatchResume followed by beginPaymentDispatchAttempt: the
\* states from which a provider call may be started (again, same key).
MayBeginAttempt(d) == d \in {"none", "sending", "outcome_ambiguous"}

(***************************************************************************)
(* The errors of one invocation, by what the code tells apart:             *)
(*   definite       a failed-precondition / invalid-argument / not-found   *)
(*   aborted        any error with the code "aborted"                      *)
(*   network        an unannotated transport error                         *)
(*   expired        a PaymentSafetyError flagged paymentCheckoutExpired    *)
(*   prep_ambiguous annotated paymentCheckoutOutcome = ambiguous           *)
(*   mail_ambiguous the e-mail provider may or may not have accepted       *)
(*   mail_rejected  the e-mail provider refused (4xx), or no provider is   *)
(*                  configured                                             *)
(***************************************************************************)
Errors == {"", "definite", "aborted", "network", "expired",
           "prep_ambiguous", "mail_ambiguous", "mail_rejected"}

\* classifyPaymentDispatchError.
DefiniteFailure(err) == err \in {"definite", "expired", "mail_rejected"}

\* planPaymentDispatchFailure, for a dispatch that is being sent.
DispatchAfterFailure(err) ==
  IF DefiniteFailure(err) THEN "definite_failure" ELSE "outcome_ambiguous"

\* planExpiredPortalPaymentDispatchRecovery: its action.
PlanExpiredPortalRecovery(d, stale) ==
  CASE d \in {"recovery_claimed", "outcome_ambiguous"} -> "recover"
    [] d = "sending" -> IF stale THEN "recover" ELSE "wait"
    [] OTHER -> "state_changed"

-----------------------------------------------------------------------------
(***************************************************************************)
(* Stripe, as src/ uses it: a session is open until the customer pays it,  *)
(* it is expired by a call, or its 24 hours run out.  "processing" and     *)
(* "failed" are the completed sessions of an asynchronous payment method.  *)
(* portal, gen and appr are its metadata; the idempotency key of its       *)
(* creation is (portal, gen), the amount of the quote being fixed.         *)
(***************************************************************************)
SessionStates == {"unused", "open", "processing", "failed", "paid", "expired"}

\* mapStripeCheckoutReconciliation: an open session is not actionable.
Actionable(st) == st \in ProviderStates

=============================================================================
