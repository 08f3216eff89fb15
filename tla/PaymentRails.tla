---------------------------- MODULE PaymentRails ----------------------------
(***************************************************************************)
(* Everything in functions/index.js that writes one quote's payment        *)
(* record: the payment-request saga of PaymentRequest, the Stripe webhook, *)
(* the administrator's checkout reconciliation and the portal rotation.    *)
(*                                                                         *)
(* A webhook delivery and a staff call read the quote, may call Stripe,    *)
(* and then write in transactions of their own; what each remembers of its *)
(* reads is in delivery[d] and clerk[c].  Stripe may deliver an event any  *)
(* number of times, late, concurrently with itself and in any order.       *)
(*                                                                         *)
(* Abstractions.  The rotation's own approval is taken as given, so a      *)
(* rotation may be called whenever MaxPortal leaves a portal key.  The     *)
(* portal document that mirrors the payment, the owner-SMS outbox row      *)
(* written with a paid event and Stripe's rejection of a call after which  *)
(* nothing is written are left out.                                        *)
(***************************************************************************)
EXTENDS PaymentRequest

CONSTANTS Deliveries,   \* slots for concurrent webhook deliveries
          Clerks        \* slots for reconciliations and portal rotations

VARIABLES
  event,      \* stripeWebhookEvents: the audit document of each event
  delivery,   \* webhook invocations that are running
  clerk       \* reconciliations and rotations that are running

railsVars == <<event, delivery, clerk>>

allVars == <<payment, portal, approval, scope, exec, stripe, mail, worker,
             event, delivery, clerk>>

NoDelivery == [session |-> NoSession, kind |-> "", active |-> FALSE, key |-> 0]

DeliveryStates == [session : Sessions \cup {NoSession}, kind : {""} \cup ProviderStates,
                   active : BOOLEAN, key : 0 .. MaxPortal]

OffDuty == [pc |-> "idle", rotating |-> FALSE, session |-> NoSession, key |-> 0, obs |-> ""]

ClerkStates == [pc : {"idle", "retrieve", "patch", "commit"}, rotating : BOOLEAN,
                session : Sessions \cup {NoSession}, key : 0 .. MaxPortal,
                obs : {""} \cup ProviderStates]

RailsInit ==
  /\ Init
  /\ event = [s \in Sessions |-> [k \in ProviderStates |-> "none"]]
  /\ delivery = [d \in Deliveries |-> NoDelivery]
  /\ clerk = [c \in Clerks |-> OffDuty]

-----------------------------------------------------------------------------
(* stripeWebhook.                                                           *)

\* The events Stripe has for a session (mapStripeCheckoutObservation): the
\* completion of an asynchronous payment is "processing", its end another one.
Emitted(s, k) ==
  \/ stripe[s].status = k
  \/ k = "processing" /\ stripe[s].async

\* The reads before any write: the deduplication document, then the quote.
WebhookReads(d, s, k) ==
  /\ delivery[d] = NoDelivery
  /\ Emitted(s, k)
  /\ event[s][k] = "none"
  /\ delivery' = [delivery EXCEPT ![d] =
       [session |-> s, kind |-> k, active |-> payment.session = s, key |-> portal.key]]
  /\ UNCHANGED <<vars, event, clerk>>

\* validateStripeCheckoutScope and assertPaymentPortalIdentity of a patch.
PatchScopeHolds(s, key) ==
  /\ payment.session = s
  /\ portal.key = key
  /\ stripe[s].portal = key

\* patchPaymentState with a Stripe observation.
PatchPayment(s, obs) ==
  payment' = IF TransitionApplies(payment, s, obs)
               THEN PatchedPayment(payment, obs) ELSE payment

\* Mutant of NotYetAudited: only the read before the transaction looks.
AlwaysUnaudited(s, k) == TRUE

\* The second look at the deduplication document, inside the transaction.
NotYetAudited(s, k) == event[s][k] = "none"

\* The transaction of an event about the session the quote had when read; a
\* scope that does not hold answers 500 and Stripe delivers again.
WebhookPatches(d) ==
  LET s == delivery[d].session
      k == delivery[d].kind
  IN  /\ delivery[d].active
      /\ IF NotYetAudited(s, k) /\ PatchScopeHolds(s, delivery[d].key)
           THEN /\ PatchPayment(s, k)
                /\ event' = [event EXCEPT ![s][k] =
                     IF TransitionApplies(payment, s, k) THEN "processed" ELSE "ignored"]
           ELSE UNCHANGED <<payment, event>>
      /\ delivery' = [delivery EXCEPT ![d] = NoDelivery]
      /\ UNCHANGED <<portal, approval, scope, exec, stripe, mail, worker, clerk>>

\* The transaction of an event about another session.
WebhookAuditsStale(d) ==
  LET s == delivery[d].session
      k == delivery[d].kind
  IN  /\ delivery[d] # NoDelivery /\ ~delivery[d].active
      /\ event' = [event EXCEPT ![s][k] =
           IF ~NotYetAudited(s, k) THEN @
           ELSE IF k = "paid" THEN "review_required" ELSE "ignored"]
      /\ delivery' = [delivery EXCEPT ![d] = NoDelivery]
      /\ UNCHANGED <<vars, clerk>>

WebhookDies(d) ==
  /\ delivery[d] # NoDelivery
  /\ delivery' = [delivery EXCEPT ![d] = NoDelivery]
  /\ UNCHANGED <<vars, event, clerk>>

-----------------------------------------------------------------------------
(* reconcileCheckout and rotateQuotePortalKey.                              *)

ClerkIs(c, pc) == clerk[c].pc = pc

ClerkGoto(c, pc) == clerk' = [clerk EXCEPT ![c].pc = pc]

ClerkReturns(c) == clerk' = [clerk EXCEPT ![c] = OffDuty]

BeginReconcile(c) ==
  /\ ClerkIs(c, "idle")
  /\ payment.session # NoSession
  /\ clerk' = [clerk EXCEPT ![c] = [OffDuty EXCEPT !.pc = "retrieve",
                 !.session = payment.session, !.key = portal.key]]
  /\ UNCHANGED <<vars, event, delivery>>

\* Mutant of RailClear: every checkout that may be planned is clear.
RailClearWhenPlannable(p) == Settled(p) \/ PlanDepositCheckout(p) # "refuse"

\* A settled or closed checkout does not stand in the way of a new portal.
RailClear(p) == Settled(p) \/ PlanDepositCheckout(p) = "create"

BeginRotation(c) ==
  /\ ClerkIs(c, "idle")
  /\ portal.key < MaxPortal
  /\ NoInProgressDispatch
  /\ \/ RailClear(payment)
     \/ PlanDepositCheckout(payment) # "refuse"
  /\ clerk' = [clerk EXCEPT ![c] = [OffDuty EXCEPT !.rotating = TRUE,
                 !.pc = IF RailClear(payment) THEN "commit" ELSE "retrieve",
                 !.session = payment.session, !.key = portal.key]]
  /\ UNCHANGED <<vars, event, delivery>>

\* What follows Stripe's answer.
ClerkSees(c, obs) ==
  IF Actionable(obs) THEN clerk' = [clerk EXCEPT ![c].pc = "patch", ![c].obs = obs]
                     ELSE ClerkReturns(c)

\* A rotation expires a session it finds open; a reconciliation only looks.
ClerkRetrieves(c) ==
  LET s == clerk[c].session
  IN  /\ ClerkIs(c, "retrieve")
      /\ \/ /\ stripe[s].portal # clerk[c].key \/ stripe[s].status = "open"
            /\ ClerkReturns(c) /\ UNCHANGED stripe
         \/ /\ stripe[s].portal = clerk[c].key /\ stripe[s].status # "open"
            /\ ClerkSees(c, stripe[s].status) /\ UNCHANGED stripe
         \/ /\ stripe[s].portal = clerk[c].key /\ stripe[s].status = "open"
            /\ clerk[c].rotating
            /\ stripe' = [stripe EXCEPT ![s].status = "expired"]
            /\ ClerkSees(c, "expired")
      /\ UNCHANGED <<payment, portal, approval, scope, exec, mail, worker, event, delivery>>

ClerkPatches(c) ==
  LET s == clerk[c].session
  IN  /\ ClerkIs(c, "patch")
      /\ IF PatchScopeHolds(s, clerk[c].key)
           THEN /\ PatchPayment(s, clerk[c].obs)
                /\ IF clerk[c].rotating /\ clerk[c].obs # "processing"
                     THEN ClerkGoto(c, "commit") ELSE ClerkReturns(c)
           ELSE UNCHANGED payment /\ ClerkReturns(c)
      /\ UNCHANGED <<portal, approval, scope, exec, stripe, mail, worker, event, delivery>>

\* Mutant of Invalidated: a state no reader knows.
InvalidatedAsCancelled(state) ==
  CASE state = "pending" -> "cancelled"
    [] state = "awaiting" -> "failed"
    [] OTHER -> state

\* invalidatePaymentApprovalsForPortalRotation.
Invalidated(state) ==
  CASE state = "pending" -> "rejected"
    [] state = "awaiting" -> "failed"
    [] OTHER -> state

\* The rotation's transaction.
CommitRotation(c) ==
  /\ ClerkIs(c, "commit")
  /\ IF NoInProgressDispatch /\ RailClear(payment) /\ portal.key < MaxPortal
       THEN /\ portal' = [key |-> portal.key + 1, expired |-> FALSE]
            /\ approval' = [a \in Approvals |-> Invalidated(approval[a])]
       ELSE UNCHANGED <<portal, approval>>
  /\ ClerkReturns(c)
  /\ UNCHANGED <<payment, scope, exec, stripe, mail, worker, event, delivery>>

ClerkDies(c) ==
  /\ ~ClerkIs(c, "idle")
  /\ ClerkReturns(c)
  /\ UNCHANGED <<vars, event, delivery>>

-----------------------------------------------------------------------------

Webhook ==
  \E d \in Deliveries :
    \/ \E s \in Sessions, k \in ProviderStates : WebhookReads(d, s, k)
    \/ WebhookPatches(d) \/ WebhookAuditsStale(d) \/ WebhookDies(d)

Staff ==
  \E c \in Clerks :
    \/ BeginReconcile(c) \/ BeginRotation(c) \/ ClerkRetrieves(c)
    \/ ClerkPatches(c) \/ CommitRotation(c) \/ ClerkDies(c)

RailsNext == (Next /\ UNCHANGED railsVars) \/ Webhook \/ Staff

RailsSpec == RailsInit /\ [][RailsNext]_allVars

\* Every webhook invocation ends, at the latest when its 60 s run out.  Stripe
\* delivers the event of a payment again until it is answered with success,
\* and not every invocation that works on it is killed.
WebhookAnswers(d, s, k) ==
  /\ delivery[d].session = s /\ delivery[d].kind = k
  /\ WebhookPatches(d) \/ WebhookAuditsStale(d)

Redelivery ==
  /\ \A d \in Deliveries :
       WF_allVars(WebhookPatches(d) \/ WebhookAuditsStale(d) \/ WebhookDies(d))
  /\ \A s \in Sessions :
       /\ SF_allVars(\E d \in Deliveries : WebhookReads(d, s, "paid"))
       /\ SF_allVars(\E d \in Deliveries : WebhookAnswers(d, s, "paid"))

RailsFairSpec == RailsSpec /\ Redelivery

-----------------------------------------------------------------------------
(* Every variable of the composition holds what the program can store.      *)
RailsTypeOK ==
  /\ TypeOK
  /\ event \in [Sessions -> [ProviderStates ->
                   {"none", "processed", "ignored", "review_required"}]]
  /\ delivery \in [Deliveries -> DeliveryStates]
  /\ clerk \in [Clerks -> ClerkStates]

(* Money that Stripe took is on the record, or the next delivery of its      *)
(* event, or a reconciliation, can still put it there: the session is the    *)
(* quote's and its portal has not been rotated away under it                 *)
(* (index.js:30026, 6685, 22541).                                            *)
PaidStaysRecordable ==
  \A s \in Sessions :
    stripe[s].status = "paid" =>
      Settled(payment) \/ (payment.session = s /\ stripe[s].portal = portal.key)

(* What an audit document says was done with a paid event was done: the      *)
(* deposit is settled or a review was asked for (index.js:6815, 30215).      *)
PaidEventAccounted ==
  \A s \in Sessions : event[s]["paid"] \in {"processed", "ignored"} => Settled(payment)

(* An event has one outcome: however many of its deliveries overlap, what     *)
(* the first one recorded stays (index.js:30062, 6717, 30205).               *)
AuditIsFinal ==
  [][\A s \in Sessions, k \in ProviderStates :
       event[s][k] # "none" => event'[s][k] = event[s][k]]_allVars

(* Settlement is final: no handler, event or reconciliation takes a paid     *)
(* deposit back, moves it to another session or shows a link again           *)
(* (stripeProviderState.js planStripeCheckoutTransition).                    *)
SettlementIsFinal == [][Settled(payment) => payment' = payment]_allVars

(* Stripe keeps delivering the event of a payment it took, so the payment    *)
(* reaches the record, whatever approvals, rotations and reconciliations run  *)
(* meanwhile and wherever the handlers die (index.js:30026; fairness          *)
(* Redelivery).                                                              *)
PaidIsRecorded ==
  \A s \in Sessions : stripe[s].status = "paid" ~> Settled(payment)

(* Every step that changes the session of the record is a Succession.        *)
SessionsSucceed == [][Succession]_allVars

(* Every step that closes an execution as failed CleansUp.                   *)
FailuresCleanUp == [][CleansUp]_allVars

-----------------------------------------------------------------------------
(* What the writers of the record rely on together.                         *)

\* Stripe has the session; it ended without taking anything; how it ended.
Used(s) == s \in Sessions /\ stripe[s].status # "unused"

Closed(s) == stripe[s].status \in {"failed", "expired"}

Final(st) == st \in {"paid", "failed", "expired"}

\* The record and the stored preparations against Stripe.
RecordNames ==
  /\ Settled(payment) => payment.checkout = "paid"
  /\ payment.session = NoSession => payment.checkout = "" /\ ~payment.link
  /\ payment.session # NoSession => Used(payment.session)

ChargedIsRecorded ==
  \A s \in Sessions : stripe[s].status \in {"processing", "paid"} => payment.session = s

PreparedIsRecorded ==
  \A a \in Approvals :
    LET s == exec[a].prep.session
    IN  Prepares(exec[a].prep) => Used(s) /\ (payment.session = s \/ Closed(s))

OnPortal ==
  payment.session # NoSession /\ ~Settled(payment) /\ ~Closed(payment.session) =>
    stripe[payment.session].portal = portal.key

\* An execution, an invocation, a delivery and a staff call.
ExecutionKnows(a) ==
  /\ exec[a].prep.reused => exec[a].prep.session = exec[a].prep.expected.session
  /\ exec[a].state # "none" => approval[a] # "none"
  /\ exec[a].state = "none" => ~Prepares(exec[a].prep)

InvocationKnows(w) ==
  LET v == worker[w]
      s == v.prep.session
  IN  /\ Prepares(v.prep) => Used(s)
      /\ v.prep.reused => s = v.prep.expected.session
      /\ v.pc \in {"prepare", "persist"} => v.err = "" /\ approval[v.appr] # "none"
      /\ v.pc = "persist" /\ ~v.prep.reused =>
           /\ PreparedSource(v.prep.expected)
           /\ v.prep.gen = v.prep.expected.gen + 1
           /\ stripe[s].portal = scope[v.appr]
      /\ v.err = "expired" => Prepares(v.prep) /\ stripe[s].status = "expired"
      /\ v.pc = "close_accepted" => v.err = "expired"
      /\ v.pc \in {"neutralize", "mark_expired"} => Prepares(v.prep)
      /\ v.pc = "mark_expired" => stripe[s].status = "expired"
      /\ v.pc = "recover_close" /\ Final(v.obs) => stripe[s].status = v.obs

DeliveryKnows(d) ==
  LET s == delivery[d].session
  IN  /\ delivery[d].active => s \in Sessions
      /\ Final(delivery[d].kind) => s \in Sessions /\ stripe[s].status = delivery[d].kind

ClerkKnows(c) ==
  LET s == clerk[c].session
  IN  /\ clerk[c].pc \in {"retrieve", "patch"} => s # NoSession
      /\ clerk[c].pc = "patch" /\ Final(clerk[c].obs) => stripe[s].status = clerk[c].obs

(* The record and Stripe never part: a session that was charged, or that a   *)
(* stored preparation could still charge, is the one on the record; it hangs *)
(* on the quote's own portal; and what an invocation, a delivery or a staff  *)
(* call remembers as the end of a session is still Stripe's answer when it   *)
(* writes it (index.js:27600, 24334, 7331, 7094, 6685, 22541).               *)
SessionInv ==
  /\ RecordFollowsStripe /\ RecordNames
  /\ ChargedIsRecorded /\ PreparedIsRecorded /\ OnPortal
  /\ \A a \in Approvals : ExecutionKnows(a)
  /\ \A w \in Workers : InvocationKnows(w)
  /\ \A d \in Deliveries : DeliveryKnows(d)
  /\ \A c \in Clerks : ClerkKnows(c)

-----------------------------------------------------------------------------
\* The record and Stripe as DepositOnce sees them.
OnOffer == IF payment.session # NoSession /\ ~Closed(payment.session)
             THEN payment.session ELSE NoSession

ClosedSessions == {s \in Sessions : Closed(s)}

PaidSessions == {s \in Sessions : stripe[s].status = "paid"}

RecordedFor == IF Settled(payment) THEN payment.session ELSE NoSession

Deposit == INSTANCE DepositOnce WITH
  offer <- OnOffer, closed <- ClosedSessions, taken <- PaidSessions, recorded <- RecordedFor

(* All writers of the record together collect the deposit once: it is on     *)
(* offer on one session at a time, never again on a closed one, taken at     *)
(* most once, and recorded for the session that took it (DepositOnce;        *)
(* paymentSafety.js assertPreparedCheckoutSource, index.js:27600, 6685).     *)
CollectsOnce == Deposit!Spec

=============================================================================
