------------------------- MODULE PaymentRails_proofs -------------------------
(***************************************************************************)
(* Theorems about everything that writes a payment record: the saga, the   *)
(* Stripe webhook, the reconciliation and the portal rotation together,    *)
(* for any number of invocations, deliveries, staff calls, approvals and   *)
(* sessions.                                                               *)
(***************************************************************************)
EXTENDS PaymentRails, PaymentRequest_proofs

EventTyped == event \in [Sessions -> [ProviderStates ->
                           {"none", "processed", "ignored", "review_required"}]]

DeliveryTyped == delivery \in [Deliveries -> DeliveryStates]

ClerkTyped == clerk \in [Clerks -> ClerkStates]

(* The inductive invariant of the composition.                              *)
RailsInv == RailsTypeOK /\ SagaInv /\ PublishedOnlyAfterAcceptance

LEMMA HandlerRecords == NoDelivery \in DeliveryStates /\ OffDuty \in ClerkStates
<1>1. 0 \in 0 .. MaxPortal
  BY MaxPortalAssumption
<1>2. NoDelivery \in DeliveryStates
  BY <1>1 DEF NoDelivery, DeliveryStates
<1>3. OffDuty \in ClerkStates
  BY <1>1 DEF OffDuty, ClerkStates
<1> QED BY <1>2, <1>3

LEMMA InitRails == RailsInit => RailsInv
<1> SUFFICES ASSUME RailsInit PROVE RailsInv
  OBVIOUS
<1>1. TypeOK /\ SagaInv /\ PublishedOnlyAfterAcceptance
  BY InitType, InitSaga, InitPublished DEF RailsInit
<1>2. EventTyped
  BY DEF RailsInit, EventTyped
<1>3. DeliveryTyped
  BY HandlerRecords DEF RailsInit, DeliveryTyped
<1>4. ClerkTyped
  BY HandlerRecords DEF RailsInit, ClerkTyped
<1> QED BY <1>1, <1>2, <1>3, <1>4
        DEF RailsInv, RailsTypeOK, EventTyped, DeliveryTyped, ClerkTyped

(* A handler that leaves executions, e-mails and invocations alone, and     *)
(* shows no link, keeps what the saga relies on.                            *)
LEMMA HandlerKeepsSaga ==
  ASSUME RailsInv, UNCHANGED <<exec, mail, worker>>, LinkKept
  PROVE  SagaInv' /\ PublishedOnlyAfterAcceptance'
<1>1. SagaInv'
  BY ApprovalSaga DEF RailsInv
<1>2. StoredStays /\ AcceptedStays
  BY DEF StoredStays, AcceptedStays
<1> QED BY <1>1, <1>2, StillPublished DEF RailsInv, LinkKept

(* A Stripe observation that is put on the record, if it applies at all.    *)
LEMMA PatchTypes ==
  ASSUME RailsInv, NEW s, NEW obs \in {""} \cup ProviderStates, PatchPayment(s, obs)
  PROVE  /\ payment' \in Payments
         /\ LinkKept
         /\ Settled(payment) => payment' = payment
<1>1. payment \in Payments
  BY DEF RailsInv, RailsTypeOK, TypeOK
<1>2. CASE TransitionApplies(payment, s, obs)
  <2>1. payment' = PatchedPayment(payment, obs) /\ ~Settled(payment)
    BY <1>2 DEF PatchPayment, TransitionApplies
  <2>2. payment' \in Payments
    BY <1>1, <2>1 DEF PatchedPayment, Payments, CheckoutStates
  <2> QED BY <1>1, <2>1, <2>2, UnlinkedForms DEF LinkKept
<1>3. CASE ~TransitionApplies(payment, s, obs)
  BY <1>1, <1>3 DEF PatchPayment, LinkKept
<1> QED BY <1>2, <1>3

LEMMA NothingPatched ==
  ASSUME RailsInv, UNCHANGED payment
  PROVE  payment' \in Payments /\ LinkKept /\ (Settled(payment) => payment' = payment)
  BY DEF RailsInv, RailsTypeOK, TypeOK, LinkKept

(* RailsInv from its parts, after a step of a handler.                      *)
LEMMA RailsParts ==
  ASSUME RailsInv, payment' \in Payments, LinkKept,
         portal' \in [key : 1 .. MaxPortal, expired : BOOLEAN],
         approval' \in [Approvals -> ApprovalStates],
         stripe' \in [Sessions -> SessionRecords],
         EventTyped', DeliveryTyped', ClerkTyped',
         UNCHANGED <<scope, exec, mail, worker>>
  PROVE  RailsInv'
<1>1. SagaInv' /\ PublishedOnlyAfterAcceptance'
  BY HandlerKeepsSaga
<1>2. RailsTypeOK'
  BY DEF RailsInv, RailsTypeOK, TypeOK, EventTyped, DeliveryTyped, ClerkTyped
<1> QED BY <1>1, <1>2 DEF RailsInv

LEMMA RailsTypes ==
  ASSUME RailsInv
  PROVE  /\ EventTyped /\ DeliveryTyped /\ ClerkTyped
         /\ portal \in [key : 1 .. MaxPortal, expired : BOOLEAN]
         /\ portal.key \in 0 .. MaxPortal
         /\ approval \in [Approvals -> ApprovalStates]
         /\ stripe \in [Sessions -> SessionRecords]
         /\ payment.session \in Sessions \cup {NoSession}
<1>1. /\ EventTyped /\ DeliveryTyped /\ ClerkTyped
      /\ portal \in [key : 1 .. MaxPortal, expired : BOOLEAN]
      /\ approval \in [Approvals -> ApprovalStates]
      /\ stripe \in [Sessions -> SessionRecords]
      /\ payment \in Payments
  BY DEF RailsInv, RailsTypeOK, TypeOK, EventTyped, DeliveryTyped, ClerkTyped
<1>2. portal.key \in 0 .. MaxPortal
  BY <1>1, MaxPortalAssumption
<1>3. payment.session \in Sessions \cup {NoSession}
  BY <1>1 DEF Payments
<1> QED BY <1>1, <1>2, <1>3

-----------------------------------------------------------------------------
(* stripeWebhook.                                                           *)

LEMMA DeliveryUpdate ==
  ASSUME DeliveryTyped, NEW d \in Deliveries, NEW r \in DeliveryStates,
         delivery' = [delivery EXCEPT ![d] = r]
  PROVE  DeliveryTyped'
  BY DEF DeliveryTyped

LEMMA EventUpdate ==
  ASSUME EventTyped, NEW s, NEW k,
         NEW o \in {"none", "processed", "ignored", "review_required"},
         event' = [event EXCEPT ![s][k] = o]
  PROVE  EventTyped'
  BY DEF EventTyped

LEMMA WebhookStep ==
  ASSUME RailsInv, Webhook
  PROVE  RailsInv' /\ (Settled(payment) => payment' = payment)
<1>1. PICK d \in Deliveries :
        \/ \E s \in Sessions, k \in ProviderStates : WebhookReads(d, s, k)
        \/ WebhookPatches(d) \/ WebhookAuditsStale(d) \/ WebhookDies(d)
  BY DEF Webhook
<1> DEFINE s == delivery[d].session
           k == delivery[d].kind
<1>2. k \in {""} \cup ProviderStates
  BY RailsTypes DEF DeliveryTyped, DeliveryStates
<1>3. CASE \E t \in Sessions, j \in ProviderStates : WebhookReads(d, t, j)
  <2>1. PICK t \in Sessions, j \in ProviderStates : WebhookReads(d, t, j)
    BY <1>3
  <2> DEFINE r == [session |-> t, kind |-> j, active |-> payment.session = t,
                   key |-> portal.key]
  <2>2. r \in DeliveryStates
    BY RailsTypes DEF DeliveryStates
  <2>3. DeliveryTyped'
    <3> HIDE DEF r
    <3>1. delivery' = [delivery EXCEPT ![d] = r]
      BY <2>1 DEF WebhookReads, r
    <3> QED BY <2>2, <3>1, RailsTypes, DeliveryUpdate
  <2> QED BY <2>1, <2>3, RailsTypes, RailsParts, NothingPatched
          DEF WebhookReads, vars, EventTyped, ClerkTyped
<1>4. CASE WebhookPatches(d)
  <2>1. DeliveryTyped'
    BY <1>4, RailsTypes, HandlerRecords, DeliveryUpdate DEF WebhookPatches
  <2>2. EventTyped'
    <3>1. \/ event' = event
          \/ event' = [event EXCEPT ![s][k] = "processed"]
          \/ event' = [event EXCEPT ![s][k] = "ignored"]
      BY <1>4 DEF WebhookPatches
    <3> QED BY <3>1, RailsTypes, EventUpdate DEF EventTyped
  <2>3. payment' \in Payments /\ LinkKept /\ (Settled(payment) => payment' = payment)
    BY <1>2, <1>4, PatchTypes, NothingPatched DEF WebhookPatches
  <2> QED BY <1>4, <2>1, <2>2, <2>3, RailsTypes, RailsParts DEF WebhookPatches, ClerkTyped
<1>5. CASE WebhookAuditsStale(d)
  <2>1. DeliveryTyped'
    BY <1>5, RailsTypes, HandlerRecords, DeliveryUpdate DEF WebhookAuditsStale
  <2>2. EventTyped'
    BY <1>5, RailsTypes DEF WebhookAuditsStale, EventTyped
  <2> QED BY <1>5, <2>1, <2>2, RailsTypes, RailsParts, NothingPatched
          DEF WebhookAuditsStale, vars, ClerkTyped
<1>6. CASE WebhookDies(d)
  <2>1. DeliveryTyped'
    BY <1>6, RailsTypes, HandlerRecords, DeliveryUpdate DEF WebhookDies
  <2> QED BY <1>6, <2>1, RailsTypes, RailsParts, NothingPatched
          DEF WebhookDies, vars, EventTyped, ClerkTyped
<1> QED BY <1>1, <1>3, <1>4, <1>5, <1>6

-----------------------------------------------------------------------------
(* reconcileCheckout and rotateQuotePortalKey.                              *)

LEMMA ClerkUpdate ==
  ASSUME ClerkTyped, NEW c \in Clerks, NEW r \in ClerkStates,
         clerk' = [clerk EXCEPT ![c] = r]
  PROVE  ClerkTyped'
  BY DEF ClerkTyped

LEMMA ClerkMoves ==
  ASSUME ClerkTyped, NEW c \in Clerks,
         \/ ClerkReturns(c)
         \/ ClerkGoto(c, "commit")
         \/ \E obs \in SessionStates : ClerkSees(c, obs)
  PROVE  ClerkTyped'
<1>1. clerk[c] \in ClerkStates
  BY DEF ClerkTyped
<1>2. CASE ClerkReturns(c)
  BY <1>2, HandlerRecords, ClerkUpdate DEF ClerkReturns
<1>3. CASE ClerkGoto(c, "commit")
  <2>1. [clerk[c] EXCEPT !.pc = "commit"] \in ClerkStates
    BY <1>1 DEF ClerkStates
  <2> QED BY <1>3, <2>1, ClerkUpdate DEF ClerkGoto, ClerkTyped
<1>4. ASSUME NEW obs \in ProviderStates,
             clerk' = [clerk EXCEPT ![c].pc = "patch", ![c].obs = obs]
      PROVE  ClerkTyped'
  <2> DEFINE r == [clerk[c] EXCEPT !.pc = "patch", !.obs = obs]
  <2>1. r \in ClerkStates
    BY <1>1 DEF ClerkStates
  <2>2. clerk' = [clerk EXCEPT ![c] = r]
    BY <1>4 DEF ClerkTyped
  <2> HIDE DEF r
  <2> QED BY <2>1, <2>2, ClerkUpdate
<1> QED BY <1>2, <1>3, <1>4 DEF ClerkSees, Actionable

LEMMA StaffStep ==
  ASSUME RailsInv, Staff
  PROVE  RailsInv' /\ (Settled(payment) => payment' = payment)
<1>1. PICK c \in Clerks :
        \/ BeginReconcile(c) \/ BeginRotation(c) \/ ClerkRetrieves(c)
        \/ ClerkPatches(c) \/ CommitRotation(c) \/ ClerkDies(c)
  BY DEF Staff
<1>2. CASE BeginReconcile(c)
  <2> DEFINE r == [OffDuty EXCEPT !.pc = "retrieve", !.session = payment.session,
                                  !.key = portal.key]
  <2>1. r \in ClerkStates
    BY RailsTypes, HandlerRecords DEF ClerkStates
  <2>2. ClerkTyped'
    <3> HIDE DEF r
    <3>1. clerk' = [clerk EXCEPT ![c] = r]
      BY <1>2 DEF BeginReconcile, r
    <3> QED BY <2>1, <3>1, RailsTypes, ClerkUpdate
  <2> QED BY <1>2, <2>2, RailsTypes, RailsParts, NothingPatched
          DEF BeginReconcile, vars, EventTyped, DeliveryTyped
<1>3. CASE BeginRotation(c)
  <2> DEFINE pc == IF RailClear(payment) THEN "commit" ELSE "retrieve"
             r == [OffDuty EXCEPT !.rotating = TRUE, !.pc = pc,
                                  !.session = payment.session, !.key = portal.key]
  <2>1. r \in ClerkStates
    BY RailsTypes, HandlerRecords DEF ClerkStates
  <2>2. ClerkTyped'
    <3> HIDE DEF r
    <3>1. clerk' = [clerk EXCEPT ![c] = r]
      BY <1>3 DEF BeginRotation, r
    <3> QED BY <2>1, <3>1, RailsTypes, ClerkUpdate
  <2> QED BY <1>3, <2>2, RailsTypes, RailsParts, NothingPatched
          DEF BeginRotation, vars, EventTyped, DeliveryTyped
<1>4. CASE ClerkRetrieves(c)
  <2> DEFINE s == clerk[c].session
  <2>1. stripe' \in [Sessions -> SessionRecords]
    <3>1. "expired" \in SessionStates
      BY DEF SessionStates
    <3>2. stripe' = stripe \/ stripe' = [stripe EXCEPT ![s].status = "expired"]
      BY <1>4 DEF ClerkRetrieves
    <3> QED BY <3>1, <3>2, RailsTypes, SessionUpdate
  <2>2. ClerkTyped'
    <3>1. ClerkReturns(c) \/ ClerkSees(c, stripe[s].status) \/ ClerkSees(c, "expired")
      BY <1>4 DEF ClerkRetrieves
    <3>2. ClerkSees(c, stripe[s].status) =>
            ClerkReturns(c) \/ \E obs \in SessionStates : ClerkSees(c, obs)
      BY DEF ClerkSees, Actionable, SessionStates, ProviderStates
    <3>3. "expired" \in SessionStates
      BY DEF SessionStates
    <3> QED BY <3>1, <3>2, <3>3, RailsTypes, ClerkMoves
  <2> QED BY <1>4, <2>1, <2>2, RailsTypes, RailsParts, NothingPatched
          DEF ClerkRetrieves, EventTyped, DeliveryTyped
<1>5. CASE ClerkPatches(c)
  <2>1. clerk[c].obs \in {""} \cup ProviderStates
    BY RailsTypes DEF ClerkTyped, ClerkStates
  <2>2. payment' \in Payments /\ LinkKept /\ (Settled(payment) => payment' = payment)
    BY <1>5, <2>1, PatchTypes, NothingPatched DEF ClerkPatches
  <2>3. ClerkTyped'
    BY <1>5, RailsTypes, ClerkMoves DEF ClerkPatches
  <2> QED BY <1>5, <2>2, <2>3, RailsTypes, RailsParts
          DEF ClerkPatches, EventTyped, DeliveryTyped
<1>6. CASE CommitRotation(c)
  <2>1. ClerkTyped'
    BY <1>6, RailsTypes, ClerkMoves DEF CommitRotation
  <2>2. portal' \in [key : 1 .. MaxPortal, expired : BOOLEAN]
    <3>1. portal.key \in 0 .. MaxPortal /\ MaxPortal \in Nat
      BY RailsTypes, MaxPortalAssumption
    <3>2. portal.key < MaxPortal => portal.key + 1 \in 1 .. MaxPortal
      BY <3>1
    <3>3. UNCHANGED portal \/ (portal.key < MaxPortal
            /\ portal' = [key |-> portal.key + 1, expired |-> FALSE])
      BY <1>6 DEF CommitRotation
    <3>4. CASE UNCHANGED portal
      BY <3>4, RailsTypes
    <3>5. ASSUME NEW n \in 1 .. MaxPortal, portal' = [key |-> n, expired |-> FALSE]
          PROVE  portal' \in [key : 1 .. MaxPortal, expired : BOOLEAN]
      BY <3>5
    <3> QED BY <3>2, <3>3, <3>4, <3>5
  <2>3. approval' \in [Approvals -> ApprovalStates]
    <3>1. \A a \in Approvals : Invalidated(approval[a]) \in ApprovalStates
      BY RailsTypes DEF Invalidated, ApprovalStates
    <3> QED BY <1>6, <3>1, RailsTypes DEF CommitRotation
  <2> QED BY <1>6, <2>1, <2>2, <2>3, RailsTypes, RailsParts, NothingPatched
          DEF CommitRotation, EventTyped, DeliveryTyped
<1>7. CASE ClerkDies(c)
  <2>1. ClerkTyped'
    BY <1>7, RailsTypes, ClerkMoves DEF ClerkDies
  <2> QED BY <1>7, <2>1, RailsTypes, RailsParts, NothingPatched
          DEF ClerkDies, vars, EventTyped, DeliveryTyped
<1> QED BY <1>1, <1>2, <1>3, <1>4, <1>5, <1>6, <1>7

-----------------------------------------------------------------------------

LEMMA RailsStep == RailsInv /\ [RailsNext]_allVars => RailsInv'
<1> SUFFICES ASSUME RailsInv, [RailsNext]_allVars PROVE RailsInv'
  OBVIOUS
<1>1. TypeOK /\ SagaInv /\ PublishedOnlyAfterAcceptance
  BY DEF RailsInv, RailsTypeOK
<1>2. CASE [Next]_vars /\ UNCHANGED railsVars
  <2>1. TypeOK' /\ SagaInv' /\ PublishedOnlyAfterAcceptance'
    BY <1>1, <1>2, TypeStep, SagaStep, PublishedStep
  <2> QED BY <1>2, <2>1 DEF RailsInv, RailsTypeOK, railsVars
<1>3. CASE Webhook
  BY <1>3, WebhookStep
<1>4. CASE Staff
  BY <1>4, StaffStep
<1> QED BY <1>2, <1>3, <1>4 DEF RailsNext, allVars, vars, railsVars

(* The types of everything that writes a payment record.                    *)
THEOREM RailsTypeCorrect == RailsSpec => []RailsTypeOK
<1>1. RailsInv => RailsTypeOK
  BY DEF RailsInv
<1> QED BY <1>1, InitRails, RailsStep, PTL DEF RailsSpec

(* However invocations, deliveries and staff calls interleave and die, an   *)
(* invocation works on the stored preparation and an accepted dispatch was  *)
(* accepted by the e-mail provider (index.js:27600, 4388, 4469).            *)
THEOREM RailsSagaInv == RailsSpec => []SagaInv
<1>1. RailsInv => SagaInv
  BY DEF RailsInv
<1> QED BY <1>1, InitRails, RailsStep, PTL DEF RailsSpec

(* A link is on the quote only after its e-mail was accepted.               *)
THEOREM RailsPublished == RailsSpec => []PublishedOnlyAfterAcceptance
<1>1. RailsInv => PublishedOnlyAfterAcceptance
  BY DEF RailsInv
<1> QED BY <1>1, InitRails, RailsStep, PTL DEF RailsSpec

LEMMA SettledStays ==
  RailsInv /\ [RailsNext]_allVars => (Settled(payment) => payment' = payment)
<1> SUFFICES ASSUME RailsInv, [RailsNext]_allVars, Settled(payment)
             PROVE  payment' = payment
  OBVIOUS
<1>1. CASE [Next]_vars
  BY <1>1, SagaSettlement DEF RailsInv, RailsTypeOK
<1>2. CASE Webhook \/ Staff
  BY <1>2, WebhookStep, StaffStep
<1>3. CASE UNCHANGED allVars
  BY <1>3 DEF allVars
<1> QED BY <1>1, <1>2, <1>3 DEF RailsNext

(* No step of any writer takes a settled deposit back.                      *)
THEOREM RailsSettlement == RailsSpec => SettlementIsFinal
<1>1. RailsInv /\ [RailsNext]_allVars => [Settled(payment) => payment' = payment]_allVars
  BY SettledStays
<1> QED BY <1>1, InitRails, RailsStep, PTL DEF RailsSpec, SettlementIsFinal

(* What the first delivery of an event recorded is never overwritten.       *)
THEOREM RailsAudit == RailsSpec => AuditIsFinal
<1> DEFINE Kept == \A s \in Sessions, k \in ProviderStates :
                     event[s][k] # "none" => event'[s][k] = event[s][k]
<1>1. RailsInv /\ [RailsNext]_allVars => [Kept]_allVars
  <2> SUFFICES ASSUME RailsInv, [RailsNext]_allVars PROVE Kept
    OBVIOUS
  <2>1. CASE UNCHANGED event
    BY <2>1
  <2>2. ASSUME NEW t, NEW j, NEW o, NotYetAudited(t, j), event' = [event EXCEPT ![t][j] = o]
        PROVE  Kept
    BY <2>2, RailsTypes DEF NotYetAudited, EventTyped
  <2>3. ASSUME NEW d \in Deliveries, WebhookPatches(d) PROVE Kept
    BY <2>1, <2>2, <2>3 DEF WebhookPatches
  <2>4. ASSUME NEW d \in Deliveries, WebhookAuditsStale(d) PROVE Kept
    BY <2>4, RailsTypes DEF WebhookAuditsStale, NotYetAudited, EventTyped
  <2> QED BY <2>1, <2>3, <2>4 DEF RailsNext, Webhook, Staff, railsVars, allVars, WebhookReads,
        WebhookDies, BeginReconcile, BeginRotation, ClerkRetrieves, ClerkPatches,
        CommitRotation, ClerkDies
<1> QED BY <1>1, InitRails, RailsStep, PTL DEF RailsSpec, AuditIsFinal

\* The transaction that audits a paid event for the quote's own session.
LEMMA PaidPatchSettles ==
  ASSUME RailsInv, NEW s, payment.session = s, PatchPayment(s, "paid")
  PROVE  Settled(payment')
<1>1. payment \in Payments
  BY DEF RailsInv, RailsTypeOK, TypeOK
<1>2. CASE Settled(payment)
  BY <1>2 DEF PatchPayment, TransitionApplies
<1>3. CASE ~Settled(payment)
  <2>1. PatchedPayment(payment, "paid").status = "paid"
    BY <1>1 DEF PatchedPayment, Payments
  <2>2. TransitionApplies(payment, s, "paid")
    BY <1>3, <2>1 DEF TransitionApplies, Settled
  <2> QED BY <2>1, <2>2 DEF PatchPayment, Settled
<1> QED BY <1>2, <1>3

LEMMA PaidEventStep ==
  RailsInv /\ PaidEventAccounted /\ [RailsNext]_allVars => PaidEventAccounted'
<1> SUFFICES ASSUME RailsInv, PaidEventAccounted, [RailsNext]_allVars
             PROVE  PaidEventAccounted'
  OBVIOUS
<1>1. Settled(payment) => Settled(payment')
  BY SettledStays
<1>2. CASE UNCHANGED event
  BY <1>1, <1>2 DEF PaidEventAccounted
<1>3. ASSUME NEW d \in Deliveries, WebhookPatches(d) PROVE PaidEventAccounted'
  <2> DEFINE s == delivery[d].session
             k == delivery[d].kind
  <2>1. CASE PatchScopeHolds(s, delivery[d].key) /\ PatchPayment(s, k)
    <3>1. k = "paid" => Settled(payment')
      BY <2>1, PaidPatchSettles DEF PatchScopeHolds
    <3>2. \A t \in Sessions : event'[t]["paid"] = event[t]["paid"] \/ k = "paid"
      BY <1>3, RailsTypes DEF WebhookPatches, EventTyped, ProviderStates
    <3> QED BY <1>1, <3>1, <3>2 DEF PaidEventAccounted
  <2> QED BY <1>2, <1>3, <2>1 DEF WebhookPatches
<1>4. ASSUME NEW d \in Deliveries, WebhookAuditsStale(d) PROVE PaidEventAccounted'
  <2>1. \A t \in Sessions : \/ event'[t]["paid"] = event[t]["paid"]
                            \/ event'[t]["paid"] = "review_required"
    BY <1>4, RailsTypes DEF WebhookAuditsStale, EventTyped, ProviderStates
  <2> QED BY <1>1, <2>1 DEF PaidEventAccounted
<1> QED BY <1>2, <1>3, <1>4 DEF RailsNext, Webhook, Staff, railsVars, allVars, WebhookReads,
      WebhookDies, BeginReconcile, BeginRotation, ClerkRetrieves, ClerkPatches,
      CommitRotation, ClerkDies

(* The audit of a paid event is true of the record, for any number of       *)
(* deliveries, sessions and handlers: it is processed or ignored only when  *)
(* the deposit is settled (index.js:6815, 30215).                           *)
THEOREM RailsPaidEvent == RailsSpec => []PaidEventAccounted
<1>1. RailsInit => PaidEventAccounted
  BY DEF RailsInit, PaidEventAccounted, ProviderStates
<1> QED BY <1>1, InitRails, RailsStep, PaidEventStep, PTL DEF RailsSpec

=============================================================================
