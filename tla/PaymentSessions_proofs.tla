------------------------ MODULE PaymentSessions_proofs ------------------------
(***************************************************************************)
(* Theorems about the payment record and the Stripe sessions it names, for *)
(* any number of sessions, approvals, invocations, deliveries and staff    *)
(* calls: one charge, a payment that stays recordable, sessions that       *)
(* succeed each other only when closed, the refinement of DepositOnce, and *)
(* what overlapping invocations of one approval leave on the record.       *)
(*                                                                         *)
(* A step is first classified by what it does to each variable (the        *)
(* ...Step lemmas); SessionInv and the theorems then follow from the       *)
(* classes, and only what an actor remembers is looked at action by        *)
(* action.                                                                 *)
(***************************************************************************)
EXTENDS PaymentRails_proofs

(* The inductive invariant.                                                 *)
SessionsInv == RailsInv /\ SessionInv

-----------------------------------------------------------------------------
(***************************************************************************)
(* What a step does to Stripe: a session keeps its portal, its approval    *)
(* and its end, and only the session on the record is charged.             *)
(***************************************************************************)
StripeKept ==
  \A s \in Sessions :
    /\ stripe[s].status # "unused" =>
         /\ stripe'[s].status # "unused"
         /\ stripe'[s].portal = stripe[s].portal /\ stripe'[s].appr = stripe[s].appr
    /\ Final(stripe[s].status) => stripe'[s].status = stripe[s].status
    /\ stripe'[s].status \in {"processing", "paid"} => payment.session = s
    /\ stripe'[s].async => stripe[s].async \/ stripe'[s].status = "processing"

LEMMA SessionMoves ==
  ASSUME SessionsInv, NEW s, NEW st,
         stripe' = [stripe EXCEPT ![s].status = st],
         stripe[s].status \in {"open", "processing"}, st # "unused",
         st \in {"processing", "paid"} => payment.session = s
  PROVE  StripeKept
<1>1. stripe \in [Sessions -> SessionRecords] /\ ChargedIsRecorded
  BY RailsTypes DEF SessionsInv, SessionInv
<1>2. \A t \in Sessions : t # s => stripe'[t] = stripe[t]
  BY <1>1
<1>3. s \in Sessions => /\ stripe'[s].status = st /\ stripe'[s].portal = stripe[s].portal
                        /\ stripe'[s].appr = stripe[s].appr /\ stripe'[s].async = stripe[s].async
  BY <1>1 DEF SessionRecords
<1> QED BY <1>1, <1>2, <1>3 DEF StripeKept, ChargedIsRecorded, Final

LEMMA StripeUnchanged ==
  ASSUME SessionsInv, UNCHANGED stripe
  PROVE  StripeKept
  BY DEF SessionsInv, SessionInv, ChargedIsRecorded, StripeKept

(* The customer holds no link of an open session but the one on the record. *)
LEMMA ExposedIsRecorded ==
  ASSUME SessionsInv, NEW s \in Sessions, stripe[s].status = "open", Exposed(s)
  PROVE  payment.session = s
<1>1. ASSUME NEW a \in Approvals, exec[a].prep.session = s PROVE payment.session = s
  <2>1. Prepares(exec[a].prep)
    BY <1>1, NoSessionAssumption DEF Prepares
  <2>2. ~Closed(s)
    BY DEF Closed
  <2> QED BY <1>1, <2>1, <2>2 DEF SessionsInv, SessionInv, PreparedIsRecorded
<1> QED BY <1>1 DEF Exposed

LEMMA CreateStripe ==
  ASSUME SessionsInv, NEW w \in Workers, CreateSession(w)
  PROVE  StripeKept
<1> DEFINE r == [status |-> "open", portal |-> scope[worker[w].appr],
                 gen |-> worker[w].pay.gen + 1, appr |-> worker[w].appr, async |-> FALSE]
<1>1. PICK s \in Sessions : stripe[s].status = "unused" /\ stripe' = [stripe EXCEPT ![s] = r]
  BY DEF CreateSession
<1>2. stripe \in [Sessions -> SessionRecords] /\ ChargedIsRecorded
  BY RailsTypes DEF SessionsInv, SessionInv
<1>3. r.status = "open" /\ ~r.async
  OBVIOUS
<1> HIDE DEF r
<1> QED BY <1>1, <1>2, <1>3 DEF StripeKept, ChargedIsRecorded, Final

LEMMA StripeStep == SessionsInv /\ [RailsNext]_allVars => StripeKept
<1> SUFFICES ASSUME SessionsInv, [RailsNext]_allVars PROVE StripeKept
  OBVIOUS
<1>1. CASE UNCHANGED stripe
  BY <1>1, StripeUnchanged
<1>2. ASSUME NEW w \in Workers, Step(w) PROVE StripeKept
  <2>1. CASE CreateSession(w)
    BY <2>1, CreateStripe
  <2>2. CASE RecoverStripe(w)
    <3>1. UNCHANGED stripe \/ (stripe[worker[w].prep.session].status = "open"
            /\ stripe' = [stripe EXCEPT ![worker[w].prep.session].status = "expired"])
      BY <2>2 DEF RecoverStripe
    <3> QED BY <1>1, <3>1, SessionMoves
  <2>3. CASE Neutralize(w)
    <3>1. UNCHANGED stripe \/ (stripe[worker[w].prep.session].status = "open"
            /\ stripe' = [stripe EXCEPT ![worker[w].prep.session].status = "expired"])
      BY <2>3 DEF Neutralize
    <3> QED BY <1>1, <3>1, SessionMoves
  <2> QED BY <1>1, <1>2, <2>1, <2>2, <2>3
          DEF Step, CloseUnprepared, PrepareReuse, PrepareRefused, ReplaySession,
              CreateSessionFails, DiscardCreated, Persist, PersistFails, Restore,
              ClaimDispatch, Send, RecordAcceptance, Complete, Catch, ClaimRecovery,
              RecoverClose, RecordFailure, CloseAccepted, MarkExpired, Advance,
              CheckResolved, MarkFailed
<1>3. ASSUME NEW s \in Sessions, SessionTimesOut(s) PROVE StripeKept
  BY <1>3, SessionMoves DEF SessionTimesOut
<1>4. ASSUME NEW s \in Sessions, CustomerPays(s) PROVE StripeKept
  <2>1. payment.session = s
    BY <1>4, ExposedIsRecorded DEF CustomerPays
  <2>2. CASE stripe' = [stripe EXCEPT ![s].status = "paid"]
    BY <1>4, <2>1, <2>2, SessionMoves DEF CustomerPays
  <2>3. CASE stripe' = [stripe EXCEPT ![s].status = "processing", ![s].async = TRUE]
    <3>1. stripe \in [Sessions -> SessionRecords] /\ ChargedIsRecorded
      BY RailsTypes DEF SessionsInv, SessionInv
    <3>2. \A t \in Sessions : t # s => stripe'[t] = stripe[t]
      BY <2>3, <3>1
    <3>3. /\ stripe'[s].status = "processing" /\ stripe'[s].portal = stripe[s].portal
          /\ stripe'[s].appr = stripe[s].appr
      BY <2>3, <3>1 DEF SessionRecords
    <3>4. stripe[s].status = "open"
      BY <1>4 DEF CustomerPays
    <3> QED BY <2>1, <3>1, <3>2, <3>3, <3>4 DEF StripeKept, ChargedIsRecorded, Final
  <2> QED BY <1>4, <2>2, <2>3 DEF CustomerPays
<1>5. ASSUME NEW s \in Sessions, AsyncPaymentSettles(s) PROVE StripeKept
  <2>1. payment.session = s /\ stripe[s].status = "processing"
    BY <1>5 DEF AsyncPaymentSettles, SessionsInv, SessionInv, ChargedIsRecorded
  <2> QED BY <1>5, <2>1, SessionMoves DEF AsyncPaymentSettles
<1>6. ASSUME NEW c \in Clerks, ClerkRetrieves(c) PROVE StripeKept
  BY <1>1, <1>6, SessionMoves DEF ClerkRetrieves
<1>7. CASE Next
  BY <1>1, <1>2, <1>3, <1>4, <1>5, <1>7
     DEF Next, RequestApproval, ResolveApproval, Claim, ClaimRefused, Die, Environment,
         PortalExpires, DispatchGoesStale
<1>8. CASE Webhook \/ Staff
  BY <1>1, <1>6, <1>8
     DEF Webhook, Staff, vars, WebhookReads, WebhookPatches, WebhookAuditsStale, WebhookDies,
         BeginReconcile, BeginRotation, ClerkPatches, CommitRotation, ClerkDies
<1> QED BY <1>1, <1>7, <1>8 DEF RailsNext, allVars

-----------------------------------------------------------------------------
(***************************************************************************)
(* What a step does to the record: it keeps the session, and says of its   *)
(* end only what Stripe says; or it puts a prepared session in the place   *)
(* of none, or of a closed one.                                            *)
(***************************************************************************)
PaymentKept ==
  /\ payment'.session = payment.session
  /\ Settled(payment) => payment' = payment
  /\ Settled(payment') => payment'.checkout = "paid"
  /\ Final(payment'.checkout) =>
       \/ payment'.checkout = payment.checkout
       \/ payment.session # NoSession /\ stripe[payment.session].status = payment'.checkout
  /\ payment.session = NoSession =>
       payment'.checkout = payment.checkout /\ payment'.link = payment.link

Replaces(s) ==
  /\ PreparedSource(payment)
  /\ payment' = PreparedPayment(s, payment.gen + 1)
  /\ Used(s) /\ stripe[s].portal = portal.key

Replaced ==
  /\ \E s \in Sessions : Replaces(s)
  /\ UNCHANGED <<portal, approval, scope, stripe>>

LEMMA PaymentUnchanged ==
  ASSUME SessionsInv, UNCHANGED payment
  PROVE  PaymentKept
  BY DEF SessionsInv, SessionInv, RecordNames, PaymentKept

(* A Stripe observation is put on the record.                               *)
LEMMA ObservationKept ==
  ASSUME SessionsInv, ~Settled(payment), payment.session # NoSession,
         NEW o, Final(o) => stripe[payment.session].status = o,
         payment' = PatchedPayment(payment, o)
  PROVE  PaymentKept
<1>1. payment \in Payments
  BY DEF SessionsInv, RailsInv, RailsTypeOK, TypeOK
<1>2. payment'.session = payment.session /\ payment'.checkout = o
  BY <1>1 DEF PatchedPayment, Payments
<1>3. Settled(payment') => o = "paid"
  BY <1>1 DEF PatchedPayment, Payments, Settled
<1> QED BY <1>2, <1>3 DEF PaymentKept

(* ... or the generation moves on.                                          *)
LEMMA GenerationKept ==
  ASSUME SessionsInv, ~Settled(payment), NEW g, payment' = [payment EXCEPT !.gen = g]
  PROVE  PaymentKept
<1>1. payment \in Payments
  BY DEF SessionsInv, RailsInv, RailsTypeOK, TypeOK
<1>2. /\ payment'.session = payment.session /\ payment'.checkout = payment.checkout
      /\ payment'.link = payment.link /\ payment'.status = payment.status
  BY <1>1 DEF Payments
<1> QED BY <1>2 DEF PaymentKept, Settled

LEMMA PersistPayment ==
  ASSUME SessionsInv, NEW w \in Workers, Persist(w)
  PROVE  PaymentKept \/ Replaced
<1> DEFINE p == worker[w].prep
<1>1. UNCHANGED <<portal, approval, scope, stripe>>
  BY DEF Persist
<1>2. CASE UNCHANGED payment
  BY <1>2, PaymentUnchanged
<1>3. CASE payment' # payment
  <2>1. /\ worker[w].pc = "persist" /\ ScopeMatches(worker[w].appr)
        /\ PaymentAllowsPersist(p) /\ payment' = PreparedOf(p)
    BY <1>3 DEF Persist, At
  <2>2. ~p.reused /\ payment = p.expected
    BY <1>3, <2>1 DEF PaymentAllowsPersist, PreparedOf
  <2>3. Prepares(p)
    BY <2>1 DEF SessionsInv, RailsInv, SagaInv, InvocationOK
  <2>4. /\ Used(p.session) /\ PreparedSource(payment) /\ p.gen = payment.gen + 1
        /\ stripe[p.session].portal = scope[worker[w].appr]
    BY <2>1, <2>2, <2>3 DEF SessionsInv, SessionInv, InvocationKnows
  <2>5. payment' = PreparedPayment(p.session, payment.gen + 1)
    BY <2>1, <2>2, <2>4 DEF PreparedOf
  <2>6. Replaces(p.session) /\ p.session \in Sessions
    BY <2>1, <2>4, <2>5 DEF Replaces, ScopeMatches, Used
  <2> QED BY <1>1, <2>6 DEF Replaced
<1> QED BY <1>2, <1>3

LEMMA CompletePayment ==
  ASSUME SessionsInv, NEW w \in Workers, Complete(w)
  PROVE  PaymentKept
<1> DEFINE p == worker[w].prep
<1>1. CASE UNCHANGED payment
  BY <1>1, PaymentUnchanged
<1>2. CASE payment' = PublishedOf(p) /\ PublicationAllowed(w) /\ ~p.reused
  <2>1. Prepares(p)
    BY DEF Complete, At, SessionsInv, RailsInv, SagaInv, InvocationOK
  <2>2. /\ PublishedOf(p).session = p.session /\ PreparedOf(p).session = p.session
        /\ PublishedOf(p).checkout = "open" /\ ~Settled(PreparedOf(p)) /\ ~Settled(PublishedOf(p))
    BY <1>2 DEF PublishedOf, PreparedOf, PublishedPayment, PreparedPayment, Settled
  <2>3. payment.session = p.session /\ ~Settled(payment)
    BY <1>2, <2>2 DEF PublicationAllowed
  <2> QED BY <1>2, <2>1, <2>2, <2>3 DEF PaymentKept, Final, Prepares
<1> QED BY <1>1, <1>2 DEF Complete, MayComplete

LEMMA RecoverClosePayment ==
  ASSUME SessionsInv, NEW w \in Workers, RecoverClose(w)
  PROVE  PaymentKept
<1> DEFINE p == worker[w].prep
           o == worker[w].obs
<1>1. CASE UNCHANGED payment
  BY <1>1, PaymentUnchanged
<1>2. CASE /\ payment.session = p.session /\ Actionable(o)
           /\ TransitionApplies(payment, p.session, o) /\ payment' = PatchedPayment(payment, o)
  <2>1. worker[w].pc = "recover_close"
    BY DEF RecoverClose, At
  <2>2. Prepares(p) /\ (Final(o) => stripe[p.session].status = o)
    BY <2>1 DEF SessionsInv, SessionInv, RailsInv, SagaInv, InvocationOK, InvocationKnows
  <2> QED BY <1>2, <2>2, ObservationKept DEF Prepares, TransitionApplies
<1> QED BY <1>1, <1>2 DEF RecoverClose

LEMMA ExpirePayment ==
  ASSUME SessionsInv, NEW w \in Workers, CloseAccepted(w) \/ MarkExpired(w)
  PROVE  PaymentKept
<1> DEFINE p == worker[w].prep
<1>1. CASE UNCHANGED payment
  BY <1>1, PaymentUnchanged
<1>2. ASSUME payment' = ExpiredPayment(payment), payment.session = p.session, Prepares(p),
             stripe[p.session].status = "expired", ~Settled(payment)
      PROVE  PaymentKept
  BY <1>2, ObservationKept DEF ExpiredPayment, Prepares
<1>3. CASE CloseAccepted(w)
  <2>1. Prepares(p) /\ stripe[p.session].status = "expired"
    BY <1>3 DEF CloseAccepted, At, SessionsInv, SessionInv, InvocationKnows
  <2> QED BY <1>1, <1>2, <1>3, <2>1 DEF CloseAccepted
<1>4. CASE MarkExpired(w)
  <2>1. Prepares(p) /\ stripe[p.session].status = "expired" /\ ~p.reused
    BY <1>4 DEF MarkExpired, At, SessionsInv, SessionInv, InvocationKnows,
                RailsInv, SagaInv, InvocationOK
  <2>2. PreparedOf(p).session = p.session /\ ~Settled(PreparedOf(p))
    BY <2>1 DEF PreparedOf, PreparedPayment, Settled
  <2> QED BY <1>1, <1>2, <1>4, <2>1, <2>2 DEF MarkExpired
<1> QED BY <1>3, <1>4

LEMMA GenerationPayment ==
  ASSUME SessionsInv, NEW w \in Workers, DiscardCreated(w) \/ Advance(w)
  PROVE  PaymentKept
<1>1. CASE UNCHANGED payment
  BY <1>1, PaymentUnchanged
<1>2. CASE DiscardCreated(w) /\ payment' # payment
  <2>1. payment = worker[w].pay /\ payment' = [payment EXCEPT !.gen = payment.gen + 1]
    BY <1>2 DEF DiscardCreated
  <2>2. ~Settled(payment)
    BY <1>2, <2>1 DEF DiscardCreated, At, SessionsInv, RailsInv, SagaInv, InvocationOK
  <2> QED BY <2>1, <2>2, GenerationKept
<1>3. CASE Advance(w) /\ payment' # payment
  <2>1. payment = worker[w].prep.expected /\ payment' = [payment EXCEPT !.gen = worker[w].prep.gen]
    BY <1>3 DEF Advance
  <2>2. ~Settled(payment)
    BY <2>1 DEF SessionsInv, RailsInv, SagaInv, InvocationOK
  <2> QED BY <2>1, <2>2, GenerationKept
<1> QED BY <1>1, <1>2, <1>3

LEMMA PatchPaymentKept ==
  ASSUME SessionsInv, NEW s, NEW o, PatchPayment(s, o),
         payment.session = s, s # NoSession,
         Final(o) => stripe[s].status = o
  PROVE  PaymentKept
<1>1. CASE TransitionApplies(payment, s, o)
  BY <1>1, ObservationKept DEF PatchPayment, TransitionApplies
<1>2. CASE ~TransitionApplies(payment, s, o)
  BY <1>2, PaymentUnchanged DEF PatchPayment
<1> QED BY <1>1, <1>2

LEMMA PaymentStep == SessionsInv /\ [RailsNext]_allVars => PaymentKept \/ Replaced
<1> SUFFICES ASSUME SessionsInv, [RailsNext]_allVars PROVE PaymentKept \/ Replaced
  OBVIOUS
<1>1. CASE UNCHANGED payment
  BY <1>1, PaymentUnchanged
<1>2. ASSUME NEW w \in Workers, Step(w) PROVE PaymentKept \/ Replaced
  BY <1>1, <1>2, PersistPayment, CompletePayment, RecoverClosePayment, ExpirePayment,
     GenerationPayment
     DEF Step, CloseUnprepared, PrepareReuse, PrepareRefused, CreateSession, ReplaySession,
         CreateSessionFails, PersistFails, Restore, ClaimDispatch, Send, RecordAcceptance,
         Catch, ClaimRecovery, RecoverStripe, RecordFailure, Neutralize, CheckResolved,
         MarkFailed
<1>3. ASSUME NEW d \in Deliveries, WebhookPatches(d) PROVE PaymentKept
  <2> DEFINE s == delivery[d].session
             o == delivery[d].kind
  <2>1. CASE PatchPayment(s, o) /\ payment.session = s
    <3>1. s \in Sessions /\ (Final(o) => stripe[s].status = o)
      BY <1>3 DEF WebhookPatches, SessionsInv, SessionInv, DeliveryKnows
    <3> QED BY <2>1, <3>1, PatchPaymentKept, NoSessionAssumption
  <2>2. UNCHANGED payment \/ (PatchPayment(s, o) /\ payment.session = s)
    BY <1>3 DEF WebhookPatches, PatchScopeHolds
  <2> QED BY <2>1, <2>2, PaymentUnchanged
<1>4. ASSUME NEW c \in Clerks, ClerkPatches(c) PROVE PaymentKept
  <2> DEFINE s == clerk[c].session
             o == clerk[c].obs
  <2>1. CASE PatchPayment(s, o) /\ payment.session = s
    <3>1. s # NoSession /\ (Final(o) => stripe[s].status = o)
      BY <1>4 DEF ClerkPatches, ClerkIs, SessionsInv, SessionInv, ClerkKnows
    <3> QED BY <2>1, <3>1, PatchPaymentKept
  <2>2. UNCHANGED payment \/ (PatchPayment(s, o) /\ payment.session = s)
    BY <1>4 DEF ClerkPatches, PatchScopeHolds
  <2> QED BY <2>1, <2>2, PaymentUnchanged
<1>5. CASE Next
  BY <1>1, <1>2, <1>5
     DEF Next, RequestApproval, ResolveApproval, Claim, ClaimRefused, Die, Environment,
         SessionTimesOut, CustomerPays, AsyncPaymentSettles, PortalExpires, DispatchGoesStale
<1>6. CASE Webhook \/ Staff
  BY <1>1, <1>3, <1>4, <1>6
     DEF Webhook, Staff, vars, WebhookReads, WebhookAuditsStale, WebhookDies,
         BeginReconcile, BeginRotation, ClerkRetrieves, CommitRotation, ClerkDies
<1> QED BY <1>1, <1>5, <1>6 DEF RailsNext, allVars

-----------------------------------------------------------------------------
(***************************************************************************)
(* What a step does to the approvals, the portal and the executions.       *)
(***************************************************************************)

\* An approval that was requested stays requested, for its portal.
ApprovalKept ==
  \A a \in Approvals : approval[a] # "none" => approval'[a] # "none" /\ scope'[a] = scope[a]

LEMMA ApprovalStep == SessionsInv /\ [RailsNext]_allVars => ApprovalKept
<1> SUFFICES ASSUME SessionsInv, [RailsNext]_allVars PROVE ApprovalKept
  OBVIOUS
<1>1. /\ approval \in [Approvals -> ApprovalStates]
      /\ scope \in [Approvals -> 0 .. MaxPortal]
  BY DEF SessionsInv, RailsInv, RailsTypeOK, TypeOK
<1>2. CASE UNCHANGED <<approval, scope>>
  BY <1>2 DEF ApprovalKept
<1>3. ASSUME NEW a, NEW st, st # "none", approval' = [approval EXCEPT ![a] = st], UNCHANGED scope
      PROVE  ApprovalKept
  BY <1>1, <1>3 DEF ApprovalKept
<1>4. ASSUME NEW a \in Approvals, RequestApproval(a) PROVE ApprovalKept
  BY <1>1, <1>4 DEF RequestApproval, ApprovalKept
<1>5. ASSUME NEW a \in Approvals, ResolveApproval(a) PROVE ApprovalKept
  BY <1>3, <1>5 DEF ResolveApproval
<1>6. ASSUME NEW w \in Workers, NEW a \in Approvals, NEW adm \in Admins, Claim(w, a, adm)
      PROVE  ApprovalKept
  BY <1>2, <1>3, <1>6 DEF Claim
<1>7. ASSUME NEW w \in Workers, Step(w) PROVE ApprovalKept
  <2>1. CASE CloseUnprepared(w)
    BY <1>2, <1>3, <2>1 DEF CloseUnprepared
  <2>2. CASE Complete(w) \/ CloseAccepted(w) \/ MarkFailed(w)
    BY <1>2, <1>3, <2>2 DEF Complete, CloseAccepted, MarkFailed, Finish
  <2>3. CASE RecoverClose(w)
    BY <1>2, <1>3, <2>3 DEF RecoverClose
  <2> QED BY <1>2, <1>7, <2>1, <2>2, <2>3
          DEF Step, PrepareReuse, PrepareRefused, CreateSession, ReplaySession,
              CreateSessionFails, DiscardCreated, Persist, PersistFails, Restore,
              ClaimDispatch, Send, RecordAcceptance, Catch, ClaimRecovery, RecoverStripe,
              RecordFailure, Neutralize, MarkExpired, Advance, CheckResolved
<1>8. ASSUME NEW c \in Clerks, CommitRotation(c) PROVE ApprovalKept
  <2>1. \A a \in Approvals : approval[a] # "none" => Invalidated(approval[a]) # "none"
    BY DEF Invalidated
  <2> QED BY <1>2, <1>8, <2>1 DEF CommitRotation, ApprovalKept
<1>9. CASE Next
  BY <1>2, <1>4, <1>5, <1>6, <1>7, <1>9
     DEF Next, ClaimRefused, Die, Environment, SessionTimesOut, CustomerPays,
         AsyncPaymentSettles, PortalExpires, DispatchGoesStale
<1>10. CASE Webhook \/ Staff
  BY <1>2, <1>8, <1>10
     DEF Webhook, Staff, vars, WebhookReads, WebhookPatches, WebhookAuditsStale, WebhookDies,
         BeginReconcile, BeginRotation, ClerkRetrieves, ClerkPatches, ClerkDies
<1> QED BY <1>2, <1>9, <1>10 DEF RailsNext, allVars

\* The portal key changes when no session can be paid any more.
PortalKept ==
  portal'.key = portal.key \/ (RailClear(payment) /\ UNCHANGED <<payment, stripe>>)

LEMMA PortalStep == SessionsInv /\ [RailsNext]_allVars => PortalKept
<1> SUFFICES ASSUME SessionsInv, [RailsNext]_allVars PROVE PortalKept
  OBVIOUS
<1>1. portal \in [key : 1 .. MaxPortal, expired : BOOLEAN]
  BY RailsTypes DEF SessionsInv
<1>2. CASE UNCHANGED portal
  BY <1>2 DEF PortalKept
<1>3. CASE PortalExpires
  BY <1>1, <1>3 DEF PortalExpires, PortalKept
<1>4. ASSUME NEW c \in Clerks, CommitRotation(c) PROVE PortalKept
  BY <1>2, <1>4 DEF CommitRotation, PortalKept
<1>5. ASSUME NEW w \in Workers, Step(w) PROVE PortalKept
  BY <1>2, <1>5
     DEF Step, CloseUnprepared, PrepareReuse, PrepareRefused, CreateSession, ReplaySession,
         CreateSessionFails, DiscardCreated, Persist, PersistFails, Restore, ClaimDispatch,
         Send, RecordAcceptance, Complete, Catch, ClaimRecovery, RecoverStripe, RecoverClose,
         RecordFailure, CloseAccepted, Neutralize, MarkExpired, Advance, CheckResolved,
         MarkFailed
<1>6. CASE Next
  BY <1>2, <1>3, <1>5, <1>6
     DEF Next, RequestApproval, ResolveApproval, Claim, ClaimRefused, Die, Environment,
         SessionTimesOut, CustomerPays, AsyncPaymentSettles, DispatchGoesStale
<1>7. CASE Webhook \/ Staff
  BY <1>2, <1>4, <1>7
     DEF Webhook, Staff, vars, WebhookReads, WebhookPatches, WebhookAuditsStale, WebhookDies,
         BeginReconcile, BeginRotation, ClerkRetrieves, ClerkPatches, ClerkDies
<1> QED BY <1>2, <1>6, <1>7 DEF RailsNext, allVars

\* An execution keeps its preparation and its state; or an invocation stores
\* its preparation, with its session on the record; or it begins or is closed.
Resumable(x, y) == y.state = x.state /\ y.prep = x.prep /\ y.review = x.review

Stored(a) ==
  LET p == exec'[a].prep
  IN  /\ InProgress(a) /\ exec'[a].state = "in_progress" /\ ~Prepares(exec[a].prep)
      /\ Used(p.session) /\ payment'.session = p.session /\ UNCHANGED stripe
      /\ p.reused => p.session = p.expected.session
      /\ \E w \in Workers : Persist(w) /\ worker[w].appr = a

Fails(a) ==
  \E w \in Workers :
    /\ worker[w].appr = a
    /\ CloseUnprepared(w) \/ RecoverClose(w) \/ CloseAccepted(w) \/ MarkFailed(w)

Decided(a) ==
  /\ exec'[a].prep = exec[a].prep
  /\ exec[a].state \in {"none", "in_progress"}
  /\ exec'[a].state # "none" /\ approval'[a] # "none"
  /\ exec'[a].state = "failed" => Fails(a)

ExecutionKept ==
  \A a \in Approvals : Resumable(exec[a], exec'[a]) \/ Stored(a) \/ Decided(a)

LEMMA ExecForms ==
  ASSUME NEW x \in Executions
  PROVE  /\ \A d : Resumable(x, [x EXCEPT !.dispatch = d])
         /\ \A d, b : Resumable(x, [x EXCEPT !.dispatch = d, !.stale = b])
         /\ Resumable(x, [x EXCEPT !.stale = TRUE])
         /\ \A p : LET y == [x EXCEPT !.prep = p] IN y.prep = p /\ y.state = x.state
         /\ \A st : LET y == [x EXCEPT !.state = st] IN y.state = st /\ y.prep = x.prep
         /\ \A st, o : LET y == [x EXCEPT !.state = st, !.owner = o]
                       IN  y.state = st /\ y.prep = x.prep
         /\ \A st, r : LET y == [x EXCEPT !.state = st, !.review = r]
                       IN  y.state = st /\ y.prep = x.prep /\ y.review = r
  BY DEF Executions, Resumable

LEMMA ExecUnchanged ==
  ASSUME UNCHANGED exec
  PROVE  ExecutionKept
  BY DEF ExecutionKept, Resumable

LEMMA ResumableStep ==
  ASSUME SessionsInv, NEW a, NEW x, exec' = [exec EXCEPT ![a] = x],
         a \in Approvals => Resumable(exec[a], x)
  PROVE  ExecutionKept
<1>1. exec \in [Approvals -> Executions]
  BY DEF SessionsInv, RailsInv, RailsTypeOK, TypeOK
<1> QED BY <1>1 DEF ExecutionKept, Resumable

LEMMA DecidedStep ==
  ASSUME SessionsInv, NEW a, NEW x, exec' = [exec EXCEPT ![a] = x],
         NEW st, st # "none", approval' = [approval EXCEPT ![a] = st],
         exec[a].state \in {"none", "in_progress"},
         a \in Approvals => x.prep = exec[a].prep /\ x.state # "none",
         a \in Approvals /\ x.state = "failed" => Fails(a)
  PROVE  ExecutionKept
<1>1. /\ exec \in [Approvals -> Executions]
      /\ approval \in [Approvals -> ApprovalStates]
  BY DEF SessionsInv, RailsInv, RailsTypeOK, TypeOK
<1>2. \A b \in Approvals : b # a => exec'[b] = exec[b]
  BY <1>1
<1>3. a \in Approvals => exec'[a] = x /\ approval'[a] = st
  BY <1>1
<1> QED BY <1>2, <1>3 DEF ExecutionKept, Resumable, Decided

LEMMA PersistExecution ==
  ASSUME SessionsInv, NEW w \in Workers, Persist(w)
  PROVE  ExecutionKept
<1> DEFINE a == worker[w].appr
           p == worker[w].prep
           x == [exec[a] EXCEPT !.prep = p]
<1>1. CASE UNCHANGED exec
  BY <1>1, ExecUnchanged
<1>2. CASE ~Prepares(exec[a].prep)
  <2>1. /\ worker[w].pc = "persist" /\ InProgress(a) /\ PaymentAllowsPersist(p)
        /\ payment' = PreparedOf(p) /\ UNCHANGED stripe
    BY <1>2 DEF Persist, At
  <2>2. /\ exec \in [Approvals -> Executions] /\ a \in Approvals
        /\ exec' = [exec EXCEPT ![a] = x]
    BY <1>2, <2>1 DEF Persist, SessionsInv, RailsInv, RailsTypeOK, TypeOK, SagaInv, InvocationOK
  <2>3. x.prep = p /\ x.state = exec[a].state
    BY <2>2, ExecForms
  <2>4. Used(p.session) /\ (p.reused => p.session = p.expected.session)
    BY <2>1 DEF SessionsInv, SessionInv, InvocationKnows, RailsInv, SagaInv, InvocationOK
  <2>5. payment'.session = p.session
    BY <2>1, <2>4 DEF PreparedOf, PreparedPayment
  <2>6. exec'[a] = x /\ \A b \in Approvals : b # a => exec'[b] = exec[b]
    BY <2>2
  <2> HIDE DEF x
  <2>7. Stored(a)
    BY <1>2, <2>1, <2>3, <2>4, <2>5, <2>6 DEF Stored, InProgress
  <2> QED BY <2>6, <2>7 DEF ExecutionKept, Resumable
<1> QED BY <1>1, <1>2 DEF Persist

LEMMA FinishExecution ==
  ASSUME SessionsInv, NEW a, NEW st, st # "none", InProgress(a), Finish(a, st),
         st = "failed" => Fails(a)
  PROVE  ExecutionKept
<1> DEFINE x == [exec[a] EXCEPT !.state = st]
<1>1. exec' = [exec EXCEPT ![a] = x] /\ (a \in Approvals => exec[a] \in Executions)
  BY DEF Finish, SessionsInv, RailsInv, RailsTypeOK, TypeOK
<1>2. a \in Approvals => x.prep = exec[a].prep /\ x.state = st
  BY <1>1 DEF Executions
<1>3. approval' = [approval EXCEPT ![a] = st] /\ exec[a].state = "in_progress"
  BY DEF Finish, InProgress
<1> HIDE DEF x
<1> QED BY <1>1, <1>2, <1>3, DecidedStep

(* The steps of an invocation that change an execution's dispatch only.     *)
LEMMA DispatchExecution ==
  ASSUME SessionsInv, NEW w \in Workers,
         ClaimDispatch(w) \/ RecordAcceptance(w) \/ ClaimRecovery(w) \/ RecordFailure(w)
  PROVE  ExecutionKept
<1> DEFINE a == worker[w].appr
<1>1. ~At(w, "idle") => a \in Approvals /\ exec[a].dispatch \in DispatchStates
  BY RunningFacts DEF SessionsInv, RailsInv, RailsTypeOK
<1>2. ~At(w, "idle")
  BY DEF ClaimDispatch, RecordAcceptance, ClaimRecovery, RecordFailure, At
<1>3. exec \in [Approvals -> Executions]
  BY DEF SessionsInv, RailsInv, RailsTypeOK, TypeOK
<1>4. ASSUME NEW d, exec' = [exec EXCEPT ![a].dispatch = d] PROVE ExecutionKept
  <2> DEFINE x == [exec[a] EXCEPT !.dispatch = d]
  <2>1. exec' = [exec EXCEPT ![a] = x] /\ Resumable(exec[a], x)
    BY <1>1, <1>2, <1>3, <1>4, ExecForms
  <2> HIDE DEF x
  <2> QED BY <2>1, ResumableStep
<1>5. CASE ClaimDispatch(w)
  <2> DEFINE x == [exec[a] EXCEPT !.dispatch = "sending", !.stale = FALSE]
  <2>1. UNCHANGED exec \/ exec' = [exec EXCEPT ![a].dispatch = "sending", ![a].stale = FALSE]
    <3>1. exec[a].dispatch \in {"provider_accepted", "recovery_claimed", "definite_failure"}
            \/ MayBeginAttempt(exec[a].dispatch)
      BY <1>1, <1>2 DEF DispatchStates, MayBeginAttempt
    <3> QED BY <1>5, <3>1 DEF ClaimDispatch, MayBeginAttempt
  <2>2. UNCHANGED exec \/ exec' = [exec EXCEPT ![a] = x]
    BY <2>1, <1>3
  <2>3. Resumable(exec[a], x)
    BY <1>1, <1>2, <1>3, ExecForms
  <2> HIDE DEF x
  <2> QED BY <2>2, <2>3, ResumableStep, ExecUnchanged
<1>6. CASE RecordAcceptance(w)
  BY <1>4, <1>6, ExecUnchanged DEF RecordAcceptance
<1>7. CASE ClaimRecovery(w)
  BY <1>4, <1>7, ExecUnchanged DEF ClaimRecovery
<1>8. CASE RecordFailure(w)
  BY <1>4, <1>8, ExecUnchanged DEF RecordFailure
<1> QED BY <1>5, <1>6, <1>7, <1>8

LEMMA CloseUnpreparedExecution ==
  ASSUME SessionsInv, NEW w \in Workers, CloseUnprepared(w)
  PROVE  ExecutionKept
<1> DEFINE a == worker[w].appr
           x == [exec[a] EXCEPT !.state = "failed", !.owner = worker[w].admin]
<1>1. CASE UNCHANGED exec
  BY <1>1, ExecUnchanged
<1>2. CASE /\ exec[a].state \in {"none", "in_progress"}
           /\ approval' = [approval EXCEPT ![a] = "failed"]
           /\ exec' = [exec EXCEPT ![a].state = "failed", ![a].owner = worker[w].admin]
  <2>1. exec \in [Approvals -> Executions]
    BY DEF SessionsInv, RailsInv, RailsTypeOK, TypeOK
  <2>2. exec' = [exec EXCEPT ![a] = x]
    BY <1>2, <2>1
  <2>3. /\ a \in Approvals => x.prep = exec[a].prep /\ x.state # "none"
        /\ "failed" # "none"
    BY <2>1 DEF Executions
  <2>4. Fails(a)
    BY DEF Fails
  <2> HIDE DEF x
  <2> QED BY <1>2, <2>2, <2>3, <2>4, DecidedStep, Zenon
<1> QED BY <1>1, <1>2, ZenonT(30) DEF CloseUnprepared, InProgress

LEMMA RecoverCloseExecution ==
  ASSUME SessionsInv, NEW w \in Workers, RecoverClose(w)
  PROVE  ExecutionKept
<1> DEFINE a == worker[w].appr
<1>1. CASE UNCHANGED exec
  BY <1>1, ExecUnchanged
<1>2. ASSUME NEW r, exec[a].state = "in_progress", approval' = [approval EXCEPT ![a] = "failed"],
             exec' = [exec EXCEPT ![a].state = "failed", ![a].review = r]
      PROVE  ExecutionKept
  <2> DEFINE x == [exec[a] EXCEPT !.state = "failed", !.review = r]
  <2>1. exec \in [Approvals -> Executions]
    BY DEF SessionsInv, RailsInv, RailsTypeOK, TypeOK
  <2>2. exec' = [exec EXCEPT ![a] = x]
    BY <1>2, <2>1
  <2>3. /\ a \in Approvals => x.prep = exec[a].prep /\ x.state # "none"
        /\ "failed" # "none"
    BY <2>1 DEF Executions
  <2>4. Fails(a) /\ exec[a].state \in {"none", "in_progress"}
    BY <1>2 DEF Fails
  <2> HIDE DEF x
  <2> QED BY <1>2, <2>2, <2>3, <2>4, DecidedStep, Zenon
<1> QED BY <1>1, <1>2 DEF RecoverClose, InProgress

LEMMA ExecutionsStep == SessionsInv /\ [RailsNext]_allVars => ExecutionKept
<1> SUFFICES ASSUME SessionsInv, [RailsNext]_allVars PROVE ExecutionKept
  OBVIOUS
<1>1. CASE UNCHANGED exec
  BY <1>1, ExecUnchanged
<1>2. ASSUME NEW w \in Workers, Step(w) PROVE ExecutionKept
  <2>1. CASE Complete(w) \/ CloseAccepted(w) \/ MarkFailed(w)
    <3>1. CloseAccepted(w) \/ MarkFailed(w) => Fails(worker[w].appr)
      BY DEF Fails
    <3> QED BY <1>1, <2>1, <3>1, FinishExecution
            DEF Complete, MayComplete, CloseAccepted, MarkFailed
  <2> QED BY <1>1, <1>2, <2>1, PersistExecution, DispatchExecution, CloseUnpreparedExecution,
             RecoverCloseExecution
          DEF Step, PrepareReuse, PrepareRefused, CreateSession, ReplaySession,
              CreateSessionFails, DiscardCreated, PersistFails, Restore, Send, Catch,
              RecoverStripe, Neutralize, MarkExpired, Advance, CheckResolved
<1>3. ASSUME NEW w \in Workers, NEW a \in Approvals, NEW adm \in Admins, Claim(w, a, adm)
      PROVE  ExecutionKept
  <2> DEFINE x == [exec[a] EXCEPT !.state = "in_progress", !.owner = adm]
  <2>1. exec \in [Approvals -> Executions]
    BY DEF SessionsInv, RailsInv, RailsTypeOK, TypeOK
  <2>2. UNCHANGED exec \/ (approval' = [approval EXCEPT ![a] = "in_progress"]
                            /\ exec[a].state = "none" /\ exec' = [exec EXCEPT ![a] = x])
    BY <1>3, <2>1 DEF Claim
  <2>3. x.prep = exec[a].prep /\ x.state = "in_progress"
    BY <2>1 DEF Executions
  <2> HIDE DEF x
  <2> QED BY <1>1, <2>2, <2>3, DecidedStep
<1>4. ASSUME NEW a \in Approvals, DispatchGoesStale(a) PROVE ExecutionKept
  <2> DEFINE x == [exec[a] EXCEPT !.stale = TRUE]
  <2>1. exec \in [Approvals -> Executions]
    BY DEF SessionsInv, RailsInv, RailsTypeOK, TypeOK
  <2>2. exec' = [exec EXCEPT ![a] = x]
    BY <1>4, <2>1 DEF DispatchGoesStale
  <2>3. Resumable(exec[a], x)
    BY <2>1, ExecForms
  <2> HIDE DEF x
  <2> QED BY <2>2, <2>3, ResumableStep
<1>5. CASE Next
  BY <1>1, <1>2, <1>3, <1>4, <1>5
     DEF Next, RequestApproval, ResolveApproval, ClaimRefused, Die, Environment,
         SessionTimesOut, CustomerPays, AsyncPaymentSettles, PortalExpires
<1>6. CASE Webhook \/ Staff
  BY <1>1, <1>6
     DEF Webhook, Staff, vars, WebhookReads, WebhookPatches, WebhookAuditsStale, WebhookDies,
         BeginReconcile, BeginRotation, ClerkRetrieves, ClerkPatches, CommitRotation, ClerkDies
<1> QED BY <1>1, <1>5, <1>6 DEF RailsNext, allVars

-----------------------------------------------------------------------------
(***************************************************************************)
(* The record, the preparations and the executions keep what SessionInv    *)
(* says of them: from the classes of steps alone.                          *)
(***************************************************************************)
StepClasses ==
  /\ StripeKept /\ (PaymentKept \/ Replaced)
  /\ ApprovalKept /\ PortalKept /\ ExecutionKept

LEMMA Classified == SessionsInv /\ [RailsNext]_allVars => StepClasses
  BY StripeStep, PaymentStep, ApprovalStep, PortalStep, ExecutionsStep DEF StepClasses

\* A session that Stripe has, and one it has closed, stay so.
LEMMA UsedStays ==
  ASSUME StripeKept, NEW s
  PROVE  /\ Used(s) => /\ s \in Sessions /\ stripe'[s].status # "unused"
                       /\ stripe'[s].portal = stripe[s].portal
                       /\ stripe'[s].appr = stripe[s].appr
         /\ s \in Sessions /\ Final(stripe[s].status) => stripe'[s].status = stripe[s].status
         /\ s \in Sessions /\ Closed(s) => stripe'[s].status \in {"failed", "expired"}
  BY DEF StripeKept, Used, Closed, Final

(* The record that is replaced names no session or a closed one.            *)
LEMMA ReplacedIsClosed ==
  ASSUME SessionsInv, PreparedSource(payment), payment.session # NoSession
  PROVE  Closed(payment.session) /\ ~Settled(payment) /\ payment.session \in Sessions
<1>1. Terminal(payment) /\ ~Settled(payment)
  BY DEF PreparedSource, Settled
<1>2. stripe[payment.session].status = payment.checkout
  BY <1>1 DEF Terminal, SessionsInv, SessionInv, RecordFollowsStripe
<1>3. payment.session \in Sessions
  BY DEF SessionsInv, SessionInv, RecordNames, Used
<1> QED BY <1>1, <1>2, <1>3 DEF Terminal, Closed

LEMMA RecordStep ==
  ASSUME SessionsInv, StepClasses
  PROVE  RecordFollowsStripe' /\ RecordNames'
<1>1. RecordFollowsStripe /\ RecordNames
  BY DEF SessionsInv, SessionInv
<1>2. CASE PaymentKept
  <2>1. payment.session # NoSession =>
          payment.session \in Sessions /\ stripe'[payment.session].status # "unused"
    BY <1>1, UsedStays DEF StepClasses, RecordNames
  <2>2. RecordNames'
    <3>1. Settled(payment') => payment'.checkout = "paid"
      BY <1>2 DEF PaymentKept
    <3>2. payment'.session = NoSession => payment'.checkout = "" /\ ~payment'.link
      BY <1>1, <1>2 DEF PaymentKept, RecordNames
    <3>3. payment'.session = payment.session
      BY <1>2 DEF PaymentKept
    <3> QED BY <2>1, <3>1, <3>2, <3>3 DEF RecordNames, Used
  <2>3. ASSUME Final(payment'.checkout)
        PROVE  stripe'[payment'.session].status = payment'.checkout
    <3>1. payment.session # NoSession
      BY <1>1, <1>2, <2>3 DEF PaymentKept, RecordNames, Final
    <3>2. stripe[payment.session].status = payment'.checkout
      BY <1>1, <1>2, <2>3 DEF PaymentKept, RecordFollowsStripe, Final
    <3> QED BY <1>2, <2>1, <2>3, <3>1, <3>2, UsedStays DEF StepClasses, PaymentKept
  <2> QED BY <2>2, <2>3 DEF RecordFollowsStripe, Final
<1>3. CASE Replaced
  <2>1. PICK s \in Sessions : Replaces(s)
    BY <1>3 DEF Replaced
  <2>2. /\ payment'.session = s /\ payment'.checkout = "prepared" /\ ~payment'.link
        /\ ~Settled(payment')
    BY <2>1 DEF Replaces, PreparedPayment, Settled
  <2>3. s \in Sessions /\ stripe'[s].status # "unused"
    BY <2>1, UsedStays DEF StepClasses, Replaces
  <2> QED BY <2>1, <2>2, <2>3, NoSessionAssumption DEF RecordFollowsStripe, RecordNames, Used
<1> QED BY <1>2, <1>3 DEF StepClasses

LEMMA ChargedStep ==
  ASSUME SessionsInv, StepClasses
  PROVE  ChargedIsRecorded'
<1>1. CASE PaymentKept
  BY <1>1 DEF StepClasses, StripeKept, PaymentKept, ChargedIsRecorded
<1>2. CASE Replaced
  <2>1. UNCHANGED stripe /\ PreparedSource(payment)
    BY <1>2 DEF Replaced, Replaces
  <2>2. \A t \in Sessions : stripe[t].status \notin {"processing", "paid"}
    <3>1. ASSUME NEW t \in Sessions, stripe[t].status \in {"processing", "paid"} PROVE FALSE
      <4>1. payment.session = t
        BY <3>1 DEF SessionsInv, SessionInv, ChargedIsRecorded
      <4> QED BY <2>1, <3>1, <4>1, ReplacedIsClosed, NoSessionAssumption DEF Closed
    <3> QED BY <3>1
  <2> QED BY <2>1, <2>2 DEF ChargedIsRecorded
<1> QED BY <1>1, <1>2 DEF StepClasses

LEMMA PreparedStep ==
  ASSUME SessionsInv, StepClasses
  PROVE  PreparedIsRecorded'
<1> SUFFICES ASSUME NEW a \in Approvals, Prepares(exec'[a].prep),
                    NEW s, s = exec'[a].prep.session
             PROVE  /\ s \in Sessions /\ stripe'[s].status # "unused"
                    /\ payment'.session = s \/ stripe'[s].status \in {"failed", "expired"}
  BY DEF PreparedIsRecorded, Prepares, Used, Closed
<1>1. CASE Stored(a)
  BY <1>1 DEF Stored, Used
<1>2. CASE exec'[a].prep = exec[a].prep
  <2>1. Used(s) /\ (payment.session = s \/ Closed(s))
    BY <1>2 DEF SessionsInv, SessionInv, PreparedIsRecorded, Prepares
  <2>2. s \in Sessions /\ s # NoSession
    BY <2>1, NoSessionAssumption DEF Used
  <2>3. payment.session = s => payment'.session = s \/ Closed(s)
    BY <2>2, ReplacedIsClosed DEF StepClasses, PaymentKept, Replaced, Replaces
  <2> QED BY <2>1, <2>2, <2>3, UsedStays DEF StepClasses
<1> QED BY <1>1, <1>2 DEF StepClasses, ExecutionKept, Resumable, Decided

LEMMA PortalSessionStep ==
  ASSUME SessionsInv, StepClasses
  PROVE  OnPortal'
<1> SUFFICES ASSUME payment'.session # NoSession, ~Settled(payment'),
                    stripe'[payment'.session].status \notin {"failed", "expired"}
             PROVE  stripe'[payment'.session].portal = portal'.key
  BY DEF OnPortal, Closed
<1>1. OnPortal /\ RecordNames /\ RecordFollowsStripe
  BY DEF SessionsInv, SessionInv
<1>2. CASE Replaced
  BY <1>2 DEF Replaced, Replaces, PreparedPayment
<1>3. CASE PaymentKept
  <2>1. payment'.session = payment.session /\ Used(payment.session)
    BY <1>1, <1>3 DEF PaymentKept, RecordNames
  <2>2. ~Settled(payment)
    BY <1>3 DEF PaymentKept
  <2>3. ~Closed(payment.session)
    BY <2>1, UsedStays DEF StepClasses, Used, Closed
  <2>4. stripe'[payment.session].portal = portal.key
    BY <1>1, <2>1, <2>2, <2>3, UsedStays DEF StepClasses, OnPortal, Used
  <2>5. ~RailClear(payment)
    <3>1. RailClear(payment) => Terminal(payment)
      BY <2>1, <2>2 DEF RailClear, PlanDepositCheckout
    <3>2. Terminal(payment) => Closed(payment.session)
      BY <1>1 DEF RecordFollowsStripe, Terminal, Closed
    <3> QED BY <2>3, <3>1, <3>2
  <2> QED BY <2>1, <2>4, <2>5 DEF StepClasses, PortalKept
<1> QED BY <1>2, <1>3 DEF StepClasses

LEMMA ExecutionsKnow ==
  ASSUME SessionsInv, StepClasses, NEW a \in Approvals
  PROVE  ExecutionKnows(a)'
<1>1. ExecutionKnows(a)
  BY DEF SessionsInv, SessionInv
<1>2. CASE Resumable(exec[a], exec'[a])
  BY <1>1, <1>2 DEF StepClasses, ApprovalKept, Resumable, ExecutionKnows
<1>3. CASE Stored(a)
  BY <1>1, <1>3 DEF StepClasses, ApprovalKept, Stored, InProgress, ExecutionKnows
<1>4. CASE Decided(a)
  BY <1>1, <1>4 DEF Decided, ExecutionKnows
<1> QED BY <1>2, <1>3, <1>4 DEF StepClasses, ExecutionKept

-----------------------------------------------------------------------------
(***************************************************************************)
(* What an invocation remembers.  Its own step is looked at action by      *)
(* action; the steps of everyone else keep the facts it relies on.         *)
(***************************************************************************)
LEMMA InvocationStays ==
  ASSUME SessionsInv, StepClasses, NEW w \in Workers, worker'[w] = worker[w]
  PROVE  InvocationKnows(w)'
<1> DEFINE v == worker[w]
<1>1. InvocationKnows(w) /\ InvocationOK(w)
  BY DEF SessionsInv, SessionInv, RailsInv, SagaInv
<1>2. PICK s : s = v.prep.session
  OBVIOUS
<1>3. Prepares(v.prep) =>
        /\ s \in Sessions /\ stripe'[s].status # "unused"
        /\ stripe'[s].portal = stripe[s].portal
        /\ Final(stripe[s].status) => stripe'[s].status = stripe[s].status
  BY <1>1, <1>2, UsedStays DEF InvocationKnows, StepClasses
<1>4. v.pc \in {"prepare", "persist"} =>
        /\ v.err = "" /\ v.appr \in Approvals
        /\ approval'[v.appr] # "none" /\ scope'[v.appr] = scope[v.appr]
  BY <1>1 DEF InvocationKnows, InvocationOK, StepClasses, ApprovalKept
<1>5. v.pc \in {"persist", "recover_close"} => Prepares(v.prep)
  BY <1>1 DEF InvocationOK
<1>6. /\ Prepares(v.prep) => s \in Sessions /\ stripe'[s].status # "unused"
      /\ v.prep.reused => s = v.prep.expected.session
      /\ v.pc = "persist" /\ ~v.prep.reused =>
           /\ PreparedSource(v.prep.expected)
           /\ v.prep.gen = v.prep.expected.gen + 1
           /\ stripe'[s].portal = scope'[v.appr]
  BY <1>1, <1>2, <1>3, <1>4, <1>5 DEF InvocationKnows
<1>7. /\ v.err = "expired" => Prepares(v.prep) /\ stripe'[s].status = "expired"
      /\ v.pc = "mark_expired" => stripe'[s].status = "expired"
  BY <1>1, <1>2, <1>3 DEF InvocationKnows, Final
<1>8. /\ v.pc = "close_accepted" => v.err = "expired"
      /\ v.pc \in {"neutralize", "mark_expired"} => Prepares(v.prep)
      /\ v.pc = "recover_close" /\ Final(v.obs) => stripe'[s].status = v.obs
  BY <1>1, <1>2, <1>3, <1>5 DEF InvocationKnows
<1> HIDE DEF v
<1>9. v = worker'[w]
  BY DEF v
<1> QED BY <1>2, <1>4, <1>6, <1>7, <1>8, <1>9 DEF InvocationKnows, Used, Prepares, Final

\* An invocation moves on: with the error e, Stripe's answer o, and all else.
Forward(w, pc, e, o) ==
  /\ worker'[w].pc = pc /\ worker'[w].err = e /\ worker'[w].obs = o
  /\ worker'[w].appr = worker[w].appr /\ worker'[w].prep = worker[w].prep

LEMMA ForwardKnows ==
  ASSUME SessionsInv, StepClasses, NEW w \in Workers, NEW pc, NEW e, NEW o,
         Forward(w, pc, e, o), pc \notin {"prepare", "persist"},
         NEW s, s = worker[w].prep.session,
         e = "expired" => \/ worker[w].err = "expired"
                          \/ Prepares(worker[w].prep) /\ stripe[s].status = "expired",
         pc = "close_accepted" => e = "expired",
         pc \in {"neutralize", "mark_expired"} => Prepares(worker[w].prep),
         pc = "mark_expired" => stripe'[s].status = "expired",
         pc = "recover_close" /\ Final(o) => stripe'[s].status = o
  PROVE  InvocationKnows(w)'
<1> DEFINE v == worker[w]
<1>1. InvocationKnows(w)
  BY DEF SessionsInv, SessionInv
<1>2. Prepares(v.prep) =>
        /\ s \in Sessions /\ stripe'[s].status # "unused"
        /\ stripe[s].status = "expired" => stripe'[s].status = "expired"
  BY <1>1, UsedStays DEF InvocationKnows, StepClasses, Final
<1>3. e = "expired" => Prepares(v.prep) /\ stripe'[s].status = "expired"
  BY <1>1, <1>2 DEF InvocationKnows
<1>4. v.prep.reused => s = v.prep.expected.session
  BY <1>1 DEF InvocationKnows
<1> QED BY <1>2, <1>3, <1>4 DEF Forward, InvocationKnows, Used, Prepares, Final

LEMMA GotoForward ==
  ASSUME WorkerTyped, NEW w \in Workers, NEW pc, Goto(w, pc)
  PROVE  Forward(w, pc, worker[w].err, worker[w].obs)
  BY DEF WorkerTyped, Goto, Forward, Invocations

LEMMA ThrowForward ==
  ASSUME WorkerTyped, NEW w \in Workers, NEW e, Throw(w, e)
  PROVE  Forward(w, "catch", e, worker[w].obs)
  BY DEF WorkerTyped, Throw, Forward, Invocations

LEMMA ObserveForward ==
  ASSUME WorkerTyped, NEW w \in Workers, NEW pc, NEW o,
         worker' = [worker EXCEPT ![w].pc = pc, ![w].obs = o]
  PROVE  Forward(w, pc, worker[w].err, o)
  BY DEF WorkerTyped, Forward, Invocations

LEMMA OtherForward ==
  ASSUME WorkerTyped, NEW w \in Workers, NEW pc, NEW u,
         \/ worker' = [worker EXCEPT ![w].pc = pc, ![w].disp = u]
         \/ worker' = [worker EXCEPT ![w].pc = pc, ![w].disp = u, ![w].accepted = TRUE]
         \/ worker' = [worker EXCEPT ![w].pc = pc, ![w].accepted = u]
         \/ worker' = [worker EXCEPT ![w] = [[worker[w] EXCEPT !.uncertain = u] EXCEPT !.pc = pc]]
  PROVE  Forward(w, pc, worker[w].err, worker[w].obs)
<1> DEFINE v == worker[w]
           Kept(r) == /\ r.pc = pc /\ r.err = v.err /\ r.obs = v.obs
                      /\ r.appr = v.appr /\ r.prep = v.prep
<1>1. v \in Invocations
  BY DEF WorkerTyped
<1>2. ASSUME NEW r, Kept(r), worker' = [worker EXCEPT ![w] = r]
      PROVE  Forward(w, pc, worker[w].err, worker[w].obs)
  BY <1>2 DEF WorkerTyped, Forward
<1>3. /\ Kept([v EXCEPT !.pc = pc, !.disp = u])
      /\ Kept([v EXCEPT !.pc = pc, !.disp = u, !.accepted = TRUE])
      /\ Kept([v EXCEPT !.pc = pc, !.accepted = u])
      /\ Kept([[v EXCEPT !.uncertain = u] EXCEPT !.pc = pc])
  BY <1>1 DEF Invocations
<1>4. \/ worker' = [worker EXCEPT ![w] = [v EXCEPT !.pc = pc, !.disp = u]]
      \/ worker' = [worker EXCEPT ![w] = [v EXCEPT !.pc = pc, !.disp = u, !.accepted = TRUE]]
      \/ worker' = [worker EXCEPT ![w] = [v EXCEPT !.pc = pc, !.accepted = u]]
      \/ worker' = [worker EXCEPT ![w] = [[v EXCEPT !.uncertain = u] EXCEPT !.pc = pc]]
  BY DEF WorkerTyped
<1> HIDE DEF Kept, v
<1> QED BY <1>2, <1>3, <1>4

\* The labels at which SessionInv says nothing of Stripe.
PlainPCs == WorkerPCs \ {"prepare", "persist", "close_accepted", "neutralize",
                         "mark_expired", "recover_close"}

LEMMA PlainKnows ==
  ASSUME SessionsInv, StepClasses, NEW w \in Workers, NEW pc \in PlainPCs,
         NEW e, NEW o, Forward(w, pc, e, o), e = "expired" => worker[w].err = "expired"
  PROVE  InvocationKnows(w)'
<1>1. PICK s : s = worker[w].prep.session
  OBVIOUS
<1> QED BY <1>1, ForwardKnows DEF PlainPCs

(* An invocation returns, throws or goes to a plain label.                  *)
LEMMA PlainStep ==
  ASSUME SessionsInv, StepClasses, NEW w \in Workers,
         \/ Return(w)
         \/ \E e \in Errors \ {"expired"} : Throw(w, e)
         \/ \E pc \in PlainPCs : Goto(w, pc)
  PROVE  InvocationKnows(w)'
<1>1. WorkerTyped
  BY DEF SessionsInv, RailsInv, RailsTypeOK, TypeOK, WorkerTyped
<1>2. CASE Return(w)
  <2>1. worker'[w] = Idle
    BY <1>1, <1>2 DEF Return, WorkerTyped
  <2>2. /\ Idle.pc = "idle" /\ Idle.err = ""
        /\ ~Prepares(Idle.prep) /\ ~Idle.prep.reused
    BY DEF Idle, NoPreparation, Prepares
  <2> QED BY <2>1, <2>2 DEF InvocationKnows, Prepares
<1>3. ASSUME NEW e \in Errors \ {"expired"}, Throw(w, e) PROVE InvocationKnows(w)'
  <2>1. "catch" \in PlainPCs
    BY DEF PlainPCs, WorkerPCs
  <2> QED BY <1>1, <1>3, <2>1, ThrowForward, PlainKnows
<1>4. ASSUME NEW pc \in PlainPCs, Goto(w, pc) PROVE InvocationKnows(w)'
  BY <1>1, <1>4, GotoForward, PlainKnows
<1> QED BY <1>2, <1>3, <1>4

(* The claim of an approval and the steps that take up a preparation.       *)
LEMMA ClaimKnows ==
  ASSUME SessionsInv, StepClasses, NEW w \in Workers, NEW a \in Approvals, NEW adm \in Admins,
         Claim(w, a, adm)
  PROVE  InvocationKnows(w)'
<1> DEFINE r == [Idle EXCEPT !.pc = IF Prepares(exec[a].prep) THEN "restore" ELSE "prepare",
                    !.appr = a, !.admin = adm, !.pay = payment,
                    !.prep = exec[a].prep, !.disp = exec[a].dispatch,
                    !.portalExpired = portal.expired]
<1>1. /\ worker \in [Workers -> Invocations] /\ worker' = [worker EXCEPT ![w] = r]
      /\ approval \in [Approvals -> ApprovalStates] /\ UNCHANGED stripe
  BY DEF Claim, SessionsInv, RailsInv, RailsTypeOK, TypeOK
<1>2. /\ r.pc \in {"restore", "prepare"} /\ r.err = "" /\ r.appr = a /\ r.prep = exec[a].prep
  BY DEF Idle
<1>3. worker'[w] = r
  BY <1>1
<1>4. approval'[a] # "none"
  <2>1. CASE exec[a].state = "none"
    BY <1>1, <2>1 DEF Claim
  <2>2. CASE exec[a].state # "none"
    BY <2>2 DEF Claim, SessionsInv, SessionInv, ExecutionKnows
  <2> QED BY <2>1, <2>2
<1>5. PICK s : s = exec[a].prep.session
  OBVIOUS
<1>6. /\ Prepares(exec[a].prep) => Used(s)
      /\ exec[a].prep.reused => s = exec[a].prep.expected.session
  BY <1>5 DEF SessionsInv, SessionInv, PreparedIsRecorded, ExecutionKnows
<1>7. Prepares(exec[a].prep) => s \in Sessions /\ stripe'[s].status # "unused"
  BY <1>1, <1>6 DEF Used
<1> HIDE DEF r
<1> QED BY <1>2, <1>3, <1>4, <1>5, <1>6, <1>7 DEF InvocationKnows, Used, Prepares

LEMMA ClaimRefusedKnows ==
  ASSUME SessionsInv, StepClasses, NEW w \in Workers, NEW a \in Approvals, NEW adm \in Admins,
         ClaimRefused(w, a, adm)
  PROVE  InvocationKnows(w)'
<1> DEFINE r == [Idle EXCEPT !.pc = "close_unprepared", !.appr = a, !.admin = adm]
<1>1. worker'[w] = r
  BY DEF ClaimRefused, SessionsInv, RailsInv, RailsTypeOK, TypeOK
<1>2. r.pc = "close_unprepared" /\ r.err = "" /\ ~Prepares(r.prep) /\ ~r.prep.reused
  BY DEF Idle, NoPreparation, Prepares
<1> HIDE DEF r
<1> QED BY <1>1, <1>2 DEF InvocationKnows, Prepares

\* An invocation takes up a preparation that it found or that it made.
LEMMA PreparesKnows ==
  ASSUME SessionsInv, StepClasses, NEW w \in Workers, NEW pc, NEW p,
         pc = "persist" \/ pc = "restore",
         worker[w].pc = "prepare" \/ worker[w].pc = "persist",
         worker' = [worker EXCEPT ![w].pc = pc, ![w].prep = p],
         p.session \in Sessions, stripe'[p.session].status # "unused",
         p.reused => p.session = p.expected.session,
         pc = "persist" /\ ~p.reused =>
           /\ PreparedSource(p.expected) /\ p.gen = p.expected.gen + 1
           /\ stripe'[p.session].portal = scope[worker[w].appr]
  PROVE  InvocationKnows(w)'
<1>1. /\ worker'[w].pc = pc /\ worker'[w].appr = worker[w].appr
      /\ worker'[w].prep = p /\ worker'[w].err = worker[w].err
  <2>1. worker \in [Workers -> Invocations]
    BY DEF SessionsInv, RailsInv, RailsTypeOK, TypeOK
  <2>2. worker[w] \in Invocations
    BY <2>1
  <2> DEFINE r == [worker[w] EXCEPT !.pc = pc, !.prep = p]
  <2>3. r.pc = pc /\ r.prep = p /\ r.appr = worker[w].appr /\ r.err = worker[w].err
    BY <2>2 DEF Invocations
  <2>4. worker' = [worker EXCEPT ![w] = r]
    BY <2>1
  <2> HIDE DEF r
  <2> QED BY <2>1, <2>3, <2>4
<1>2. /\ worker[w].err = "" /\ approval[worker[w].appr] # "none"
      /\ worker[w].appr \in Approvals
  BY DEF SessionsInv, SessionInv, InvocationKnows, RailsInv, SagaInv, InvocationOK
<1>3. approval'[worker[w].appr] # "none" /\ scope'[worker[w].appr] = scope[worker[w].appr]
  BY <1>2 DEF StepClasses, ApprovalKept
<1> QED BY <1>1, <1>2, <1>3 DEF InvocationKnows, Used

LEMMA PrepareReuseKnows ==
  ASSUME SessionsInv, StepClasses, NEW w \in Workers, PrepareReuse(w)
  PROVE  InvocationKnows(w)'
<1> DEFINE q == worker[w].pay
           p == [session |-> q.session, gen |-> q.gen, expected |-> q, reused |-> TRUE]
<1>1. /\ worker[w].pc = "prepare" /\ PlanDepositCheckout(q) = "inspect_existing"
      /\ stripe[q.session].status = "open" /\ UNCHANGED stripe
      /\ worker' = [worker EXCEPT ![w].pc = "persist", ![w].prep = p]
  BY DEF PrepareReuse, At
<1>2. q.session \in Sessions
  <2>1. q.session # NoSession
    BY <1>1 DEF PlanDepositCheckout
  <2>2. worker[w] \in Invocations
    BY DEF SessionsInv, RailsInv, RailsTypeOK, TypeOK
  <2> QED BY <2>1, <2>2 DEF Invocations, Payments
<1>3. p.session = q.session /\ p.reused /\ p.expected = q
  OBVIOUS
<1> HIDE DEF p
<1> QED BY <1>1, <1>2, <1>3, PreparesKnows

LEMMA AdoptKnows ==
  ASSUME SessionsInv, StepClasses, NEW w \in Workers, worker[w].pc = "prepare",
         NEW s \in Sessions, stripe'[s].status # "unused",
         stripe'[s].portal = scope[worker[w].appr], Adopt(w, s)
  PROVE  InvocationKnows(w)'
<1> DEFINE q == worker[w].pay
           p == [session |-> s, gen |-> q.gen + 1, expected |-> q, reused |-> FALSE]
<1>1. CASE ~PreparedSource(q)
  BY <1>1, PlainStep DEF Adopt, Errors
<1>2. CASE PreparedSource(q)
  <2>1. worker' = [worker EXCEPT ![w].pc = "persist", ![w].prep = p]
    BY <1>2 DEF Adopt
  <2>2. p.session = s /\ ~p.reused /\ p.expected = q /\ p.gen = q.gen + 1
    OBVIOUS
  <2> HIDE DEF p
  <2> QED BY <1>2, <2>1, <2>2, PreparesKnows
<1> QED BY <1>1, <1>2

LEMMA NewSessionKnows ==
  ASSUME SessionsInv, StepClasses, NEW w \in Workers, CreateSession(w) \/ ReplaySession(w)
  PROVE  InvocationKnows(w)'
<1>1. worker[w].pc = "prepare" /\ UNCHANGED scope
  BY DEF CreateSession, ReplaySession, NeedsNewSession, At
<1>2. \A e \in {"prep_ambiguous", "definite"} : e \in Errors \ {"expired"}
  BY DEF Errors
<1>3. "discard" \in PlainPCs
  BY DEF PlainPCs, WorkerPCs
<1>4. CASE CreateSession(w)
  <2> DEFINE r == [status |-> "open", portal |-> scope[worker[w].appr],
                   gen |-> worker[w].pay.gen + 1, appr |-> worker[w].appr, async |-> FALSE]
  <2>1. PICK s \in Sessions : /\ stripe' = [stripe EXCEPT ![s] = r]
                              /\ Adopt(w, s) \/ Throw(w, "prep_ambiguous")
    BY <1>4 DEF CreateSession
  <2>2. stripe \in [Sessions -> SessionRecords]
    BY RailsTypes DEF SessionsInv
  <2>3. stripe'[s].status = "open" /\ stripe'[s].portal = scope[worker[w].appr]
    BY <2>1, <2>2
  <2>4. stripe'[s].status # "unused"
    BY <2>3
  <2> HIDE DEF r
  <2> QED BY <1>1, <1>2, <2>1, <2>3, <2>4, AdoptKnows, PlainStep
<1>5. CASE ReplaySession(w)
  <2>1. PICK s \in SameKey(w) : \/ Adopt(w, s)
                                \/ Goto(w, "discard")
                                \/ Throw(w, "prep_ambiguous")
    BY <1>5 DEF ReplaySession
  <2>2. /\ s \in Sessions /\ UNCHANGED stripe
        /\ stripe[s].status # "unused" /\ stripe[s].portal = scope[worker[w].appr]
    BY <1>5, <2>1 DEF SameKey, ReplaySession
  <2> QED BY <1>1, <1>2, <1>3, <2>1, <2>2, AdoptKnows, PlainStep
<1> QED BY <1>4, <1>5

LEMMA PersistKnows ==
  ASSUME SessionsInv, StepClasses, NEW w \in Workers, Persist(w)
  PROVE  InvocationKnows(w)'
<1> DEFINE a == worker[w].appr
           p == exec[a].prep
<1>1. worker[w].pc = "persist" /\ a \in Approvals /\ UNCHANGED stripe
  BY DEF Persist, At, SessionsInv, RailsInv, SagaInv, InvocationOK
<1>2. CASE Prepares(p)
  <2>1. worker' = [worker EXCEPT ![w].pc = "restore", ![w].prep = p]
    BY <1>2 DEF Persist
  <2>2. /\ p.session \in Sessions /\ stripe[p.session].status # "unused"
        /\ p.reused => p.session = p.expected.session
    BY <1>1, <1>2 DEF SessionsInv, SessionInv, PreparedIsRecorded, Used, ExecutionKnows
  <2> QED BY <1>1, <2>1, <2>2, PreparesKnows
<1>3. CASE ~Prepares(p)
  <2>1. Goto(w, "restore") /\ "restore" \in PlainPCs
    BY <1>3 DEF Persist, PlainPCs, WorkerPCs
  <2> QED BY <2>1, PlainStep
<1> QED BY <1>2, <1>3

LEMMA RestoreKnows ==
  ASSUME SessionsInv, StepClasses, NEW w \in Workers, Restore(w)
  PROVE  InvocationKnows(w)'
<1>1. PICK s : s = worker[w].prep.session
  OBVIOUS
<1>2. WorkerTyped /\ Prepares(worker[w].prep)
  BY DEF Restore, At, SessionsInv, RailsInv, RailsTypeOK, TypeOK, WorkerTyped,
         SagaInv, InvocationOK
<1>3. \/ Throw(w, "definite") \/ Throw(w, "network") \/ Goto(w, "dispatch")
      \/ Throw(w, "expired") /\ stripe[s].status = "expired"
  BY <1>1 DEF Restore
<1>4. CASE Throw(w, "expired") /\ stripe[s].status = "expired"
  <2>1. Forward(w, "catch", "expired", worker[w].obs)
    BY <1>2, <1>4, ThrowForward
  <2> QED BY <1>1, <1>2, <1>4, <2>1, ForwardKnows
<1> QED BY <1>3, <1>4, PlainStep DEF Errors, PlainPCs, WorkerPCs

LEMMA DispatchMoves ==
  ASSUME SessionsInv, NEW w \in Workers, ClaimDispatch(w)
  PROVE  \/ Throw(w, "definite") \/ Throw(w, "aborted")
         \/ worker' = [worker EXCEPT ![w].pc = "complete", ![w].disp = "provider_accepted",
                                     ![w].accepted = TRUE]
         \/ worker' = [worker EXCEPT ![w].pc = "send", ![w].disp = "sending"]
<1>1. ~At(w, "idle")
  BY DEF ClaimDispatch, At
<1>2. \/ exec[worker[w].appr].dispatch \in {"provider_accepted", "recovery_claimed",
                                            "definite_failure"}
      \/ MayBeginAttempt(exec[worker[w].appr].dispatch)
  BY <1>1, RunningFacts DEF SessionsInv, RailsInv, RailsTypeOK, DispatchStates, MayBeginAttempt
<1> QED BY <1>2 DEF ClaimDispatch, MayBeginAttempt

(* The steps that only change what an invocation has seen of the e-mail.    *)
LEMMA DispatchForward ==
  ASSUME SessionsInv, NEW w \in Workers,
         ClaimDispatch(w) \/ Send(w) \/ RecordAcceptance(w) \/ ClaimRecovery(w)
  PROVE  \/ Return(w)
         \/ \E e \in {"definite", "aborted", "mail_ambiguous", "mail_rejected"} : Throw(w, e)
         \/ \E pc \in {"complete", "send", "record", "recover_stripe", "record_failure"} :
              Forward(w, pc, worker[w].err, worker[w].obs)
<1>1. WorkerTyped
  BY DEF SessionsInv, RailsInv, RailsTypeOK, TypeOK, WorkerTyped
<1>2. ASSUME NEW pc \in {"complete", "send", "record", "recover_stripe", "record_failure"}, NEW u,
             \/ worker' = [worker EXCEPT ![w].pc = pc, ![w].disp = u]
             \/ worker' = [worker EXCEPT ![w].pc = pc, ![w].disp = u, ![w].accepted = TRUE]
             \/ worker' = [worker EXCEPT ![w].pc = pc, ![w].accepted = u]
      PROVE  Forward(w, pc, worker[w].err, worker[w].obs)
  BY <1>1, <1>2, OtherForward
<1>3. CASE ClaimDispatch(w)
  BY <1>2, <1>3, DispatchMoves
<1>4. CASE Send(w)
  BY <1>2, <1>4 DEF Send
<1>5. CASE RecordAcceptance(w)
  BY <1>2, <1>5 DEF RecordAcceptance
<1>6. CASE ClaimRecovery(w)
  BY <1>2, <1>6 DEF ClaimRecovery
<1> QED BY <1>3, <1>4, <1>5, <1>6

LEMMA DispatchKnows ==
  ASSUME SessionsInv, StepClasses, NEW w \in Workers,
         ClaimDispatch(w) \/ Send(w) \/ RecordAcceptance(w) \/ ClaimRecovery(w)
  PROVE  InvocationKnows(w)'
<1>1. \A pc \in {"complete", "send", "record", "recover_stripe", "record_failure"} : pc \in PlainPCs
  BY DEF PlainPCs, WorkerPCs
<1>2. \A e \in {"definite", "aborted", "mail_ambiguous", "mail_rejected"} :
        e \in Errors \ {"expired"}
  BY DEF Errors
<1> QED BY <1>1, <1>2, DispatchForward, PlainKnows, PlainStep

LEMMA CleanupKnows ==
  ASSUME SessionsInv, StepClasses, NEW w \in Workers, Proceed(w, CleanupPC(w))
  PROVE  InvocationKnows(w)'
<1>1. WorkerTyped
  BY DEF SessionsInv, RailsInv, RailsTypeOK, TypeOK, WorkerTyped
<1>2. CASE CleanupPC(w) = "idle"
  BY <1>2, PlainStep DEF Proceed
<1>3. CASE CleanupPC(w) = "mark_failed"
  BY <1>3, PlainStep DEF Proceed, PlainPCs, WorkerPCs
<1>4. CASE CleanupPC(w) = "neutralize"
  <2>1. Prepares(worker[w].prep)
    BY <1>4 DEF CleanupPC
  <2>2. Forward(w, "neutralize", worker[w].err, worker[w].obs)
    BY <1>1, <1>4, GotoForward DEF Proceed
  <2>3. PICK s : s = worker[w].prep.session
    OBVIOUS
  <2> QED BY <2>1, <2>2, <2>3, ForwardKnows
<1> QED BY <1>2, <1>3, <1>4 DEF CleanupPC

LEMMA RecordFailureKnows ==
  ASSUME SessionsInv, StepClasses, NEW w \in Workers, RecordFailure(w)
  PROVE  InvocationKnows(w)'
<1>1. WorkerTyped
  BY DEF SessionsInv, RailsInv, RailsTypeOK, TypeOK, WorkerTyped
<1>2. \/ Proceed(w, CleanupPC(w)) \/ Return(w)
      \/ worker[w].err = "expired" /\ Goto(w, "close_accepted")
  BY DEF RecordFailure, Proceed
<1>3. CASE worker[w].err = "expired" /\ Goto(w, "close_accepted")
  <2>1. Forward(w, "close_accepted", worker[w].err, worker[w].obs)
    BY <1>1, <1>3, GotoForward
  <2>2. PICK s : s = worker[w].prep.session
    OBVIOUS
  <2> QED BY <1>3, <2>1, <2>2, ForwardKnows
<1> QED BY <1>2, <1>3, CleanupKnows, PlainStep

\* Where the catch block and the failure of a dispatch lead.
LEMMA CleanupForward ==
  ASSUME SessionsInv, NEW w \in Workers, CleanupPC(w) # "idle",
         Forward(w, CleanupPC(w), worker[w].err, worker[w].obs)
  PROVE  \/ /\ Forward(w, "mark_failed", worker[w].err, worker[w].obs)
            /\ ~Prepares(worker[w].prep) \/ worker[w].prep.reused
         \/ /\ Forward(w, "neutralize", worker[w].err, worker[w].obs)
            /\ Prepares(worker[w].prep)
  BY DEF CleanupPC

LEMMA CatchForward ==
  ASSUME SessionsInv, NEW w \in Workers, Catch(w)
  PROVE  \/ Return(w)
         \/ Forward(w, "claim_recovery", worker[w].err, worker[w].obs)
         \/ Forward(w, "record_failure", worker[w].err, worker[w].obs)
         \/ CleanupPC(w) # "idle" /\ Forward(w, CleanupPC(w), worker[w].err, worker[w].obs)
<1>1. WorkerTyped
  BY DEF SessionsInv, RailsInv, RailsTypeOK, TypeOK, WorkerTyped
<1>2. PICK readFails \in BOOLEAN :
        \/ Return(w)
        \/ worker' = [worker EXCEPT ![w] =
             IF RecoverableDispatch(w)
               THEN [[worker[w] EXCEPT !.uncertain = readFails] EXCEPT !.pc = "claim_recovery"]
             ELSE IF [worker[w] EXCEPT !.uncertain = readFails].disp # "none"
               THEN [[worker[w] EXCEPT !.uncertain = readFails] EXCEPT !.pc = "record_failure"]
             ELSE IF readFails \/ CleanupPC(w) = "idle" THEN Idle
             ELSE [[worker[w] EXCEPT !.uncertain = readFails] EXCEPT !.pc = CleanupPC(w)]]
  BY Zenon DEF Catch
<1> DEFINE v == [worker[w] EXCEPT !.uncertain = readFails]
           To(pc) == worker' = [worker EXCEPT ![w] = [v EXCEPT !.pc = pc]]
<1>3. ASSUME NEW pc, To(pc) PROVE Forward(w, pc, worker[w].err, worker[w].obs)
  BY <1>1, <1>3, OtherForward
<1> HIDE DEF v
<1>4. \/ Return(w) \/ To("claim_recovery") \/ To("record_failure")
      \/ CleanupPC(w) # "idle" /\ To(CleanupPC(w))
  BY <1>2 DEF Return, v
<1> HIDE DEF To
<1> QED BY <1>3, <1>4

LEMMA CatchKnows ==
  ASSUME SessionsInv, StepClasses, NEW w \in Workers, Catch(w)
  PROVE  InvocationKnows(w)'
<1>1. \A pc \in {"claim_recovery", "record_failure", "mark_failed"} : pc \in PlainPCs
  BY DEF PlainPCs, WorkerPCs
<1>2. PICK s : s = worker[w].prep.session
  OBVIOUS
<1>3. CASE Forward(w, "neutralize", worker[w].err, worker[w].obs) /\ Prepares(worker[w].prep)
  BY <1>2, <1>3, ForwardKnows
<1> QED BY <1>1, <1>3, CatchForward, CleanupForward, PlainKnows, PlainStep

LEMMA RecoverStripeKnows ==
  ASSUME SessionsInv, StepClasses, NEW w \in Workers, RecoverStripe(w)
  PROVE  InvocationKnows(w)'
<1>1. PICK s : s = worker[w].prep.session
  OBVIOUS
<1>2. /\ WorkerTyped /\ s \in Sessions
      /\ stripe \in [Sessions -> SessionRecords]
  BY <1>1 DEF RecoverStripe, At, SessionsInv, SessionInv, RailsInv, RailsTypeOK, TypeOK,
              WorkerTyped, SagaInv, InvocationOK, InvocationKnows, Used
<1>3. ASSUME NEW o, worker' = [worker EXCEPT ![w].pc = "recover_close", ![w].obs = o],
             Final(o) => stripe'[s].status = o
      PROVE  InvocationKnows(w)'
  <2>1. Forward(w, "recover_close", worker[w].err, o)
    BY <1>2, <1>3, ObserveForward
  <2> QED BY <1>1, <1>3, <2>1, ForwardKnows
<1>4. \/ /\ UNCHANGED stripe
         /\ \/ worker' = [worker EXCEPT ![w].pc = "recover_close", ![w].obs = ""]
            \/ worker' = [worker EXCEPT ![w].pc = "recover_close", ![w].obs = stripe[s].status]
      \/ /\ stripe' = [stripe EXCEPT ![s].status = "expired"]
         /\ \/ worker' = [worker EXCEPT ![w].pc = "recover_close", ![w].obs = "expired"]
            \/ worker' = [worker EXCEPT ![w].pc = "recover_close", ![w].obs = "open"]
  BY <1>1 DEF RecoverStripe
<1>5. stripe' = [stripe EXCEPT ![s].status = "expired"] => stripe'[s].status = "expired"
  BY <1>2 DEF SessionRecords
<1>6. ~Final("") /\ ~Final("open")
  BY DEF Final
<1> QED BY <1>3, <1>4, <1>5, <1>6

LEMMA NeutralizeKnows ==
  ASSUME SessionsInv, StepClasses, NEW w \in Workers, Neutralize(w)
  PROVE  InvocationKnows(w)'
<1>1. PICK s : s = worker[w].prep.session
  OBVIOUS
<1>2. /\ WorkerTyped /\ Prepares(worker[w].prep) /\ s \in Sessions
      /\ stripe \in [Sessions -> SessionRecords]
  BY <1>1 DEF Neutralize, At, SessionsInv, SessionInv, RailsInv, RailsTypeOK, TypeOK,
              WorkerTyped, InvocationKnows, Used
<1>3. Return(w) \/ (Goto(w, "mark_expired") /\ stripe'[s].status = "expired")
  <2>1. \/ Return(w)
        \/ /\ Goto(w, "mark_expired")
           /\ \/ stripe[s].status = "expired" /\ UNCHANGED stripe
              \/ stripe' = [stripe EXCEPT ![s].status = "expired"]
    BY <1>1 DEF Neutralize
  <2> QED BY <1>2, <2>1 DEF SessionRecords
<1>4. CASE Goto(w, "mark_expired") /\ stripe'[s].status = "expired"
  <2>1. Forward(w, "mark_expired", worker[w].err, worker[w].obs)
    BY <1>2, <1>4, GotoForward
  <2> QED BY <1>1, <1>2, <1>4, <2>1, ForwardKnows
<1> QED BY <1>3, <1>4, PlainStep

(* Every other step of an invocation is plain.                              *)
LEMMA PlainSteps ==
  ASSUME NEW w \in Workers,
         \/ CloseUnprepared(w) \/ PrepareRefused(w) \/ CreateSessionFails(w)
         \/ DiscardCreated(w) \/ PersistFails(w) \/ Complete(w) \/ RecoverClose(w)
         \/ CloseAccepted(w) \/ MarkExpired(w) \/ Advance(w) \/ CheckResolved(w)
         \/ MarkFailed(w) \/ Die(w)
  PROVE  \/ Return(w)
         \/ \E e \in Errors \ {"expired"} : Throw(w, e)
         \/ \E pc \in PlainPCs : Goto(w, pc)
<1>1. \A e \in {"definite", "network", "aborted", "prep_ambiguous"} : e \in Errors \ {"expired"}
  BY DEF Errors
<1>2. \A pc \in {"mark_failed", "advance", "check_resolved"} : pc \in PlainPCs
  BY DEF PlainPCs, WorkerPCs
<1>3. CASE CloseUnprepared(w) \/ Complete(w) \/ RecoverClose(w) \/ CloseAccepted(w)
           \/ MarkFailed(w) \/ Die(w)
  BY <1>3 DEF CloseUnprepared, Complete, RecoverClose, CloseAccepted, MarkFailed, Die
<1>4. CASE MarkExpired(w) \/ Advance(w) \/ CheckResolved(w)
  BY <1>2, <1>4 DEF MarkExpired, Advance, CheckResolved
<1>5. CASE PrepareRefused(w) \/ CreateSessionFails(w) \/ DiscardCreated(w)
  BY <1>1, <1>5 DEF PrepareRefused, CreateSessionFails, DiscardCreated
<1>6. CASE PersistFails(w)
  BY <1>1, <1>6 DEF PersistFails
<1> QED BY <1>3, <1>4, <1>5, <1>6

LEMMA StepKnows ==
  ASSUME SessionsInv, StepClasses, NEW w \in Workers, Step(w) \/ Die(w)
  PROVE  InvocationKnows(w)'
  BY PlainSteps, PlainStep, PrepareReuseKnows, NewSessionKnows, PersistKnows, RestoreKnows,
     DispatchKnows, CatchKnows, RecoverStripeKnows, RecordFailureKnows, NeutralizeKnows
     DEF Step

(* No step but an invocation's own changes what it remembers.               *)
LEMMA OthersStay ==
  ASSUME SessionsInv, NEW w \in Workers, NEW v \in Workers, v # w, Step(w) \/ Die(w)
  PROVE  worker'[v] = worker[v]
<1> DEFINE Own == worker'[v] = worker[v]
<1> WorkerTyped
  BY DEF SessionsInv, RailsInv, RailsTypeOK, TypeOK, WorkerTyped
<1>1. /\ \A pc : Goto(w, pc) => Own
      /\ \A e : Throw(w, e) => Own
      /\ Return(w) => Own
      /\ \A pc : Proceed(w, pc) => Own
  BY DEF WorkerTyped, Goto, Throw, Return, Proceed
<1>2. /\ \A x : worker' = [worker EXCEPT ![w] = x] => Own
      /\ \A pc, u : worker' = [worker EXCEPT ![w].pc = pc, ![w].disp = u] => Own
      /\ \A pc, u : worker' = [worker EXCEPT ![w].pc = pc, ![w].disp = u, ![w].accepted = TRUE] => Own
      /\ \A pc : worker' = [worker EXCEPT ![w].pc = pc, ![w].accepted = TRUE] => Own
      /\ \A pc, p : worker' = [worker EXCEPT ![w].pc = pc, ![w].prep = p] => Own
      /\ \A pc, o : worker' = [worker EXCEPT ![w].pc = pc, ![w].obs = o] => Own
  BY DEF WorkerTyped
<1> SUFFICES Own
  OBVIOUS
<1> HIDE DEF Own
<1>3. CASE Die(w) \/ CloseUnprepared(w) \/ Complete(w) \/ RecoverClose(w) \/ CloseAccepted(w)
           \/ MarkFailed(w) \/ MarkExpired(w) \/ Advance(w) \/ CheckResolved(w)
  BY <1>1, <1>3 DEF Die, CloseUnprepared, Complete, RecoverClose, CloseAccepted, MarkFailed,
                    MarkExpired, Advance, CheckResolved
<1>4. CASE PrepareRefused(w) \/ CreateSessionFails(w) \/ DiscardCreated(w) \/ PersistFails(w)
           \/ Restore(w) \/ Neutralize(w)
  BY <1>1, <1>4 DEF PrepareRefused, CreateSessionFails, DiscardCreated, PersistFails, Restore,
                    Neutralize
<1>5. CASE PrepareReuse(w) \/ CreateSession(w) \/ ReplaySession(w) \/ Persist(w)
  BY <1>1, <1>2, <1>5 DEF PrepareReuse, CreateSession, ReplaySession, Adopt, Persist
<1>6. CASE Send(w) \/ RecordAcceptance(w) \/ RecoverStripe(w) \/ ClaimRecovery(w) \/ Catch(w)
  BY <1>1, <1>2, <1>6, Zenon DEF Send, RecordAcceptance, RecoverStripe, ClaimRecovery, Catch
<1>7. CASE RecordFailure(w)
  BY <1>1, <1>7 DEF RecordFailure
<1>8. CASE ClaimDispatch(w)
  <2>1. \/ Throw(w, "definite") \/ Throw(w, "aborted")
        \/ worker' = [worker EXCEPT ![w].pc = "complete", ![w].disp = "provider_accepted",
                                    ![w].accepted = TRUE]
        \/ worker' = [worker EXCEPT ![w].pc = "send", ![w].disp = "sending"]
    BY <1>8, DispatchMoves
  <2> QED BY <1>1, <1>2, <2>1
<1> QED BY <1>3, <1>4, <1>5, <1>6, <1>7, <1>8 DEF Step

(* What every invocation remembers, after any step.                         *)
LEMMA InvocationsStep ==
  ASSUME SessionsInv, [RailsNext]_allVars, NEW v \in Workers
  PROVE  InvocationKnows(v)'
<1>1. StepClasses
  BY Classified
<1>2. CASE worker'[v] = worker[v]
  BY <1>1, <1>2, InvocationStays
<1>3. CASE \E w \in Workers : Step(w) \/ Die(w)
  BY <1>1, <1>2, <1>3, StepKnows, OthersStay
<1>4. CASE \E w \in Workers, a \in Approvals, adm \in Admins :
             Claim(w, a, adm) \/ ClaimRefused(w, a, adm)
  <2>1. PICK w \in Workers, a \in Approvals, adm \in Admins :
          Claim(w, a, adm) \/ ClaimRefused(w, a, adm)
    BY <1>4
  <2>2. worker \in [Workers -> Invocations]
    BY DEF SessionsInv, RailsInv, RailsTypeOK, TypeOK
  <2>3. v # w => worker'[v] = worker[v]
    BY <2>1, <2>2 DEF Claim, ClaimRefused
  <2> QED BY <1>1, <1>2, <2>1, <2>3, ClaimKnows, ClaimRefusedKnows
<1>5. CASE Next
  BY <1>2, <1>3, <1>4, <1>5
     DEF Next, RequestApproval, ResolveApproval, Environment, SessionTimesOut, CustomerPays,
         AsyncPaymentSettles, PortalExpires, DispatchGoesStale
<1>6. CASE Webhook \/ Staff
  BY <1>2, <1>6
     DEF Webhook, Staff, vars, WebhookReads, WebhookPatches, WebhookAuditsStale, WebhookDies,
         BeginReconcile, BeginRotation, ClerkRetrieves, ClerkPatches, CommitRotation, ClerkDies
<1> QED BY <1>2, <1>5, <1>6 DEF RailsNext, allVars

-----------------------------------------------------------------------------
(***************************************************************************)
(* What a delivery and a staff call remember of Stripe.                    *)
(***************************************************************************)
LEMMA DeliveryStays ==
  ASSUME SessionsInv, StepClasses, NEW d \in Deliveries, delivery'[d] = delivery[d]
  PROVE  DeliveryKnows(d)'
<1>1. PICK s : s = delivery[d].session
  OBVIOUS
<1>2. /\ delivery[d].active => s \in Sessions
      /\ Final(delivery[d].kind) => s \in Sessions /\ stripe[s].status = delivery[d].kind
  BY <1>1 DEF SessionsInv, SessionInv, DeliveryKnows
<1>3. Final(delivery[d].kind) => stripe'[s].status = delivery[d].kind
  BY <1>2, UsedStays DEF StepClasses
<1> QED BY <1>1, <1>2, <1>3 DEF DeliveryKnows, Final

LEMMA DeliveriesStep ==
  ASSUME SessionsInv, [RailsNext]_allVars, NEW e \in Deliveries
  PROVE  DeliveryKnows(e)'
<1>1. StepClasses
  BY Classified
<1>2. delivery \in [Deliveries -> DeliveryStates]
  BY RailsTypes DEF SessionsInv, DeliveryTyped
<1>3. CASE delivery'[e] = delivery[e]
  BY <1>1, <1>3, DeliveryStays
<1>4. CASE delivery'[e] = NoDelivery
  <2>1. ~NoDelivery.active /\ NoDelivery.kind = ""
    BY DEF NoDelivery
  <2> QED BY <1>4, <2>1 DEF DeliveryKnows, Final
<1>5. ASSUME NEW d \in Deliveries, NEW s \in Sessions, NEW k \in ProviderStates,
             WebhookReads(d, s, k)
      PROVE  DeliveryKnows(e)'
  <2> DEFINE r == [session |-> s, kind |-> k, active |-> payment.session = s, key |-> portal.key]
  <2>1. delivery' = [delivery EXCEPT ![d] = r] /\ UNCHANGED stripe /\ Emitted(s, k)
    BY <1>5 DEF WebhookReads, vars
  <2>2. r.session = s /\ r.kind = k
    OBVIOUS
  <2>3. Final(k) => stripe[s].status = k
    BY <2>1 DEF Emitted, Final
  <2> HIDE DEF r
  <2>4. e # d => delivery'[e] = delivery[e]
    BY <1>2, <2>1
  <2>5. delivery'[d] = r
    BY <1>2, <2>1
  <2> QED BY <1>3, <2>1, <2>2, <2>3, <2>4, <2>5 DEF DeliveryKnows, Final
<1>6. ASSUME NEW d \in Deliveries, WebhookPatches(d) \/ WebhookAuditsStale(d) \/ WebhookDies(d)
      PROVE  DeliveryKnows(e)'
  <2>1. delivery' = [delivery EXCEPT ![d] = NoDelivery]
    BY <1>6 DEF WebhookPatches, WebhookAuditsStale, WebhookDies
  <2> QED BY <1>2, <1>3, <1>4, <2>1
<1>7. CASE Webhook
  BY <1>5, <1>6, <1>7 DEF Webhook
<1>8. CASE UNCHANGED delivery
  BY <1>3, <1>8
<1>9. CASE Staff
  BY <1>8, <1>9 DEF Staff, BeginReconcile, BeginRotation, ClerkRetrieves, ClerkPatches,
                    CommitRotation, ClerkDies
<1> QED BY <1>7, <1>8, <1>9 DEF RailsNext, railsVars, allVars

LEMMA ClerkStays ==
  ASSUME SessionsInv, StepClasses, NEW c \in Clerks, clerk'[c] = clerk[c]
  PROVE  ClerkKnows(c)'
<1>1. PICK s : s = clerk[c].session
  OBVIOUS
<1>2. /\ clerk[c].pc \in {"retrieve", "patch"} => s \in Sessions
      /\ clerk[c].pc = "patch" /\ Final(clerk[c].obs) => stripe[s].status = clerk[c].obs
  BY <1>1, RailsTypes DEF SessionsInv, SessionInv, ClerkKnows, ClerkTyped, ClerkStates
<1>3. clerk[c].pc = "patch" /\ Final(clerk[c].obs) => stripe'[s].status = clerk[c].obs
  BY <1>2, UsedStays DEF StepClasses
<1> QED BY <1>1, <1>2, <1>3, NoSessionAssumption DEF ClerkKnows, Final

\* Going off duty or to the commit leaves nothing to know.
LEMMA ClerkLeaves ==
  ASSUME ClerkTyped, NEW c \in Clerks, ClerkReturns(c) \/ ClerkGoto(c, "commit")
  PROVE  ClerkKnows(c)'
<1>1. clerk'[c].pc \in {"idle", "commit"}
  <2>1. OffDuty.pc = "idle"
    BY DEF OffDuty
  <2>2. CASE ClerkReturns(c)
    BY <2>1, <2>2 DEF ClerkTyped, ClerkReturns
  <2>3. CASE ClerkGoto(c, "commit")
    BY <2>3 DEF ClerkTyped, ClerkStates, ClerkGoto
  <2> QED BY <2>2, <2>3
<1> QED BY <1>1 DEF ClerkKnows

LEMMA ClerkBegins ==
  ASSUME SessionsInv, NEW c \in Clerks, BeginReconcile(c) \/ BeginRotation(c)
  PROVE  ClerkKnows(c)'
<1>1. ClerkTyped
  BY RailsTypes DEF SessionsInv
<1>2. /\ clerk'[c].session = payment.session
      /\ \/ clerk'[c].pc = "retrieve" /\ payment.session # NoSession
         \/ clerk'[c].pc = "commit"
  <2>1. CASE BeginReconcile(c)
    <3> DEFINE r == [OffDuty EXCEPT !.pc = "retrieve", !.session = payment.session,
                                    !.key = portal.key]
    <3>1. clerk'[c] = r /\ payment.session # NoSession
      BY <1>1, <2>1 DEF BeginReconcile, ClerkTyped
    <3>2. r.pc = "retrieve" /\ r.session = payment.session
      BY DEF OffDuty
    <3> QED BY <3>1, <3>2
  <2>2. CASE BeginRotation(c)
    <3> DEFINE r == [OffDuty EXCEPT !.rotating = TRUE,
                 !.pc = IF RailClear(payment) THEN "commit" ELSE "retrieve",
                 !.session = payment.session, !.key = portal.key]
    <3>1. clerk'[c] = r
      BY <1>1, <2>2 DEF BeginRotation, ClerkTyped
    <3>2. r.session = payment.session /\ r.pc = IF RailClear(payment) THEN "commit" ELSE "retrieve"
      BY DEF OffDuty
    <3>3. RailClear(payment) \/ payment.session # NoSession
      BY <2>2 DEF BeginRotation, RailClear, PlanDepositCheckout
    <3> HIDE DEF r
    <3> QED BY <3>1, <3>2, <3>3
  <2> QED BY <2>1, <2>2
<1> QED BY <1>2 DEF ClerkKnows

LEMMA ClerkLooks ==
  ASSUME SessionsInv, NEW c \in Clerks, ClerkRetrieves(c)
  PROVE  ClerkKnows(c)'
<1>1. PICK s : s = clerk[c].session
  OBVIOUS
<1>2. /\ ClerkTyped /\ stripe \in [Sessions -> SessionRecords]
      /\ s \in Sessions /\ s # NoSession
  BY <1>1, RailsTypes DEF ClerkRetrieves, ClerkIs, SessionsInv, SessionInv, ClerkKnows,
                          ClerkTyped, ClerkStates
<1>3. ASSUME NEW o, clerk' = [clerk EXCEPT ![c].pc = "patch", ![c].obs = o], stripe'[s].status = o
      PROVE  ClerkKnows(c)'
  <2>1. clerk'[c].session = s /\ clerk'[c].obs = o
    BY <1>1, <1>2, <1>3 DEF ClerkTyped, ClerkStates
  <2> QED BY <1>2, <1>3, <2>1 DEF ClerkKnows, Final
<1>4. \/ ClerkReturns(c)
      \/ /\ UNCHANGED stripe
         /\ clerk' = [clerk EXCEPT ![c].pc = "patch", ![c].obs = stripe[s].status]
      \/ /\ stripe' = [stripe EXCEPT ![s].status = "expired"]
         /\ clerk' = [clerk EXCEPT ![c].pc = "patch", ![c].obs = "expired"]
  BY <1>1 DEF ClerkRetrieves, ClerkSees
<1>5. stripe' = [stripe EXCEPT ![s].status = "expired"] => stripe'[s].status = "expired"
  BY <1>2 DEF SessionRecords
<1> QED BY <1>2, <1>3, <1>4, <1>5, ClerkLeaves

LEMMA ClerksStep ==
  ASSUME SessionsInv, [RailsNext]_allVars, NEW e \in Clerks
  PROVE  ClerkKnows(e)'
<1>1. StepClasses
  BY Classified
<1>2. ClerkTyped
  BY RailsTypes DEF SessionsInv
<1>3. CASE clerk'[e] = clerk[e]
  BY <1>1, <1>3, ClerkStays
<1>4. ASSUME NEW c \in Clerks, c # e,
             \/ BeginReconcile(c) \/ BeginRotation(c) \/ ClerkRetrieves(c)
             \/ ClerkPatches(c) \/ CommitRotation(c) \/ ClerkDies(c)
      PROVE  clerk'[e] = clerk[e]
  <2>1. CASE BeginReconcile(c) \/ BeginRotation(c)
    BY <1>2, <1>4, <2>1 DEF BeginReconcile, BeginRotation, ClerkTyped
  <2>2. CASE ClerkRetrieves(c)
    BY <1>2, <1>4, <2>2 DEF ClerkRetrieves, ClerkSees, ClerkReturns, ClerkTyped
  <2>3. CASE ClerkPatches(c) \/ CommitRotation(c) \/ ClerkDies(c)
    BY <1>2, <1>4, <2>3 DEF ClerkPatches, CommitRotation, ClerkDies, ClerkGoto, ClerkReturns,
                            ClerkTyped
  <2> QED BY <1>4, <2>1, <2>2, <2>3
<1>5. CASE ClerkPatches(e) \/ CommitRotation(e) \/ ClerkDies(e)
  BY <1>2, <1>5, ClerkLeaves DEF ClerkPatches, CommitRotation, ClerkDies
<1>6. CASE Staff
  BY <1>3, <1>4, <1>5, <1>6, ClerkBegins, ClerkLooks DEF Staff
<1>7. CASE Webhook
  BY <1>3, <1>7 DEF Webhook, WebhookReads, WebhookPatches, WebhookAuditsStale, WebhookDies
<1> QED BY <1>3, <1>6, <1>7 DEF RailsNext, railsVars, allVars

-----------------------------------------------------------------------------
(* The invariant.                                                           *)
LEMMA InitSessions == RailsInit => SessionsInv
<1> SUFFICES ASSUME RailsInit PROVE SessionsInv
  OBVIOUS
<1>1. RailsInv
  BY InitRails
<1>2. payment = UnpaidQuote /\ ~Settled(payment) /\ payment.session = NoSession
      /\ payment.checkout = "" /\ ~payment.link
  BY DEF RailsInit, Init, UnpaidQuote, Settled
<1>3. \A s \in Sessions : stripe[s].status = "unused"
  BY DEF RailsInit, Init, UnusedSession
<1>4. \A a \in Approvals : ~Prepares(exec[a].prep) /\ ~exec[a].prep.reused /\ exec[a].state = "none"
  BY DEF RailsInit, Init, NoExecution, NoPreparation, Prepares
<1>5. \A w \in Workers : /\ worker[w].pc = "idle" /\ worker[w].err = ""
                         /\ ~Prepares(worker[w].prep) /\ ~worker[w].prep.reused
  BY DEF RailsInit, Init, Idle, NoPreparation, Prepares
<1>6. \A d \in Deliveries : ~delivery[d].active /\ delivery[d].kind = ""
  BY DEF RailsInit, NoDelivery
<1>7. \A c \in Clerks : clerk[c].pc = "idle"
  BY DEF RailsInit, OffDuty
<1>8. RecordFollowsStripe /\ RecordNames /\ ChargedIsRecorded /\ PreparedIsRecorded /\ OnPortal
  BY <1>2, <1>3, <1>4 DEF RecordFollowsStripe, RecordNames, ChargedIsRecorded,
                          PreparedIsRecorded, OnPortal
<1>9. /\ \A a \in Approvals : ExecutionKnows(a)
      /\ \A w \in Workers : InvocationKnows(w)
  BY <1>4, <1>5 DEF ExecutionKnows, InvocationKnows
<1>10. /\ \A d \in Deliveries : DeliveryKnows(d)
       /\ \A c \in Clerks : ClerkKnows(c)
  BY <1>6, <1>7 DEF DeliveryKnows, ClerkKnows, Final
<1> QED BY <1>1, <1>8, <1>9, <1>10 DEF SessionsInv, SessionInv

LEMMA SessionsStep == SessionsInv /\ [RailsNext]_allVars => SessionsInv'
<1> SUFFICES ASSUME SessionsInv, [RailsNext]_allVars PROVE SessionsInv'
  OBVIOUS
<1>1. RailsInv'
  BY RailsStep DEF SessionsInv
<1>2. RecordFollowsStripe' /\ RecordNames' /\ ChargedIsRecorded' /\ PreparedIsRecorded' /\ OnPortal'
  BY Classified, RecordStep, ChargedStep, PreparedStep, PortalSessionStep
<1>3. \A a \in Approvals : ExecutionKnows(a)'
  BY Classified, ExecutionsKnow
<1>4. \A w \in Workers : InvocationKnows(w)'
  BY InvocationsStep
<1>5. /\ \A d \in Deliveries : DeliveryKnows(d)'
      /\ \A c \in Clerks : ClerkKnows(c)'
  BY DeliveriesStep, ClerksStep
<1> QED BY <1>1, <1>2, <1>3, <1>4, <1>5 DEF SessionsInv, SessionInv

(* What the writers of the record rely on together: the record and Stripe   *)
(* never part, whoever writes (index.js:27600, 24334, 7331, 7094, 6685).    *)
THEOREM RailsSessions == RailsSpec => []SessionInv
<1>1. RailsSpec => []SessionsInv
  BY InitSessions, SessionsStep, PTL DEF RailsSpec
<1>2. SessionsInv => SessionInv
  BY DEF SessionsInv
<1> QED BY <1>1, <1>2, PTL

(* Paid, failed and expired on the record are what Stripe says of the       *)
(* session on it, whoever wrote them: saga, webhook, reconciliation or      *)
(* rotation (index.js:7094, 7174, 7331, 6685).                              *)
THEOREM RailsRecord == RailsSpec => []RecordFollowsStripe
<1>1. RailsSpec => []SessionsInv
  BY InitSessions, SessionsStep, PTL DEF RailsSpec
<1>2. SessionsInv => RecordFollowsStripe
  BY DEF SessionsInv, SessionInv
<1> QED BY <1>1, <1>2, PTL

(* No two sessions are charged, or are both open to a customer who holds    *)
(* their link, however many approvals, invocations, sessions and rotations  *)
(* there are (index.js:27600, 24334).                                       *)
THEOREM RailsOneCharge == RailsSpec => []OneCharge
<1>1. RailsSpec => []SessionsInv
  BY InitSessions, SessionsStep, PTL DEF RailsSpec
<1>2. SessionsInv => OneCharge
  <2> SUFFICES ASSUME SessionsInv, NEW s \in Sessions, Chargeable(s) PROVE payment.session = s
    BY DEF OneCharge
  <2>1. CASE stripe[s].status = "open" /\ Exposed(s)
    BY <2>1, ExposedIsRecorded
  <2>2. CASE stripe[s].status \in {"processing", "paid"}
    BY <2>2 DEF SessionsInv, SessionInv, ChargedIsRecorded
  <2> QED BY <2>1, <2>2 DEF Chargeable
<1> QED BY <1>1, <1>2, PTL

(* A payment that Stripe took is on the record, or its session still is and *)
(* hangs on the quote's own portal, so that an event or a reconciliation    *)
(* can record it: no rotation and no later session takes it out of reach    *)
(* (index.js:30026, 6685, 22541).                                           *)
THEOREM RailsPaidRecordable == RailsSpec => []PaidStaysRecordable
<1>1. RailsSpec => []SessionsInv
  BY InitSessions, SessionsStep, PTL DEF RailsSpec
<1>2. SessionsInv => PaidStaysRecordable
  <2> SUFFICES ASSUME SessionsInv, NEW s \in Sessions, stripe[s].status = "paid",
                      ~Settled(payment)
               PROVE  payment.session = s /\ stripe[s].portal = portal.key
    BY DEF PaidStaysRecordable
  <2>1. payment.session = s /\ s # NoSession
    BY NoSessionAssumption DEF SessionsInv, SessionInv, ChargedIsRecorded
  <2>2. ~Closed(s)
    BY DEF Closed
  <2> QED BY <2>1, <2>2 DEF SessionsInv, SessionInv, OnPortal
<1> QED BY <1>1, <1>2, PTL

(* A step that puts another session on the record does it in a later        *)
(* generation, on an unsettled deposit, and in the place of none or of one  *)
(* that Stripe has closed (assertPreparedCheckoutSource, index.js:27600).   *)
THEOREM RailsSuccession == RailsSpec => SessionsSucceed
<1>1. RailsSpec => []SessionsInv
  BY InitSessions, SessionsStep, PTL DEF RailsSpec
<1>2. SessionsInv /\ [RailsNext]_allVars => [Succession]_allVars
  <2> SUFFICES ASSUME SessionsInv, [RailsNext]_allVars, payment'.session # payment.session
               PROVE  /\ payment'.gen > payment.gen /\ ~Settled(payment)
                      /\ payment.session # NoSession => Closed(payment.session)
    BY DEF Succession, Closed
  <2>1. PICK s \in Sessions : Replaces(s)
    BY PaymentStep DEF PaymentKept, Replaced
  <2>2. payment.gen \in Nat
    BY DEF SessionsInv, RailsInv, RailsTypeOK, TypeOK, Payments
  <2>3. payment'.gen = payment.gen + 1 /\ PreparedSource(payment)
    BY <2>1 DEF Replaces, PreparedPayment
  <2>4. ~Settled(payment)
    BY <2>3 DEF PreparedSource, Settled
  <2> QED BY <2>2, <2>3, <2>4, ReplacedIsClosed
<1> QED BY <1>1, <1>2, PTL DEF RailsSpec, SessionsSucceed

-----------------------------------------------------------------------------
(***************************************************************************)
(* The refinement of DepositOnce.  A step changes the record or Stripe's   *)
(* sessions, never both, and of the sessions one.                          *)
(***************************************************************************)

\* How one session moves: silently, to its end without payment, or paid.
Silent(x, y) == x.status \in {"unused", "open"} /\ y.status \in {"open", "processing"}

Closing(x, y) == x.status \in {"open", "processing"} /\ y.status \in {"failed", "expired"}

Paying(x, y) == x.status \in {"open", "processing"} /\ y.status = "paid"

OneMoves ==
  /\ UNCHANGED payment
  /\ \E s \in Sessions :
       /\ \A t \in Sessions \ {s} : stripe'[t] = stripe[t]
       /\ \/ Silent(stripe[s], stripe'[s])
          \/ Closing(stripe[s], stripe'[s])
          \/ Paying(stripe[s], stripe'[s])

LEMMA OneMovesBy ==
  ASSUME SessionsInv, UNCHANGED payment, NEW s, NEW x, stripe' = [stripe EXCEPT ![s] = x],
         Silent(stripe[s], x) \/ Closing(stripe[s], x) \/ Paying(stripe[s], x)
  PROVE  UNCHANGED stripe \/ OneMoves
<1>1. stripe \in [Sessions -> SessionRecords]
  BY RailsTypes DEF SessionsInv
<1>2. CASE s \in Sessions
  <2>1. stripe'[s] = x /\ \A t \in Sessions \ {s} : stripe'[t] = stripe[t]
    BY <1>1, <1>2
  <2> QED BY <1>2, <2>1 DEF OneMoves
<1>3. CASE s \notin Sessions
  BY <1>1, <1>3
<1> QED BY <1>2, <1>3

LEMMA ExpiresOne ==
  ASSUME SessionsInv, UNCHANGED payment, NEW s, NEW st, st \in {"expired", "failed", "paid"},
         stripe[s].status \in {"open", "processing"},
         stripe' = [stripe EXCEPT ![s].status = st]
  PROVE  UNCHANGED stripe \/ OneMoves
<1> DEFINE x == [stripe[s] EXCEPT !.status = st]
<1>1. stripe \in [Sessions -> SessionRecords]
  BY RailsTypes DEF SessionsInv
<1>2. CASE s \notin Sessions
  BY <1>1, <1>2
<1>3. CASE s \in Sessions
  <2>1. stripe' = [stripe EXCEPT ![s] = x] /\ x.status = st
    BY <1>1, <1>3 DEF SessionRecords
  <2> HIDE DEF x
  <2> QED BY <2>1, OneMovesBy DEF Closing, Paying
<1> QED BY <1>2, <1>3

LEMMA OneMovesStep == SessionsInv /\ [RailsNext]_allVars => UNCHANGED stripe \/ OneMoves
<1> SUFFICES ASSUME SessionsInv, [RailsNext]_allVars PROVE UNCHANGED stripe \/ OneMoves
  OBVIOUS
<1>1. stripe \in [Sessions -> SessionRecords]
  BY RailsTypes DEF SessionsInv
<1>2. ASSUME NEW w \in Workers, CreateSession(w) PROVE UNCHANGED stripe \/ OneMoves
  <2> DEFINE r == [status |-> "open", portal |-> scope[worker[w].appr],
                   gen |-> worker[w].pay.gen + 1, appr |-> worker[w].appr, async |-> FALSE]
  <2>1. PICK s \in Sessions : stripe[s].status = "unused" /\ stripe' = [stripe EXCEPT ![s] = r]
    BY <1>2 DEF CreateSession
  <2>2. r.status = "open" /\ UNCHANGED payment
    BY <1>2 DEF CreateSession
  <2> HIDE DEF r
  <2> QED BY <2>1, <2>2, OneMovesBy DEF Silent
<1>3. ASSUME NEW w \in Workers, Step(w) PROVE UNCHANGED stripe \/ OneMoves
  <2>1. CASE RecoverStripe(w)
    BY <2>1, ExpiresOne DEF RecoverStripe
  <2>2. CASE Neutralize(w)
    BY <2>2, ExpiresOne DEF Neutralize
  <2> QED BY <1>2, <1>3, <2>1, <2>2
          DEF Step, CloseUnprepared, PrepareReuse, PrepareRefused, ReplaySession,
              CreateSessionFails, DiscardCreated, Persist, PersistFails, Restore,
              ClaimDispatch, Send, RecordAcceptance, Complete, Catch, ClaimRecovery,
              RecoverClose, RecordFailure, CloseAccepted, MarkExpired, Advance,
              CheckResolved, MarkFailed
<1>4. ASSUME NEW s \in Sessions, CustomerPays(s) PROVE UNCHANGED stripe \/ OneMoves
  <2>1. CASE stripe' = [stripe EXCEPT ![s].status = "paid"]
    BY <1>4, <2>1, ExpiresOne DEF CustomerPays
  <2>2. CASE stripe' = [stripe EXCEPT ![s].status = "processing", ![s].async = TRUE]
    <3> DEFINE x == [stripe[s] EXCEPT !.status = "processing", !.async = TRUE]
    <3>1. stripe' = [stripe EXCEPT ![s] = x] /\ x.status = "processing"
      BY <1>1, <2>2 DEF SessionRecords
    <3>2. stripe[s].status = "open" /\ UNCHANGED payment
      BY <1>4 DEF CustomerPays
    <3> HIDE DEF x
    <3> QED BY <3>1, <3>2, OneMovesBy DEF Silent
  <2> QED BY <1>4, <2>1, <2>2 DEF CustomerPays
<1>5. ASSUME NEW s \in Sessions, SessionTimesOut(s) \/ AsyncPaymentSettles(s)
      PROVE  UNCHANGED stripe \/ OneMoves
  BY <1>5, ExpiresOne DEF SessionTimesOut, AsyncPaymentSettles
<1>6. ASSUME NEW c \in Clerks, ClerkRetrieves(c) PROVE UNCHANGED stripe \/ OneMoves
  BY <1>6, ExpiresOne DEF ClerkRetrieves
<1>7. CASE Next
  BY <1>3, <1>4, <1>5, <1>7
     DEF Next, RequestApproval, ResolveApproval, Claim, ClaimRefused, Die, Environment,
         PortalExpires, DispatchGoesStale
<1>8. CASE Webhook \/ Staff
  BY <1>6, <1>8
     DEF Webhook, Staff, vars, WebhookReads, WebhookPatches, WebhookAuditsStale, WebhookDies,
         BeginReconcile, BeginRotation, ClerkPatches, CommitRotation, ClerkDies
<1> QED BY <1>7, <1>8 DEF RailsNext, allVars

\* What is on offer is the session on the record, unless it is closed.
LEMMA OnOfferIs ==
  ASSUME SessionsInv
  PROVE  /\ payment.session \in Sessions \cup {NoSession}
         /\ payment.session = NoSession \/ Closed(payment.session) => OnOffer = NoSession
         /\ payment.session # NoSession /\ ~Closed(payment.session) =>
              OnOffer = payment.session /\ OnOffer \in Sessions
<1>1. payment.session \in Sessions \cup {NoSession}
  BY RailsTypes DEF SessionsInv
<1> QED BY <1>1 DEF OnOffer

(* A session that is paid is the only one, and it is on offer.              *)
LEMMA PaidIsOnOffer ==
  ASSUME SessionsInv, NEW s \in Sessions, stripe[s].status = "paid"
  PROVE  PaidSessions = {s} /\ OnOffer = s /\ payment.session = s
<1>1. \A t \in Sessions : stripe[t].status = "paid" => payment.session = t
  BY DEF SessionsInv, SessionInv, ChargedIsRecorded
<1>2. ~Closed(s) /\ s # NoSession
  BY NoSessionAssumption DEF Closed
<1> QED BY <1>1, <1>2, OnOfferIs DEF PaidSessions

LEMMA RecordRefines ==
  ASSUME SessionsInv, UNCHANGED stripe, PaymentKept
  PROVE  Deposit!Record \/ UNCHANGED Deposit!vars
<1>1. UNCHANGED <<OnOffer, ClosedSessions, PaidSessions>>
  BY DEF PaymentKept, OnOffer, ClosedSessions, PaidSessions, Closed
<1>2. CASE Settled(payment') => Settled(payment)
  <2>1. UNCHANGED RecordedFor
    BY <1>2 DEF PaymentKept, RecordedFor
  <2> QED BY <1>1, <2>1 DEF Deposit!vars
<1>3. CASE Settled(payment') /\ ~Settled(payment)
  <2>1. payment'.checkout = "paid"
    BY <1>3 DEF PaymentKept
  <2>2. payment.session \in Sessions /\ stripe[payment.session].status = "paid"
    BY <2>1, RailsTypes
       DEF PaymentKept, Final, SessionsInv, SessionInv, RecordNames, RecordFollowsStripe
  <2>3. PaidSessions = {OnOffer} /\ OnOffer = payment.session
    BY <2>2, PaidIsOnOffer
  <2>4. RecordedFor = NoSession /\ RecordedFor' = payment.session
    BY <1>3 DEF RecordedFor, PaymentKept
  <2> QED BY <1>1, <2>3, <2>4 DEF Deposit!Record
<1> QED BY <1>2, <1>3

LEMMA OfferRefines ==
  ASSUME SessionsInv, Replaced
  PROVE  (\E s \in Sessions : Deposit!Offer(s)) \/ UNCHANGED Deposit!vars
<1>1. PICK s \in Sessions : Replaces(s)
  BY DEF Replaced
<1>2. /\ payment'.session = s /\ ~Settled(payment') /\ ~Settled(payment) /\ UNCHANGED stripe
      /\ PreparedSource(payment)
  BY <1>1 DEF Replaced, Replaces, PreparedPayment, PreparedSource, Settled
<1>3. OnOffer = NoSession
  BY <1>2, OnOfferIs, ReplacedIsClosed
<1>4. UNCHANGED <<ClosedSessions, PaidSessions, RecordedFor>> /\ RecordedFor = NoSession
  BY <1>2 DEF ClosedSessions, PaidSessions, RecordedFor, Closed
<1>5. PaidSessions = {}
  BY <1>3, PaidIsOnOffer, NoSessionAssumption DEF PaidSessions
<1>6. CASE Closed(s)
  <2>1. OnOffer' = NoSession
    BY <1>2, <1>6 DEF OnOffer, Closed
  <2> QED BY <1>3, <1>4, <2>1 DEF Deposit!vars
<1>7. CASE ~Closed(s)
  <2>1. OnOffer' = s
    BY <1>2, <1>7, NoSessionAssumption DEF OnOffer, Closed
  <2>2. s \notin ClosedSessions
    BY <1>7 DEF ClosedSessions
  <2> QED BY <1>3, <1>4, <1>5, <2>1, <2>2 DEF Deposit!Offer
<1> QED BY <1>6, <1>7

LEMMA StripeRefines ==
  ASSUME SessionsInv, StripeKept, OneMoves
  PROVE  \/ \E s \in Sessions : Deposit!Close(s)
         \/ Deposit!Take \/ UNCHANGED Deposit!vars
<1>1. PICK s \in Sessions :
        /\ \A t \in Sessions \ {s} : stripe'[t] = stripe[t]
        /\ \/ Silent(stripe[s], stripe'[s])
           \/ Closing(stripe[s], stripe'[s])
           \/ Paying(stripe[s], stripe'[s])
  BY DEF OneMoves
<1>2. UNCHANGED payment /\ UNCHANGED RecordedFor
  BY DEF OneMoves, RecordedFor
<1>3. payment.session \in Sessions \cup {NoSession}
  BY OnOfferIs
<1>4. CASE Silent(stripe[s], stripe'[s])
  <2>1. \A t \in Sessions : /\ stripe'[t].status \in {"failed", "expired"} <=> Closed(t)
                            /\ stripe'[t].status = "paid" <=> stripe[t].status = "paid"
    BY <1>1, <1>4 DEF Silent, Closed
  <2>2. UNCHANGED <<ClosedSessions, PaidSessions>>
    BY <2>1 DEF ClosedSessions, PaidSessions, Closed
  <2>3. UNCHANGED OnOffer
    BY <1>2, <1>3, <2>1 DEF OnOffer, Closed
  <2> QED BY <1>2, <2>2, <2>3 DEF Deposit!vars
<1>5. CASE Closing(stripe[s], stripe'[s])
  <2>1. /\ ~Closed(s) /\ stripe[s].status # "paid"
        /\ stripe'[s].status \in {"failed", "expired"} /\ stripe'[s].status # "paid"
    BY <1>5 DEF Closing, Closed
  <2>2. s \notin ClosedSessions /\ s \notin PaidSessions
    BY <2>1 DEF ClosedSessions, PaidSessions
  <2>3. ClosedSessions' = ClosedSessions \cup {s} /\ UNCHANGED PaidSessions
    BY <1>1, <2>1 DEF ClosedSessions, PaidSessions, Closed
  <2>4. OnOffer' = IF OnOffer = s THEN NoSession ELSE OnOffer
    <3>1. CASE payment.session = s
      BY <1>2, <2>1, <3>1, OnOfferIs, NoSessionAssumption DEF OnOffer, Closed
    <3>2. CASE payment.session # s
      BY <1>1, <1>2, <1>3, <3>2, NoSessionAssumption DEF OnOffer, Closed
    <3> QED BY <3>1, <3>2
  <2> QED BY <1>2, <2>2, <2>3, <2>4 DEF Deposit!Close
<1>6. CASE Paying(stripe[s], stripe'[s])
  <2>1. payment.session = s /\ ~Closed(s) /\ stripe[s].status # "paid" /\ stripe'[s].status = "paid"
    BY <1>6 DEF Paying, Closed, StripeKept
  <2>2. OnOffer = s /\ s # NoSession /\ OnOffer' = s
    BY <1>2, <2>1, OnOfferIs, NoSessionAssumption DEF OnOffer, Closed
  <2>3. PaidSessions = {}
    BY <2>1, PaidIsOnOffer DEF PaidSessions
  <2>4. PaidSessions' = {s} /\ UNCHANGED ClosedSessions
    BY <1>1, <1>6, <2>1, <2>3 DEF PaidSessions, ClosedSessions, Closed
  <2> QED BY <1>2, <2>2, <2>3, <2>4 DEF Deposit!Take
<1> QED BY <1>1, <1>4, <1>5, <1>6

(* All writers of the record implement DepositOnce: every step is an Offer, *)
(* a Close, a Take, a Record or leaves all four alone                       *)
(* (paymentSafety.js assertPreparedCheckoutSource, index.js:27600, 6685).   *)
THEOREM RailsCollectsOnce == RailsSpec => CollectsOnce
<1>1. RailsInit => Deposit!Init
  <2> SUFFICES ASSUME RailsInit PROVE Deposit!Init
    OBVIOUS
  <2>1. payment.session = NoSession /\ ~Settled(payment)
    BY DEF RailsInit, Init, UnpaidQuote, Settled
  <2>2. \A s \in Sessions : stripe[s].status = "unused"
    BY DEF RailsInit, Init, UnusedSession
  <2> QED BY <2>1, <2>2
          DEF Deposit!Init, OnOffer, ClosedSessions, PaidSessions, RecordedFor, Closed
<1>2. RailsSpec => []SessionsInv
  BY InitSessions, SessionsStep, PTL DEF RailsSpec
<1>3. SessionsInv /\ [RailsNext]_allVars => [Deposit!Next]_(Deposit!vars)
  <2> SUFFICES ASSUME SessionsInv, [RailsNext]_allVars PROVE [Deposit!Next]_(Deposit!vars)
    OBVIOUS
  <2>1. CASE OneMoves
    BY <2>1, StripeStep, StripeRefines DEF Deposit!Next
  <2>2. CASE UNCHANGED stripe
    BY <2>2, PaymentStep, RecordRefines, OfferRefines DEF Deposit!Next
  <2> QED BY <2>1, <2>2, OneMovesStep
<1> QED BY <1>1, <1>2, <1>3, PTL DEF RailsSpec, CollectsOnce, Deposit!Spec

-----------------------------------------------------------------------------
(***************************************************************************)
(* Overlapping invocations of one approval: what stands while a prepared   *)
(* session can be paid, and who may leave it so.                           *)
(***************************************************************************)

\* A record as it is prepared; a session that is no longer open.
IsPrepared(p) == p.checkout = "prepared" /\ ~p.link /\ p.session # NoSession

Ended(s) == Used(s) /\ stripe[s].status # "open"

\* A preparation of approval a took the place of another record, and its
\* session was created for a.
Owned(p, a) ==
  ~p.reused => ~IsPrepared(p.expected) /\ (Prepares(p) => stripe[p.session].appr = a)

Closers == {"mark_expired", "advance", "check_resolved", "mark_failed"}

InvocationOwns(w) ==
  LET v == worker[w]
      ended == stripe[v.prep.session].status # "open"
  IN  /\ Owned(v.prep, v.appr)
      /\ v.pc = "discard" => ~IsPrepared(v.pay)
      /\ v.pc \in Closers /\ Prepares(v.prep) /\ ~v.prep.reused => ended
      /\ v.pc = "recover_close" /\ Actionable(v.obs) => ended

\* What was observed of a session, it was no longer open.
Observed ==
  /\ \A s \in Sessions : stripe[s].async => Ended(s)
  /\ \A d \in Deliveries : delivery[d].active => Ended(delivery[d].session)
  /\ \A c \in Clerks : clerk[c].pc = "patch" => Ended(clerk[c].session)

OverlapInv ==
  /\ \A a \in Approvals : Owned(exec[a].prep, a)
  /\ \A w \in Workers : InvocationOwns(w)
  /\ Observed /\ PreparedStands

Steps == StepClasses /\ (UNCHANGED stripe \/ OneMoves)

LEMMA StepsTaken == SessionsInv /\ [RailsNext]_allVars => Steps
  BY Classified, OneMovesStep DEF Steps

\* A session that is not open is never open again, and it keeps its approval.
LEMMA EndedStays ==
  ASSUME SessionsInv, Steps, NEW s, Used(s)
  PROVE  /\ s \in Sessions /\ stripe'[s].status # "unused"
         /\ stripe'[s].appr = stripe[s].appr
         /\ stripe[s].status # "open" => stripe'[s].status # "open"
<1>1. /\ s \in Sessions /\ stripe'[s].status # "unused" /\ stripe'[s].appr = stripe[s].appr
      /\ stripe[s].status # "unused"
  BY UsedStays DEF Steps, StepClasses, Used
<1>2. CASE UNCHANGED stripe
  BY <1>1, <1>2
<1>3. CASE OneMoves
  BY <1>1, <1>3 DEF OneMoves, Silent, Closing, Paying
<1> QED BY <1>1, <1>2, <1>3 DEF Steps

LEMMA OwnedStays ==
  ASSUME SessionsInv, Steps, NEW p, NEW a, Owned(p, a), NEW s, s = p.session,
         Prepares(p) => Used(s)
  PROVE  ~p.reused => ~IsPrepared(p.expected) /\ (Prepares(p) => stripe'[s].appr = a)
  BY EndedStays DEF Owned

-----------------------------------------------------------------------------
(* What an invocation remembers of its preparation.                         *)

LEMMA OwnsStays ==
  ASSUME SessionsInv, Steps, NEW w \in Workers, InvocationOwns(w), worker'[w] = worker[w]
  PROVE  InvocationOwns(w)'
<1> DEFINE v == worker[w]
<1>1. PICK s : s = v.prep.session
  OBVIOUS
<1>2. /\ Prepares(v.prep) => Used(s)
      /\ v.pc = "recover_close" => Prepares(v.prep)
  BY <1>1 DEF SessionsInv, SessionInv, InvocationKnows, RailsInv, SagaInv, InvocationOK
<1>3. Prepares(v.prep) /\ stripe[s].status # "open" => stripe'[s].status # "open"
  BY <1>2, EndedStays
<1>4. ~v.prep.reused =>
        ~IsPrepared(v.prep.expected) /\ (Prepares(v.prep) => stripe'[s].appr = v.appr)
  BY <1>1, <1>2, OwnedStays DEF InvocationOwns
<1>5. /\ v.pc = "discard" => ~IsPrepared(v.pay)
      /\ v.pc \in Closers /\ Prepares(v.prep) /\ ~v.prep.reused => stripe'[s].status # "open"
      /\ v.pc = "recover_close" /\ Actionable(v.obs) => stripe'[s].status # "open"
  BY <1>1, <1>2, <1>3 DEF InvocationOwns
<1>6. v = worker'[w]
  OBVIOUS
<1> HIDE DEF v
<1> QED BY <1>1, <1>4, <1>5, <1>6 DEF InvocationOwns, Owned, Prepares, IsPrepared, Closers

\* An invocation moves on with the preparation it has.
LEMMA OwnsForward ==
  ASSUME SessionsInv, Steps, NEW w \in Workers, InvocationOwns(w), NEW pc, NEW e, NEW o,
         Forward(w, pc, e, o), pc # "discard", NEW s, s = worker[w].prep.session,
         pc \in Closers /\ Prepares(worker[w].prep) /\ ~worker[w].prep.reused =>
           stripe'[s].status # "open",
         pc = "recover_close" /\ Actionable(o) => stripe'[s].status # "open"
  PROVE  InvocationOwns(w)'
<1> DEFINE v == worker[w]
<1>1. Prepares(v.prep) => Used(s)
  BY DEF SessionsInv, SessionInv, InvocationKnows
<1>2. ~v.prep.reused =>
        ~IsPrepared(v.prep.expected) /\ (Prepares(v.prep) => stripe'[s].appr = v.appr)
  BY <1>1, OwnedStays DEF InvocationOwns
<1>3. /\ worker'[w].prep = v.prep /\ worker'[w].appr = v.appr
      /\ worker'[w].pc = pc /\ worker'[w].obs = o
  BY DEF Forward
<1> HIDE DEF v
<1> QED BY <1>2, <1>3 DEF InvocationOwns, Owned, Prepares, IsPrepared, Closers, v

\* It returns, throws, or goes where nothing is asked of Stripe.
LEMMA OwnsPlain ==
  ASSUME SessionsInv, Steps, NEW w \in Workers, InvocationOwns(w),
         \/ Return(w)
         \/ \E e : Throw(w, e)
         \/ \E pc, e, o : /\ Forward(w, pc, e, o)
                          /\ pc \notin Closers \cup {"discard", "recover_close"}
  PROVE  InvocationOwns(w)'
<1>1. WorkerTyped
  BY DEF SessionsInv, RailsInv, RailsTypeOK, TypeOK, WorkerTyped
<1>2. PICK s : s = worker[w].prep.session
  OBVIOUS
<1>3. ASSUME NEW pc, NEW e, NEW o, Forward(w, pc, e, o),
             pc \notin Closers \cup {"discard", "recover_close"}
      PROVE  InvocationOwns(w)'
  BY <1>2, <1>3, OwnsForward
<1>4. ASSUME NEW e, Throw(w, e) PROVE InvocationOwns(w)'
  BY <1>1, <1>3, <1>4, ThrowForward DEF Closers
<1>5. CASE Return(w)
  <2>1. worker'[w] = Idle
    BY <1>1, <1>5 DEF Return, WorkerTyped
  <2>2. /\ Idle.pc = "idle" /\ ~Prepares(Idle.prep) /\ ~IsPrepared(Idle.prep.expected)
    BY DEF Idle, NoPreparation, Prepares, IsPrepared, UnpaidQuote
  <2> QED BY <2>1, <2>2 DEF InvocationOwns, Owned, Closers, Prepares, IsPrepared
<1> QED BY <1>3, <1>4, <1>5

\* It takes up a preparation that it found or that it made.
LEMMA OwnsTakes ==
  ASSUME SessionsInv, NEW w \in Workers, NEW pc, NEW p, pc = "persist" \/ pc = "restore",
         worker' = [worker EXCEPT ![w].pc = pc, ![w].prep = p],
         ~p.reused => /\ ~IsPrepared(p.expected)
                      /\ Prepares(p) => stripe'[p.session].appr = worker[w].appr
  PROVE  InvocationOwns(w)'
<1>1. /\ worker'[w].pc = pc /\ worker'[w].prep = p /\ worker'[w].appr = worker[w].appr
  <2>1. worker \in [Workers -> Invocations] /\ worker[w] \in Invocations
    BY DEF SessionsInv, RailsInv, RailsTypeOK, TypeOK
  <2> DEFINE r == [worker[w] EXCEPT !.pc = pc, !.prep = p]
  <2>2. r.pc = pc /\ r.prep = p /\ r.appr = worker[w].appr
    BY <2>1 DEF Invocations
  <2>3. worker' = [worker EXCEPT ![w] = r]
    BY <2>1
  <2> HIDE DEF r
  <2> QED BY <2>1, <2>2, <2>3
<1> QED BY <1>1 DEF InvocationOwns, Owned, Prepares, IsPrepared, Closers

\* A record from which a session is created or replayed is not a prepared one.
LEMMA NeedsUnprepared ==
  ASSUME NEW w \in Workers, NeedsNewSession(w)
  PROVE  ~IsPrepared(worker[w].pay)
  BY DEF NeedsNewSession, PlanDepositCheckout, IsPrepared, Terminal

LEMMA OwnsPrepares ==
  ASSUME SessionsInv, Steps, NEW w \in Workers, InvocationOwns(w),
         PrepareReuse(w) \/ CreateSession(w) \/ ReplaySession(w)
  PROVE  InvocationOwns(w)'
<1> DEFINE q == worker[w].pay
           a == worker[w].appr
<1>1. WorkerTyped
  BY DEF SessionsInv, RailsInv, RailsTypeOK, TypeOK, WorkerTyped
<1>2. CASE PrepareReuse(w)
  <2> DEFINE p == [session |-> q.session, gen |-> q.gen, expected |-> q, reused |-> TRUE]
  <2>1. worker' = [worker EXCEPT ![w].pc = "persist", ![w].prep = p]
    BY <1>2 DEF PrepareReuse
  <2>2. p.reused
    OBVIOUS
  <2> HIDE DEF p
  <2> QED BY <2>1, <2>2, OwnsTakes
<1>3. ASSUME NEW s \in Sessions, Adopt(w, s), stripe'[s].appr = a, ~IsPrepared(q)
      PROVE  InvocationOwns(w)'
  <2> DEFINE p == [session |-> s, gen |-> q.gen + 1, expected |-> q, reused |-> FALSE]
  <2>1. Throw(w, "definite") \/ worker' = [worker EXCEPT ![w].pc = "persist", ![w].prep = p]
    BY <1>3 DEF Adopt
  <2>2. p.session = s /\ p.expected = q
    OBVIOUS
  <2> HIDE DEF p
  <2> QED BY <1>3, <2>1, <2>2, OwnsTakes, OwnsPlain
<1>4. CASE CreateSession(w)
  <2> DEFINE r == [status |-> "open", portal |-> scope[a], gen |-> worker[w].pay.gen + 1,
                   appr |-> a, async |-> FALSE]
  <2>1. PICK s \in Sessions : /\ stripe' = [stripe EXCEPT ![s] = r]
                              /\ Adopt(w, s) \/ Throw(w, "prep_ambiguous")
    BY <1>4 DEF CreateSession
  <2>2. stripe'[s].appr = a
    BY <2>1, RailsTypes DEF SessionsInv
  <2>3. ~IsPrepared(q)
    BY <1>4, NeedsUnprepared DEF CreateSession
  <2> HIDE DEF r
  <2> QED BY <1>3, <2>1, <2>2, <2>3, OwnsPlain
<1>5. CASE ReplaySession(w)
  <2>1. PICK s \in SameKey(w) :
          \/ stripe[s].appr = a /\ (Adopt(w, s) \/ Goto(w, "discard"))
          \/ Throw(w, "prep_ambiguous")
    BY <1>5 DEF ReplaySession
  <2>2. s \in Sessions /\ UNCHANGED stripe /\ ~IsPrepared(q)
    BY <1>5, <2>1, NeedsUnprepared DEF SameKey, ReplaySession
  <2>3. CASE Goto(w, "discard")
    <3>1. /\ worker'[w].pc = "discard" /\ worker'[w].pay = q
          /\ worker'[w].prep = worker[w].prep /\ worker'[w].appr = a
      BY <1>1, <2>3 DEF WorkerTyped, Invocations, Goto
    <3>2. PICK t : t = worker[w].prep.session
      OBVIOUS
    <3>3. UNCHANGED stripe /\ Owned(worker[w].prep, a)
      BY <2>2 DEF InvocationOwns
    <3> QED BY <2>2, <3>1, <3>2, <3>3 DEF InvocationOwns, Owned, Prepares, IsPrepared, Closers
  <2> QED BY <1>3, <2>1, <2>2, <2>3, OwnsPlain
<1> QED BY <1>2, <1>4, <1>5

LEMMA OwnsPersists ==
  ASSUME SessionsInv, Steps, NEW w \in Workers, InvocationOwns(w), Persist(w),
         \A a \in Approvals : Owned(exec[a].prep, a)
  PROVE  InvocationOwns(w)'
<1> DEFINE a == worker[w].appr
           p == exec[a].prep
<1>1. WorkerTyped /\ a \in Approvals /\ UNCHANGED stripe
  BY DEF Persist, At, SessionsInv, RailsInv, RailsTypeOK, TypeOK, WorkerTyped, SagaInv,
         InvocationOK
<1>2. CASE Prepares(p)
  <2>1. worker' = [worker EXCEPT ![w].pc = "restore", ![w].prep = p]
    BY <1>2 DEF Persist
  <2>2. ~p.reused => ~IsPrepared(p.expected) /\ stripe'[p.session].appr = a
    BY <1>1, <1>2 DEF Owned
  <2> HIDE DEF p
  <2> QED BY <2>1, <2>2, OwnsTakes
<1>3. CASE ~Prepares(p)
  <2>1. Goto(w, "restore")
    BY <1>3 DEF Persist
  <2> QED BY <1>1, <2>1, GotoForward, OwnsPlain DEF Closers
<1> QED BY <1>2, <1>3

LEMMA OwnsCleanup ==
  ASSUME SessionsInv, Steps, NEW w \in Workers, InvocationOwns(w), CleanupPC(w) # "idle",
         Forward(w, CleanupPC(w), worker[w].err, worker[w].obs)
  PROVE  InvocationOwns(w)'
<1>1. PICK s : s = worker[w].prep.session
  OBVIOUS
<1>2. CASE /\ Forward(w, "mark_failed", worker[w].err, worker[w].obs)
           /\ ~Prepares(worker[w].prep) \/ worker[w].prep.reused
  BY <1>1, <1>2, OwnsForward
<1>3. CASE Forward(w, "neutralize", worker[w].err, worker[w].obs)
  BY <1>3, OwnsPlain DEF Closers
<1> QED BY <1>2, <1>3, CleanupForward

LEMMA OwnsFails ==
  ASSUME SessionsInv, Steps, NEW w \in Workers, InvocationOwns(w), Catch(w) \/ RecordFailure(w)
  PROVE  InvocationOwns(w)'
<1>1. WorkerTyped
  BY DEF SessionsInv, RailsInv, RailsTypeOK, TypeOK, WorkerTyped
<1>2. CASE Catch(w)
  BY <1>2, CatchForward, OwnsCleanup, OwnsPlain DEF Closers
<1>3. CASE RecordFailure(w)
  <2>1. \/ Return(w) \/ Goto(w, "close_accepted")
        \/ CleanupPC(w) # "idle" /\ Goto(w, CleanupPC(w))
    BY <1>3 DEF RecordFailure, Proceed
  <2> QED BY <1>1, <2>1, GotoForward, OwnsCleanup, OwnsPlain DEF Closers
<1> QED BY <1>2, <1>3

(* From a closed session on, the cleanup ends at a closed execution.        *)
LEMMA OwnsCloses ==
  ASSUME SessionsInv, Steps, NEW w \in Workers, InvocationOwns(w),
         Neutralize(w) \/ MarkExpired(w) \/ Advance(w) \/ CheckResolved(w)
  PROVE  InvocationOwns(w)'
<1>1. PICK s : s = worker[w].prep.session
  OBVIOUS
<1>2. WorkerTyped /\ stripe \in [Sessions -> SessionRecords]
  BY RailsTypes DEF SessionsInv, RailsInv, RailsTypeOK, TypeOK, WorkerTyped
<1>3. Prepares(worker[w].prep) => Used(s)
  BY <1>1 DEF SessionsInv, SessionInv, InvocationKnows
<1>4. ASSUME NEW pc \in Closers, Goto(w, pc),
             Prepares(worker[w].prep) /\ ~worker[w].prep.reused => stripe'[s].status # "open"
      PROVE  InvocationOwns(w)'
  <2>1. Forward(w, pc, worker[w].err, worker[w].obs)
    BY <1>2, <1>4, GotoForward
  <2>2. pc # "discard" /\ pc # "recover_close"
    BY DEF Closers
  <2> QED BY <1>1, <1>4, <2>1, <2>2, OwnsForward
<1>5. CASE Neutralize(w)
  <2>1. Prepares(worker[w].prep) /\ s \in Sessions
    BY <1>1, <1>3, <1>5 DEF Neutralize, At, SessionsInv, SessionInv, InvocationKnows, Used
  <2>2. \/ Return(w)
        \/ /\ Goto(w, "mark_expired")
           /\ \/ stripe[s].status = "expired" /\ UNCHANGED stripe
              \/ stripe' = [stripe EXCEPT ![s].status = "expired"]
    BY <1>1, <1>5 DEF Neutralize
  <2>3. Return(w) \/ (Goto(w, "mark_expired") /\ stripe'[s].status # "open")
    BY <1>2, <2>1, <2>2 DEF SessionRecords
  <2> QED BY <1>4, <2>3, OwnsPlain DEF Closers
<1>6. CASE MarkExpired(w) \/ Advance(w) \/ CheckResolved(w)
  <2>1. worker[w].pc \in Closers
    BY <1>6 DEF MarkExpired, Advance, CheckResolved, At, Closers
  <2>2. Prepares(worker[w].prep) /\ ~worker[w].prep.reused => stripe'[s].status # "open"
    BY <1>1, <1>3, <2>1, EndedStays DEF InvocationOwns
  <2>3. Return(w) \/ \E pc \in {"mark_failed", "advance", "check_resolved"} : Goto(w, pc)
    BY <1>6 DEF MarkExpired, Advance, CheckResolved
  <2> QED BY <1>4, <2>2, <2>3, OwnsPlain DEF Closers
<1> QED BY <1>5, <1>6

LEMMA OwnsRecovers ==
  ASSUME SessionsInv, Steps, NEW w \in Workers, InvocationOwns(w), RecoverStripe(w)
  PROVE  InvocationOwns(w)'
<1>1. PICK s : s = worker[w].prep.session
  OBVIOUS
<1>2. /\ WorkerTyped /\ s \in Sessions
      /\ stripe \in [Sessions -> SessionRecords]
  BY <1>1 DEF RecoverStripe, At, SessionsInv, SessionInv, RailsInv, RailsTypeOK, TypeOK,
              WorkerTyped, SagaInv, InvocationOK, InvocationKnows, Used
<1>3. ASSUME NEW o, worker' = [worker EXCEPT ![w].pc = "recover_close", ![w].obs = o],
             Actionable(o) => stripe'[s].status # "open"
      PROVE  InvocationOwns(w)'
  <2>1. Forward(w, "recover_close", worker[w].err, o)
    BY <1>2, <1>3, ObserveForward
  <2> QED BY <1>1, <1>3, <2>1, OwnsForward DEF Closers
<1>4. \/ /\ UNCHANGED stripe
         /\ \/ worker' = [worker EXCEPT ![w].pc = "recover_close", ![w].obs = ""]
            \/ worker' = [worker EXCEPT ![w].pc = "recover_close", ![w].obs = stripe[s].status]
      \/ /\ stripe' = [stripe EXCEPT ![s].status = "expired"]
         /\ \/ worker' = [worker EXCEPT ![w].pc = "recover_close", ![w].obs = "expired"]
            \/ worker' = [worker EXCEPT ![w].pc = "recover_close", ![w].obs = "open"]
  BY <1>1 DEF RecoverStripe
<1>5. stripe' = [stripe EXCEPT ![s].status = "expired"] => stripe'[s].status = "expired"
  BY <1>2 DEF SessionRecords
<1>6. ~Actionable("") /\ ~Actionable("open")
  BY DEF Actionable, ProviderStates
<1> QED BY <1>3, <1>4, <1>5, <1>6

LEMMA OwnsStep ==
  ASSUME SessionsInv, Steps, NEW w \in Workers, InvocationOwns(w), Step(w) \/ Die(w),
         \A a \in Approvals : Owned(exec[a].prep, a)
  PROVE  InvocationOwns(w)'
<1>1. WorkerTyped
  BY DEF SessionsInv, RailsInv, RailsTypeOK, TypeOK, WorkerTyped
<1>2. CASE PrepareRefused(w) \/ CreateSessionFails(w) \/ DiscardCreated(w) \/ PersistFails(w)
  <2>1. \E e : Throw(w, e)
    BY <1>2 DEF PrepareRefused, CreateSessionFails, DiscardCreated, PersistFails
  <2> QED BY <2>1, OwnsPlain
<1>3. CASE Restore(w)
  <2>1. (\E e : Throw(w, e)) \/ Goto(w, "dispatch")
    BY <1>3 DEF Restore
  <2> QED BY <1>1, <2>1, GotoForward, OwnsPlain DEF Closers
<1>4. CASE ClaimDispatch(w) \/ Send(w) \/ RecordAcceptance(w) \/ ClaimRecovery(w)
  <2>1. \A pc \in {"complete", "send", "record", "recover_stripe", "record_failure"} :
          pc \notin Closers \cup {"discard", "recover_close"}
    BY DEF Closers
  <2> QED BY <1>4, <2>1, DispatchForward, OwnsPlain
<1>5. CASE CloseUnprepared(w) \/ Complete(w) \/ RecoverClose(w) \/ CloseAccepted(w)
           \/ MarkFailed(w) \/ Die(w)
  <2>1. Return(w)
    BY <1>5 DEF CloseUnprepared, Complete, RecoverClose, CloseAccepted, MarkFailed, Die
  <2> QED BY <2>1, OwnsPlain
<1> QED BY <1>2, <1>3, <1>4, <1>5, OwnsPrepares, OwnsPersists, OwnsFails, OwnsCloses, OwnsRecovers
        DEF Step

LEMMA OwnsClaims ==
  ASSUME SessionsInv, NEW w \in Workers, NEW a \in Approvals, NEW adm \in Admins,
         Claim(w, a, adm) \/ ClaimRefused(w, a, adm), Owned(exec[a].prep, a)
  PROVE  InvocationOwns(w)'
<1>1. worker \in [Workers -> Invocations] /\ UNCHANGED stripe
  BY DEF SessionsInv, RailsInv, RailsTypeOK, TypeOK, Claim, ClaimRefused
<1>2. CASE ClaimRefused(w, a, adm)
  <2> DEFINE r == [Idle EXCEPT !.pc = "close_unprepared", !.appr = a, !.admin = adm]
  <2>1. worker'[w] = r
    BY <1>1, <1>2 DEF ClaimRefused
  <2>2. r.pc = "close_unprepared" /\ ~Prepares(r.prep) /\ ~IsPrepared(r.prep.expected)
    BY DEF Idle, NoPreparation, Prepares, IsPrepared, UnpaidQuote
  <2> HIDE DEF r
  <2> QED BY <2>1, <2>2 DEF InvocationOwns, Owned, Closers, Prepares, IsPrepared
<1>3. CASE Claim(w, a, adm)
  <2> DEFINE r == [Idle EXCEPT !.pc = IF Prepares(exec[a].prep) THEN "restore" ELSE "prepare",
                    !.appr = a, !.admin = adm, !.pay = payment,
                    !.prep = exec[a].prep, !.disp = exec[a].dispatch,
                    !.portalExpired = portal.expired]
  <2>1. worker'[w] = r
    BY <1>1, <1>3 DEF Claim
  <2>2. r.pc \in {"restore", "prepare"} /\ r.appr = a /\ r.prep = exec[a].prep
    BY DEF Idle
  <2>3. PICK p : p = exec[a].prep
    OBVIOUS
  <2>4. ~p.reused => ~IsPrepared(p.expected) /\ (Prepares(p) => stripe'[p.session].appr = a)
    BY <1>1, <2>3 DEF Owned
  <2> HIDE DEF r
  <2> QED BY <2>1, <2>2, <2>3, <2>4 DEF InvocationOwns, Owned, Closers, Prepares, IsPrepared
<1> QED BY <1>2, <1>3

LEMMA InvocationsOwn ==
  ASSUME SessionsInv, OverlapInv, [RailsNext]_allVars, NEW v \in Workers
  PROVE  InvocationOwns(v)'
<1>1. Steps /\ InvocationOwns(v)
  BY StepsTaken DEF OverlapInv
<1>2. CASE worker'[v] = worker[v]
  BY <1>1, <1>2, OwnsStays
<1>3. ASSUME NEW w \in Workers, Step(w) \/ Die(w) PROVE InvocationOwns(v)'
  BY <1>1, <1>2, <1>3, OwnsStep, OthersStay DEF OverlapInv
<1>4. CASE \E w \in Workers, a \in Approvals, adm \in Admins :
             Claim(w, a, adm) \/ ClaimRefused(w, a, adm)
  <2>1. PICK w \in Workers, a \in Approvals, adm \in Admins :
          Claim(w, a, adm) \/ ClaimRefused(w, a, adm)
    BY <1>4
  <2>2. worker \in [Workers -> Invocations]
    BY DEF SessionsInv, RailsInv, RailsTypeOK, TypeOK
  <2>3. v # w => worker'[v] = worker[v]
    BY <2>1, <2>2 DEF Claim, ClaimRefused
  <2> QED BY <1>2, <2>1, <2>3, OwnsClaims DEF OverlapInv
<1>5. CASE Next
  BY <1>2, <1>3, <1>4, <1>5
     DEF Next, RequestApproval, ResolveApproval, Environment, SessionTimesOut, CustomerPays,
         AsyncPaymentSettles, PortalExpires, DispatchGoesStale
<1>6. CASE Webhook \/ Staff
  BY <1>2, <1>6
     DEF Webhook, Staff, vars, WebhookReads, WebhookPatches, WebhookAuditsStale, WebhookDies,
         BeginReconcile, BeginRotation, ClerkRetrieves, ClerkPatches, CommitRotation, ClerkDies
<1> QED BY <1>2, <1>5, <1>6 DEF RailsNext, allVars

-----------------------------------------------------------------------------
(* What the executions store and the others have observed.                  *)

LEMMA ExecutionsOwn ==
  ASSUME SessionsInv, OverlapInv, Steps, NEW a \in Approvals
  PROVE  Owned(exec[a].prep, a)'
<1>1. PICK p : p = exec'[a].prep
  OBVIOUS
<1>2. PICK s : s = p.session
  OBVIOUS
<1>3. CASE Stored(a)
  <2>1. PICK w \in Workers : Persist(w) /\ worker[w].appr = a
    BY <1>3 DEF Stored
  <2>2. exec \in [Approvals -> Executions] /\ exec[a] \in Executions
    BY DEF SessionsInv, RailsInv, RailsTypeOK, TypeOK
  <2>3. exec' = [exec EXCEPT ![a].prep = worker[w].prep] /\ UNCHANGED stripe
    BY <1>3, <2>1 DEF Stored, Persist
  <2>4. p = worker[w].prep
    BY <1>1, <2>2, <2>3 DEF Executions
  <2>5. Owned(p, a)
    BY <2>1, <2>4 DEF OverlapInv, InvocationOwns
  <2> QED BY <1>1, <2>3, <2>5 DEF Owned, Prepares, IsPrepared
<1>4. CASE exec'[a].prep = exec[a].prep
  <2>1. Owned(p, a) /\ (Prepares(p) => Used(s))
    BY <1>1, <1>2, <1>4 DEF OverlapInv, SessionsInv, SessionInv, PreparedIsRecorded
  <2>2. ~p.reused => ~IsPrepared(p.expected) /\ (Prepares(p) => stripe'[s].appr = a)
    BY <1>2, <2>1, OwnedStays
  <2> QED BY <1>1, <1>2, <2>2 DEF Owned, Prepares, IsPrepared
<1> QED BY <1>3, <1>4 DEF Steps, StepClasses, ExecutionKept, Resumable, Decided

LEMMA AsyncStep ==
  ASSUME SessionsInv, Observed, Steps, NEW s \in Sessions, stripe'[s].async
  PROVE  stripe'[s].status \notin {"unused", "open"}
<1>1. CASE stripe[s].async
  BY <1>1, EndedStays DEF Observed, Ended
<1>2. CASE stripe'[s].status = "processing"
  BY <1>2
<1> QED BY <1>1, <1>2 DEF Steps, StepClasses, StripeKept

LEMMA DeliveriesObserved ==
  ASSUME SessionsInv, Observed, [RailsNext]_allVars, NEW e \in Deliveries, delivery'[e].active,
         NEW t, t = delivery'[e].session
  PROVE  t \in Sessions /\ stripe'[t].status \notin {"unused", "open"}
<1>1. Steps
  BY StepsTaken
<1>2. delivery \in [Deliveries -> DeliveryStates]
  BY RailsTypes DEF SessionsInv, DeliveryTyped
<1>3. CASE delivery'[e] = delivery[e]
  BY <1>1, <1>3, EndedStays DEF Observed, Ended
<1>4. delivery'[e] # NoDelivery
  <2>1. ~NoDelivery.active
    BY DEF NoDelivery
  <2> SUFFICES ASSUME delivery'[e] = NoDelivery PROVE FALSE
    OBVIOUS
  <2> QED BY <2>1, Zenon
<1>5. ASSUME NEW d \in Deliveries, NEW s \in Sessions, NEW k \in ProviderStates,
             WebhookReads(d, s, k)
      PROVE  t \in Sessions /\ stripe'[t].status \notin {"unused", "open"}
  <2> DEFINE r == [session |-> s, kind |-> k, active |-> payment.session = s, key |-> portal.key]
  <2>1. delivery' = [delivery EXCEPT ![d] = r] /\ UNCHANGED stripe /\ Emitted(s, k)
    BY <1>5 DEF WebhookReads, vars
  <2>2. r.session = s
    OBVIOUS
  <2>3. stripe[s].status \notin {"unused", "open"}
    BY <2>1 DEF Emitted, Observed, Ended, Used, ProviderStates
  <2> HIDE DEF r
  <2>4. /\ e # d => delivery'[e] = delivery[e]
        /\ e = d => delivery'[e] = r
    BY <1>2, <2>1
  <2> QED BY <1>3, <2>1, <2>2, <2>3, <2>4
<1>6. ASSUME NEW d \in Deliveries, WebhookPatches(d) \/ WebhookAuditsStale(d) \/ WebhookDies(d)
      PROVE  t \in Sessions /\ stripe'[t].status \notin {"unused", "open"}
  <2>1. delivery' = [delivery EXCEPT ![d] = NoDelivery]
    BY <1>6 DEF WebhookPatches, WebhookAuditsStale, WebhookDies
  <2> QED BY <1>2, <1>3, <1>4, <2>1
<1>7. CASE Webhook
  BY <1>5, <1>6, <1>7 DEF Webhook
<1>8. CASE UNCHANGED delivery
  BY <1>3, <1>8
<1>9. CASE Staff
  BY <1>8, <1>9 DEF Staff, BeginReconcile, BeginRotation, ClerkRetrieves, ClerkPatches,
                    CommitRotation, ClerkDies
<1> QED BY <1>7, <1>8, <1>9 DEF RailsNext, railsVars, allVars

LEMMA ClerksObserved ==
  ASSUME SessionsInv, Observed, [RailsNext]_allVars, NEW e \in Clerks, clerk'[e].pc = "patch",
         NEW t, t = clerk'[e].session
  PROVE  t \in Sessions /\ stripe'[t].status \notin {"unused", "open"}
<1>1. Steps
  BY StepsTaken
<1>2. ClerkTyped /\ stripe \in [Sessions -> SessionRecords]
  BY RailsTypes DEF SessionsInv
<1>3. CASE clerk'[e] = clerk[e]
  BY <1>1, <1>3, EndedStays DEF Observed, Ended
<1>4. ASSUME NEW c \in Clerks, BeginReconcile(c) \/ BeginRotation(c) PROVE clerk'[e] = clerk[e]
  <2>1. clerk'[c].pc # "patch"
    <3>1. CASE BeginReconcile(c)
      BY <1>2, <3>1 DEF BeginReconcile, ClerkTyped, OffDuty
    <3>2. CASE BeginRotation(c)
      <4> DEFINE r == [OffDuty EXCEPT !.rotating = TRUE,
                   !.pc = IF RailClear(payment) THEN "commit" ELSE "retrieve",
                   !.session = payment.session, !.key = portal.key]
      <4>1. clerk'[c] = r
        BY <1>2, <3>2 DEF BeginRotation, ClerkTyped
      <4>2. r.pc = IF RailClear(payment) THEN "commit" ELSE "retrieve"
        BY DEF OffDuty
      <4> HIDE DEF r
      <4> QED BY <4>1, <4>2
    <3> QED BY <1>4, <3>1, <3>2
  <2>2. e # c => clerk'[e] = clerk[e]
    BY <1>2, <1>4 DEF BeginReconcile, BeginRotation, ClerkTyped
  <2> QED BY <2>1, <2>2
<1>5. ASSUME NEW c \in Clerks, ClerkRetrieves(c)
      PROVE  t \in Sessions /\ stripe'[t].status \notin {"unused", "open"}
  <2>1. PICK s : s = clerk[c].session
    OBVIOUS
  <2>2. s \in Sessions
    BY <1>2, <1>5, <2>1 DEF ClerkRetrieves, ClerkIs, SessionsInv, SessionInv, ClerkKnows,
                            ClerkTyped, ClerkStates
  <2>3. \/ ClerkReturns(c)
        \/ /\ UNCHANGED stripe /\ Actionable(stripe[s].status)
           /\ clerk' = [clerk EXCEPT ![c].pc = "patch", ![c].obs = stripe[s].status]
        \/ /\ stripe' = [stripe EXCEPT ![s].status = "expired"]
           /\ clerk' = [clerk EXCEPT ![c].pc = "patch", ![c].obs = "expired"]
    BY <1>5, <2>1 DEF ClerkRetrieves, ClerkSees
  <2>4. CASE ClerkReturns(c)
    <3>1. e = c => clerk'[e].pc = "idle"
      BY <1>2, <2>4 DEF ClerkReturns, ClerkTyped, OffDuty
    <3>2. e # c => clerk'[e] = clerk[e]
      BY <1>2, <2>4 DEF ClerkReturns, ClerkTyped
    <3> QED BY <1>3, <3>1, <3>2
  <2>5. ASSUME NEW o, clerk' = [clerk EXCEPT ![c].pc = "patch", ![c].obs = o],
               stripe'[s].status \notin {"unused", "open"}
        PROVE  t \in Sessions /\ stripe'[t].status \notin {"unused", "open"}
    <3>1. e = c => clerk'[e].session = s
      BY <1>2, <2>1, <2>5 DEF ClerkTyped, ClerkStates
    <3>2. e # c => clerk'[e] = clerk[e]
      BY <1>2, <2>5 DEF ClerkTyped
    <3> QED BY <1>3, <2>2, <2>5, <3>1, <3>2
  <2>6. Actionable(stripe[s].status) => stripe[s].status \notin {"unused", "open"}
    BY DEF Actionable, ProviderStates
  <2>7. stripe' = [stripe EXCEPT ![s].status = "expired"] => stripe'[s].status = "expired"
    BY <1>2, <2>2 DEF SessionRecords
  <2> QED BY <2>3, <2>4, <2>5, <2>6, <2>7
<1>6. ASSUME NEW c \in Clerks, ClerkPatches(c) \/ CommitRotation(c) \/ ClerkDies(c)
      PROVE  clerk'[e] = clerk[e]
  <2>1. ClerkReturns(c) \/ ClerkGoto(c, "commit")
    BY <1>6 DEF ClerkPatches, CommitRotation, ClerkDies
  <2>2. clerk'[c].pc # "patch"
    <3>1. CASE ClerkReturns(c)
      BY <1>2, <3>1 DEF ClerkReturns, ClerkTyped, OffDuty
    <3>2. CASE ClerkGoto(c, "commit")
      BY <1>2, <3>2 DEF ClerkGoto, ClerkTyped, ClerkStates
    <3> QED BY <2>1, <3>1, <3>2
  <2>3. e # c => clerk'[e] = clerk[e]
    BY <1>2, <2>1 DEF ClerkReturns, ClerkGoto, ClerkTyped
  <2> QED BY <2>2, <2>3
<1>7. CASE Staff
  BY <1>3, <1>4, <1>5, <1>6, <1>7 DEF Staff
<1>8. CASE Webhook
  BY <1>3, <1>8 DEF Webhook, WebhookReads, WebhookPatches, WebhookAuditsStale, WebhookDies
<1> QED BY <1>3, <1>7, <1>8 DEF RailsNext, railsVars, allVars


-----------------------------------------------------------------------------
(* A prepared session that can be paid keeps its record, unless its own      *)
(* execution succeeds.                                                       *)

LEMMA StandsAgainstStep ==
  ASSUME SessionsInv, OverlapInv, NEW a \in Approvals, NEW p, p = exec[a].prep, Prepares(p),
         ~p.reused, NEW s, s = p.session, payment = PreparedPayment(s, p.gen),
         stripe[s].status = "open", exec'[a].state # "succeeded",
         NEW w \in Workers, Step(w)
  PROVE  payment' = payment
<1> DEFINE v == worker[w]
           q == v.prep
<1>1. /\ payment.session = s /\ IsPrepared(payment) /\ ~PreparedSource(payment)
      /\ stripe[s].appr = a
  BY DEF PreparedPayment, IsPrepared, PreparedSource, Terminal, Prepares, OverlapInv, Owned
<1>2. InvocationOK(w) /\ InvocationKnows(w) /\ InvocationOwns(w)
  BY DEF SessionsInv, SessionInv, RailsInv, SagaInv, OverlapInv
<1>3. CASE Persist(w)
  <2>1. q.reused \/ ~PreparedSource(q.expected) => UNCHANGED payment
    BY <1>2, <1>3 DEF Persist, At, PaymentAllowsPersist, PreparedOf, InvocationKnows
  <2>2. payment # q.expected => UNCHANGED payment
    BY <1>3 DEF Persist, PaymentAllowsPersist, PreparedOf
  <2> QED BY <1>1, <2>1, <2>2
<1>4. CASE Complete(w)
  <2>1. CASE payment' = PublishedOf(q) /\ PublicationAllowed(w) /\ ~q.reused /\ MayComplete(w)
    <3>1. Prepares(q)
      BY <1>2, <1>4 DEF Complete, At, InvocationOK
    <3>2. payment.session = q.session
      BY <2>1 DEF PublicationAllowed, PreparedOf, PublishedOf, PreparedPayment, PublishedPayment
    <3>3. v.appr = a
      BY <1>1, <1>2, <2>1, <3>1, <3>2 DEF InvocationOwns, Owned
    <3>4. exec' = [exec EXCEPT ![a].state = "succeeded"]
      BY <1>4, <2>1, <3>3 DEF Complete, Finish
    <3>5. exec \in [Approvals -> Executions]
      BY DEF SessionsInv, RailsInv, RailsTypeOK, TypeOK
    <3> QED BY <3>4, <3>5 DEF Executions
  <2> QED BY <1>4, <2>1 DEF Complete, MayComplete
<1>5. CASE RecoverClose(w)
  BY <1>1, <1>2, <1>5 DEF RecoverClose, At, InvocationOwns
<1>6. CASE CloseAccepted(w)
  BY <1>1, <1>2, <1>6 DEF CloseAccepted, At, InvocationKnows
<1>7. CASE MarkExpired(w)
  <2>1. ~q.reused /\ stripe[q.session].status = "expired"
    BY <1>2, <1>7 DEF MarkExpired, At, InvocationOK, InvocationKnows
  <2> QED BY <1>1, <1>7, <2>1 DEF MarkExpired, PreparedOf, PreparedPayment
<1>8. CASE DiscardCreated(w)
  BY <1>1, <1>2, <1>8 DEF DiscardCreated, At, InvocationOwns
<1>9. CASE Advance(w)
  BY <1>1, <1>2, <1>9 DEF Advance, At, InvocationOK, InvocationOwns, Owned
<1> QED BY <1>3, <1>4, <1>5, <1>6, <1>7, <1>8, <1>9
        DEF Step, CloseUnprepared, PrepareReuse, PrepareRefused, CreateSession, ReplaySession,
            CreateSessionFails, PersistFails, Restore, ClaimDispatch, Send, RecordAcceptance,
            Catch, ClaimRecovery, RecoverStripe, RecordFailure, Neutralize, CheckResolved,
            MarkFailed

LEMMA PaymentStands ==
  ASSUME SessionsInv, OverlapInv, [RailsNext]_allVars, NEW a \in Approvals, NEW p,
         p = exec[a].prep, Prepares(p), ~p.reused, NEW s, s = p.session,
         payment = PreparedPayment(s, p.gen), stripe[s].status = "open",
         exec'[a].state # "succeeded"
  PROVE  payment' = payment
<1>1. payment.session = s
  BY DEF PreparedPayment
<1>2. ASSUME NEW w \in Workers, Step(w) PROVE payment' = payment
  BY <1>2, StandsAgainstStep
<1>3. CASE Next
  BY <1>2, <1>3
     DEF Next, RequestApproval, ResolveApproval, Claim, ClaimRefused, Die, Environment,
         SessionTimesOut, CustomerPays, AsyncPaymentSettles, PortalExpires, DispatchGoesStale
<1>4. ASSUME NEW d \in Deliveries, WebhookPatches(d) PROVE payment' = payment
  BY <1>1, <1>4 DEF WebhookPatches, PatchScopeHolds, OverlapInv, Observed, Ended
<1>5. ASSUME NEW c \in Clerks, ClerkPatches(c) PROVE payment' = payment
  BY <1>1, <1>5 DEF ClerkPatches, ClerkIs, PatchScopeHolds, OverlapInv, Observed, Ended
<1>6. CASE Webhook \/ Staff
  BY <1>4, <1>5, <1>6
     DEF Webhook, Staff, vars, WebhookReads, WebhookAuditsStale, WebhookDies,
         BeginReconcile, BeginRotation, ClerkRetrieves, CommitRotation, ClerkDies
<1> QED BY <1>3, <1>6 DEF RailsNext, allVars

LEMMA StandsStep ==
  ASSUME SessionsInv, OverlapInv, [RailsNext]_allVars
  PROVE  PreparedStands'
<1>1. Steps
  BY StepsTaken
<1> SUFFICES ASSUME NEW a \in Approvals, exec'[a].state # "succeeded",
                    NEW p, p = exec'[a].prep, Prepares(p), ~p.reused,
                    NEW s, s = p.session, stripe'[s].status = "open"
             PROVE  payment' = PreparedPayment(s, p.gen)
  BY DEF PreparedStands, Payable, Prepares, PreparedOf, PreparedPayment
<1>2. CASE Stored(a)
  <2>1. PICK w \in Workers : Persist(w) /\ worker[w].appr = a
    BY <1>2 DEF Stored
  <2>2. exec \in [Approvals -> Executions] /\ exec[a] \in Executions
    BY DEF SessionsInv, RailsInv, RailsTypeOK, TypeOK
  <2>3. exec' = [exec EXCEPT ![a].prep = worker[w].prep] /\ payment' = PreparedOf(worker[w].prep)
    BY <1>2, <2>1 DEF Stored, Persist
  <2>4. p = worker[w].prep
    BY <2>2, <2>3 DEF Executions
  <2> QED BY <2>3, <2>4 DEF PreparedOf
<1>3. CASE exec'[a].prep = exec[a].prep /\ exec[a].state # "succeeded"
  <2>1. Used(s) /\ p = exec[a].prep
    BY <1>3 DEF SessionsInv, SessionInv, PreparedIsRecorded
  <2>2. stripe[s].status = "open"
    BY <1>1, <2>1, EndedStays
  <2>3. payment = PreparedPayment(s, p.gen)
    BY <1>3, <2>1, <2>2 DEF OverlapInv, PreparedStands, Payable, PreparedOf
  <2>4. payment' = payment
    BY <2>1, <2>2, <2>3, PaymentStands
  <2> QED BY <2>3, <2>4
<1> QED BY <1>1, <1>2, <1>3 DEF Steps, StepClasses, ExecutionKept, Resumable, Decided

LEMMA InitOverlap == RailsInit => OverlapInv
<1> SUFFICES ASSUME RailsInit PROVE OverlapInv
  OBVIOUS
<1>1. \A a \in Approvals : ~Prepares(exec[a].prep) /\ ~IsPrepared(exec[a].prep.expected)
  BY DEF RailsInit, Init, NoExecution, NoPreparation, Prepares, IsPrepared, UnpaidQuote
<1>2. \A w \in Workers : worker[w].pc = "idle" /\ ~Prepares(worker[w].prep)
                         /\ ~IsPrepared(worker[w].prep.expected)
  BY DEF RailsInit, Init, Idle, NoPreparation, Prepares, IsPrepared, UnpaidQuote
<1>3. Observed
  BY DEF RailsInit, Init, Observed, UnusedSession, NoDelivery, OffDuty
<1> QED BY <1>1, <1>2, <1>3 DEF OverlapInv, Owned, InvocationOwns, Closers, PreparedStands, Payable

LEMMA OverlapStep == SessionsInv /\ OverlapInv /\ [RailsNext]_allVars => OverlapInv'
<1> SUFFICES ASSUME SessionsInv, OverlapInv, [RailsNext]_allVars PROVE OverlapInv'
  OBVIOUS
<1>1. Steps /\ Observed
  BY StepsTaken DEF OverlapInv
<1>2. ASSUME NEW s \in Sessions, stripe'[s].async PROVE stripe'[s].status \notin {"unused", "open"}
  BY <1>1, <1>2, AsyncStep
<1>3. ASSUME NEW e \in Deliveries, delivery'[e].active, NEW t, t = delivery'[e].session
      PROVE  t \in Sessions /\ stripe'[t].status \notin {"unused", "open"}
  BY <1>1, <1>3, DeliveriesObserved
<1>4. ASSUME NEW e \in Clerks, clerk'[e].pc = "patch", NEW t, t = clerk'[e].session
      PROVE  t \in Sessions /\ stripe'[t].status \notin {"unused", "open"}
  BY <1>1, <1>4, ClerksObserved
<1>5. Observed'
  BY <1>2, <1>3, <1>4 DEF Observed, Ended, Used
<1> QED BY <1>1, <1>5, ExecutionsOwn, InvocationsOwn, StandsStep DEF OverlapInv

-----------------------------------------------------------------------------
(* Who may close an execution while its session can be paid.                *)

\* The record says how the session of a preparation ended, or that a review
\* of it was asked for.
LEMMA EndIsKnown ==
  ASSUME SessionsInv', NEW s, payment'.session = s,
         Settled(payment') \/ payment'.checkout \in {"paid", "failed", "expired"}
  PROVE  stripe'[s].status # "open"
<1>1. payment'.checkout \in {"paid", "failed", "expired"}
  BY DEF SessionsInv, SessionInv, RecordNames
<1>2. stripe'[payment'.session].status = payment'.checkout
  BY <1>1 DEF SessionsInv, SessionInv, RecordFollowsStripe
<1> QED BY <1>1, <1>2

LEMMA FailsByForgetting ==
  ASSUME SessionsInv, SessionsInv', OverlapInv, Steps, NEW w \in Workers,
         NEW a \in Approvals, worker[w].appr = a,
         CloseUnprepared(w) \/ RecoverClose(w) \/ CloseAccepted(w) \/ MarkFailed(w),
         NEW p, p = exec[a].prep, Prepares(p), ~p.reused, NEW s, s = p.session,
         exec[a].state # "failed", exec'[a].state = "failed", ~exec'[a].review,
         stripe'[s].status = "open"
  PROVE  At(w, "mark_failed") /\ worker[w].prep # p
<1>1. exec \in [Approvals -> Executions] /\ exec' # exec /\ exec[a].state # "none"
  BY DEF SessionsInv, SessionInv, RailsInv, RailsTypeOK, TypeOK, ExecutionKnows
<1>2. /\ Used(s) /\ stripe[s].status = "open" /\ payment.session = s
      /\ InvocationOwns(w)
  <2>1. Used(s)
    BY DEF SessionsInv, SessionInv, PreparedIsRecorded
  <2>2. stripe[s].status = "open"
    BY <2>1, EndedStays
  <2>3. payment.session = s \/ Closed(s)
    BY DEF SessionsInv, SessionInv, PreparedIsRecorded
  <2> QED BY <2>1, <2>2, <2>3 DEF Closed, OverlapInv
<1>3. CASE CloseUnprepared(w)
  BY <1>1, <1>3, ZenonT(30) DEF CloseUnprepared
<1>4. CASE RecoverClose(w)
  <2>1. /\ payment'.session = s
        /\ exec' = [exec EXCEPT ![a].state = "failed",
             ![a].review = ~(\/ Settled(payment')
                             \/ payment'.checkout \in {"paid", "failed", "expired"})]
    BY <1>1, <1>2, <1>4, RecoverClosePayment DEF RecoverClose, PaymentKept
  <2>2. Settled(payment') \/ payment'.checkout \in {"paid", "failed", "expired"}
    BY <1>1, <2>1 DEF Executions
  <2> QED BY <2>1, <2>2, EndIsKnown
<1>5. CASE CloseAccepted(w)
  <2>1. payment'.session = s /\ payment'.checkout = "expired"
    BY <1>1, <1>2, <1>5, ExpirePayment DEF CloseAccepted, PaymentKept
  <2> QED BY <2>1, EndIsKnown
<1>6. CASE MarkFailed(w)
  <2>1. worker[w].pc = "mark_failed"
    BY <1>6 DEF MarkFailed, At
  <2>2. worker[w].prep # p
    BY <1>2, <2>1 DEF InvocationOwns, Closers
  <2> QED BY <2>1, <2>2 DEF At
<1> QED BY <1>3, <1>4, <1>5, <1>6

LEMMA CleansUpStep == SessionsInv /\ SessionsInv' /\ OverlapInv /\ [RailsNext]_allVars => CleansUp
<1> SUFFICES ASSUME SessionsInv, SessionsInv', OverlapInv, [RailsNext]_allVars,
                    NEW a \in Approvals, ~LeftPayable(a),
                    exec'[a].state = "failed", ~exec'[a].review,
                    NEW p, p = exec'[a].prep, Prepares(p), ~p.reused,
                    NEW s, s = p.session, stripe'[s].status = "open"
             PROVE  \E w \in Workers :
                      At(w, "mark_failed") /\ worker[w].appr = a /\ worker[w].prep # exec[a].prep
  BY DEF CleansUp, LeftPayable, Payable, Prepares
<1>1. Steps
  BY StepsTaken
<1>2. ~Stored(a)
  BY DEF Stored
<1>3. p = exec[a].prep
  BY <1>1, <1>2 DEF Steps, StepClasses, ExecutionKept, Resumable, Decided
<1>4. ~Resumable(exec[a], exec'[a])
  <2>1. Used(s)
    BY <1>3 DEF SessionsInv, SessionInv, PreparedIsRecorded
  <2>2. stripe[s].status = "open"
    BY <1>1, <2>1, EndedStays
  <2> QED BY <1>3, <2>2 DEF Resumable, LeftPayable, Payable
<1>5. Fails(a) /\ exec[a].state # "failed"
  BY <1>1, <1>2, <1>4 DEF Steps, StepClasses, ExecutionKept, Decided
<1>6. PICK w \in Workers :
        /\ worker[w].appr = a
        /\ CloseUnprepared(w) \/ RecoverClose(w) \/ CloseAccepted(w) \/ MarkFailed(w)
  BY <1>5 DEF Fails
<1>7. At(w, "mark_failed") /\ worker[w].prep # p
  BY <1>1, <1>3, <1>5, <1>6, FailsByForgetting
<1> QED BY <1>3, <1>6, <1>7

(* However many invocations of an approval overlap, fail or die, and         *)
(* whatever events, reconciliations and rotations run beside them, a         *)
(* prepared session that can be paid and was not published is on the record  *)
(* as it was prepared: no cleanup, recovery or late event closes or skips    *)
(* the record of an open session (index.js:7332, 7357, 24334,                *)
(* paymentSafety.js assertPreparedCheckoutSource).                           *)
THEOREM RailsPreparedStands == RailsSpec => []PreparedStands
<1>1. RailsInit => SessionsInv /\ OverlapInv
  BY InitSessions, InitOverlap
<1>2. SessionsInv /\ OverlapInv /\ [RailsNext]_allVars => (SessionsInv /\ OverlapInv)'
  BY SessionsStep, OverlapStep
<1>3. OverlapInv => PreparedStands
  BY DEF OverlapInv
<1> QED BY <1>1, <1>2, <1>3, PTL DEF RailsSpec

(* An execution is closed as failed, without asking for a review, while its  *)
(* session can be paid, by no invocation that remembers the preparation that *)
(* is stored: only by the marking of one that remembers another or none,     *)
(* which takes two invocations of the approval (index.js:24334-24390, 7094). *)
THEOREM RailsFailuresCleanUp == RailsSpec => FailuresCleanUp
<1>1. RailsInit => SessionsInv /\ OverlapInv
  BY InitSessions, InitOverlap
<1>2. SessionsInv /\ OverlapInv /\ [RailsNext]_allVars => (SessionsInv /\ OverlapInv)'
  BY SessionsStep, OverlapStep
<1>3. SessionsInv /\ SessionsInv' /\ OverlapInv /\ [RailsNext]_allVars => [CleansUp]_allVars
  BY CleansUpStep
<1> QED BY <1>1, <1>2, <1>3, PTL DEF RailsSpec, FailuresCleanUp

=============================================================================
