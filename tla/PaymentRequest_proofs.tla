------------------------ MODULE PaymentRequest_proofs ------------------------
(***************************************************************************)
(* Proofs about the payment-request saga: every action of PaymentRequest   *)
(* keeps the types and the inductive invariant.  PaymentRails_proofs       *)
(* composes them with the other writers of the payment record.             *)
(***************************************************************************)
EXTENDS PaymentRequest, TLAPS

(* The planners map payment records to payment records.                     *)
LEMMA PlannerTypes ==
  /\ UnpaidQuote \in Payments
  /\ \A s \in Sessions, g \in Nat : /\ PreparedPayment(s, g) \in Payments
                                    /\ PublishedPayment(s, g) \in Payments
  /\ \A p \in Payments, o \in ProviderStates : PatchedPayment(p, o) \in Payments
  BY DEF UnpaidQuote, Payments, PreparedPayment, PublishedPayment, PatchedPayment,
         ProviderStates, CheckoutStates

(* The initial records have their types.                                    *)
LEMMA InitialRecords ==
  /\ NoPreparation \in Preparations
  /\ NoExecution \in Executions
  /\ UnusedSession \in SessionRecords
  /\ Idle \in Invocations
<1>1. NoPreparation \in Preparations
  BY PlannerTypes DEF NoPreparation, Preparations
<1>2. NoExecution \in Executions
  BY <1>1 DEF NoExecution, Executions, DispatchStates
<1>3. UnusedSession \in SessionRecords
  BY MaxPortalAssumption DEF UnusedSession, SessionRecords, SessionStates
<1>4. Idle \in Invocations
  BY <1>1, PlannerTypes DEF Idle, Invocations, WorkerPCs, Errors, DispatchStates
<1> QED BY <1>1, <1>2, <1>3, <1>4

LEMMA InitType == Init => TypeOK
  BY PlannerTypes, InitialRecords, MaxPortalAssumption
     DEF Init, TypeOK, ApprovalStates

-----------------------------------------------------------------------------
(***************************************************************************)
(* Types.  The record sets stay folded in the steps below: the lemmas of   *)
(* this part say once what an update of a record is.                       *)
(***************************************************************************)
WorkerTyped == worker \in [Workers -> Invocations]

ExecTyped == exec \in [Approvals -> Executions]

(* The labels that the actions write.                                       *)
LEMMA Labels ==
  /\ \A pc \in {"idle", "close_unprepared", "prepare", "discard", "persist",
                "restore", "dispatch", "send", "record", "complete", "catch",
                "claim_recovery", "recover_stripe", "recover_close",
                "record_failure", "close_accepted", "neutralize",
                "mark_expired", "advance", "check_resolved", "mark_failed"} :
       pc \in WorkerPCs
  /\ \A e \in {"definite", "aborted", "network", "expired", "prep_ambiguous",
               "mail_ambiguous", "mail_rejected"} : e \in Errors
  /\ \A d \in {"sending", "outcome_ambiguous", "recovery_claimed",
               "provider_accepted", "definite_failure"} : d \in DispatchStates
  BY DEF WorkerPCs, Errors, DispatchStates

(* What an invocation becomes in one step is again an invocation.           *)
LEMMA InvocationUpdates ==
  ASSUME NEW r \in Invocations, NEW pc \in WorkerPCs
  PROVE  /\ [r EXCEPT !.pc = pc] \in Invocations
         /\ [r EXCEPT !.pc = pc, !.accepted = TRUE] \in Invocations
         /\ \A e \in Errors : [r EXCEPT !.pc = pc, !.err = e] \in Invocations
         /\ \A p \in Preparations : [r EXCEPT !.pc = pc, !.prep = p] \in Invocations
         /\ \A d \in DispatchStates :
              /\ [r EXCEPT !.pc = pc, !.disp = d] \in Invocations
              /\ [r EXCEPT !.pc = pc, !.disp = d, !.accepted = TRUE] \in Invocations
         /\ \A o \in {""} \cup SessionStates :
              [r EXCEPT !.pc = pc, !.obs = o] \in Invocations
         /\ \A b \in BOOLEAN :
              [[r EXCEPT !.uncertain = b] EXCEPT !.pc = pc] \in Invocations
  BY DEF Invocations

LEMMA InvocationFields ==
  ASSUME NEW r \in Invocations
  PROVE  /\ r.pc \in WorkerPCs /\ r.appr \in Approvals \cup {NoApproval}
         /\ r.admin \in Admins \cup {NoAdmin} /\ r.pay \in Payments
         /\ r.prep \in Preparations /\ r.disp \in DispatchStates
         /\ r.err \in Errors /\ r.obs \in {""} \cup SessionStates
  BY DEF Invocations

(* What an execution becomes in one step is again an execution.             *)
SameMail(x, y) == y \in Executions /\ y.prep = x.prep /\ y.dispatch = x.dispatch

WithDispatch(x, d, y) == y \in Executions /\ y.prep = x.prep /\ y.dispatch = d

WithPreparation(x, p, y) == y \in Executions /\ y.prep = p /\ y.dispatch = x.dispatch

LEMMA ExecutionUpdates ==
  ASSUME NEW x \in Executions
  PROVE  /\ x.prep \in Preparations /\ x.dispatch \in DispatchStates
         /\ \A p \in Preparations : WithPreparation(x, p, [x EXCEPT !.prep = p])
         /\ \A d \in DispatchStates :
              /\ WithDispatch(x, d, [x EXCEPT !.dispatch = d])
              /\ \A b \in BOOLEAN : WithDispatch(x, d, [x EXCEPT !.dispatch = d, !.stale = b])
         /\ \A st \in {"in_progress", "succeeded", "failed"} :
              /\ SameMail(x, [x EXCEPT !.state = st])
              /\ \A o \in Admins \cup {NoAdmin} :
                   SameMail(x, [x EXCEPT !.state = st, !.owner = o])
              /\ \A b \in BOOLEAN : SameMail(x, [x EXCEPT !.state = st, !.review = b])
         /\ SameMail(x, [x EXCEPT !.stale = TRUE])
  BY DEF Executions, SameMail, WithDispatch, WithPreparation

LEMMA WorkerUpdate ==
  ASSUME WorkerTyped, NEW w \in Workers, NEW r \in Invocations,
         worker' = [worker EXCEPT ![w] = r]
  PROVE  WorkerTyped'
  BY DEF WorkerTyped

LEMMA ExecUpdate ==
  ASSUME ExecTyped, NEW a \in Approvals, NEW x \in Executions,
         exec' = [exec EXCEPT ![a] = x]
  PROVE  ExecTyped'
  BY DEF ExecTyped

LEMMA GotoType ==
  ASSUME WorkerTyped, NEW w \in Workers, NEW pc \in WorkerPCs, Goto(w, pc)
  PROVE  WorkerTyped'
  BY InvocationUpdates, WorkerUpdate DEF WorkerTyped, Goto

LEMMA ThrowType ==
  ASSUME WorkerTyped, NEW w \in Workers, NEW e \in Errors, Throw(w, e)
  PROVE  WorkerTyped'
<1>1. worker[w] \in Invocations /\ "catch" \in WorkerPCs
  BY Labels DEF WorkerTyped
<1> DEFINE r == [worker[w] EXCEPT !.pc = "catch", !.err = e]
<1>2. r \in Invocations
  BY <1>1, InvocationUpdates
<1>3. worker' = [worker EXCEPT ![w] = r]
  BY DEF Throw, WorkerTyped
<1> HIDE DEF r
<1> QED BY <1>2, <1>3, WorkerUpdate

LEMMA ReturnType ==
  ASSUME WorkerTyped, NEW w \in Workers, Return(w)
  PROVE  WorkerTyped'
  BY InitialRecords DEF WorkerTyped, Return

LEMMA FinishType ==
  ASSUME ExecTyped, approval \in [Approvals -> ApprovalStates],
         NEW a \in Approvals, NEW o \in {"succeeded", "failed"}, Finish(a, o)
  PROVE  approval' \in [Approvals -> ApprovalStates] /\ ExecTyped'
<1>1. approval' \in [Approvals -> ApprovalStates]
  BY DEF Finish, ApprovalStates
<1>2. exec' = [exec EXCEPT ![a] = [exec[a] EXCEPT !.state = o]]
  BY DEF Finish, ExecTyped
<1>3. [exec[a] EXCEPT !.state = o] \in Executions
  BY ExecutionUpdates DEF ExecTyped, SameMail, WithDispatch, WithPreparation
<1> QED BY <1>1, <1>2, <1>3, ExecUpdate

(* What a running invocation works with.                                    *)
LEMMA RunningFacts ==
  ASSUME TypeOK, SagaInv, NEW w \in Workers
  PROVE  /\ WorkerTyped /\ ExecTyped
         /\ worker[w] \in Invocations
         /\ worker[w].prep \in Preparations /\ worker[w].pay \in Payments
         /\ worker[w].admin \in Admins \cup {NoAdmin}
         /\ ~At(w, "idle") => /\ worker[w].appr \in Approvals
                              /\ exec[worker[w].appr] \in Executions
                              /\ exec[worker[w].appr].prep \in Preparations
                              /\ exec[worker[w].appr].dispatch \in DispatchStates
<1>1. WorkerTyped /\ ExecTyped
  BY DEF TypeOK, WorkerTyped, ExecTyped
<1>2. worker[w] \in Invocations
  BY <1>1 DEF WorkerTyped
<1>3. ~At(w, "idle") => worker[w].appr \in Approvals
  BY DEF SagaInv, InvocationOK, At
<1>4. ~At(w, "idle") => exec[worker[w].appr] \in Executions
  BY <1>1, <1>3 DEF ExecTyped
<1> QED BY <1>1, <1>2, <1>3, <1>4, InvocationFields, ExecutionUpdates

(* A preparation's stored and published forms are payment records.          *)
LEMMA PreparationTypes ==
  ASSUME NEW p \in Preparations, Prepares(p)
  PROVE  PreparedOf(p) \in Payments /\ PublishedOf(p) \in Payments
<1>1. p.session \in Sessions /\ p.gen \in Nat /\ p.expected \in Payments
  BY DEF Preparations, Prepares
<1> QED BY <1>1, PlannerTypes DEF PreparedOf, PublishedOf

-----------------------------------------------------------------------------
(***************************************************************************)
(* Each action keeps the types.                                            *)
(***************************************************************************)
LEMMA PaymentUpdates ==
  ASSUME NEW p \in Payments
  PROVE  /\ \A o \in ProviderStates : PatchedPayment(p, o) \in Payments
         /\ ExpiredPayment(p) \in Payments
         /\ [p EXCEPT !.gen = @ + 1] \in Payments
         /\ \A g \in Nat : [p EXCEPT !.gen = g] \in Payments
         /\ p.gen \in Nat /\ p.gen + 1 \in Nat
<1>1. \A o \in ProviderStates : PatchedPayment(p, o) \in Payments
  BY PlannerTypes
<1>2. ExpiredPayment(p) \in Payments
  BY <1>1 DEF ExpiredPayment, ProviderStates
<1>3. p.gen \in Nat
  BY DEF Payments
<1>4. \A g \in Nat : [p EXCEPT !.gen = g] \in Payments
  BY DEF Payments
<1> QED BY <1>1, <1>2, <1>3, <1>4

(* TypeOK from its parts.                                                   *)
LEMMA TypeParts ==
  ASSUME TypeOK, WorkerTyped', ExecTyped', payment' \in Payments,
         approval' \in [Approvals -> ApprovalStates],
         UNCHANGED <<portal, scope, stripe, mail>>
  PROVE  TypeOK'
  BY DEF TypeOK, WorkerTyped, ExecTyped

(* A step that changes the invocation only.                                 *)
LEMMA LocalType ==
  ASSUME TypeOK, WorkerTyped',
         UNCHANGED <<payment, portal, approval, scope, exec, stripe, mail>>
  PROVE  TypeOK'
  BY DEF TypeOK, WorkerTyped

LEMMA ApprovalTypes ==
  ASSUME TypeOK, NEW a \in Approvals, RequestApproval(a) \/ ResolveApproval(a)
  PROVE  TypeOK'
<1>1. CASE RequestApproval(a)
  <2>1. portal.key \in 0 .. MaxPortal
    BY MaxPortalAssumption DEF TypeOK
  <2> QED BY <1>1, <2>1 DEF TypeOK, RequestApproval, ApprovalStates
<1>2. CASE ResolveApproval(a)
  BY <1>2 DEF TypeOK, ResolveApproval, ApprovalStates
<1> QED BY <1>1, <1>2

LEMMA ClaimType ==
  ASSUME TypeOK, SagaInv, NEW w \in Workers, NEW a \in Approvals, NEW adm \in Admins,
         Claim(w, a, adm)
  PROVE  TypeOK'
<1>1. /\ WorkerTyped /\ ExecTyped /\ exec[a] \in Executions
      /\ payment \in Payments /\ approval \in [Approvals -> ApprovalStates]
      /\ portal.expired \in BOOLEAN
  BY DEF TypeOK, WorkerTyped, ExecTyped
<1>2. exec[a].prep \in Preparations /\ exec[a].dispatch \in DispatchStates
  BY <1>1, ExecutionUpdates DEF SameMail, WithDispatch, WithPreparation
<1> DEFINE pc == IF Prepares(exec[a].prep) THEN "restore" ELSE "prepare"
           r == [Idle EXCEPT !.pc = pc, !.appr = a, !.admin = adm, !.pay = payment,
                    !.prep = exec[a].prep, !.disp = exec[a].dispatch,
                    !.portalExpired = portal.expired]
<1>3. pc \in WorkerPCs
  BY Labels
<1>4. r \in Invocations
  <2> HIDE DEF pc
  <2> QED BY <1>1, <1>2, <1>3, InitialRecords DEF Invocations
<1>5. worker' = [worker EXCEPT ![w] = r]
  BY DEF Claim
<1>6. WorkerTyped'
  <2> HIDE DEF r
  <2> QED BY <1>1, <1>4, <1>5, WorkerUpdate
<1>7. ExecTyped' /\ approval' \in [Approvals -> ApprovalStates]
  <2>1. CASE exec[a].state = "none"
    <3>1. exec' = [exec EXCEPT ![a] = [exec[a] EXCEPT !.state = "in_progress", !.owner = adm]]
      BY <1>1, <2>1 DEF Claim, ExecTyped
    <3>2. [exec[a] EXCEPT !.state = "in_progress", !.owner = adm] \in Executions
      BY <1>1, ExecutionUpdates DEF SameMail, WithDispatch, WithPreparation
    <3>3. approval' \in [Approvals -> ApprovalStates]
      BY <1>1, <2>1 DEF Claim, ApprovalStates
    <3> QED BY <1>1, <3>1, <3>2, <3>3, ExecUpdate
  <2>2. CASE exec[a].state # "none"
    BY <1>1, <2>2 DEF Claim, ExecTyped
  <2> QED BY <2>1, <2>2
<1> QED BY <1>1, <1>6, <1>7, TypeParts DEF Claim

LEMMA ClaimRefusedType ==
  ASSUME TypeOK, SagaInv, NEW w \in Workers, NEW a \in Approvals, NEW adm \in Admins,
         ClaimRefused(w, a, adm)
  PROVE  TypeOK'
<1> DEFINE r == [Idle EXCEPT !.pc = "close_unprepared", !.appr = a, !.admin = adm]
<1>1. WorkerTyped
  BY DEF TypeOK, WorkerTyped
<1>2. r \in Invocations
  BY Labels, InitialRecords DEF Invocations
<1>3. worker' = [worker EXCEPT ![w] = r]
  BY DEF ClaimRefused
<1>4. WorkerTyped'
  <2> HIDE DEF r
  <2> QED BY <1>1, <1>2, <1>3, WorkerUpdate
<1> QED BY <1>4, LocalType DEF ClaimRefused

LEMMA CloseUnpreparedType ==
  ASSUME TypeOK, SagaInv, NEW w \in Workers, CloseUnprepared(w)
  PROVE  TypeOK'
<1> DEFINE a == worker[w].appr
<1>1. /\ WorkerTyped /\ ExecTyped /\ a \in Approvals /\ exec[a] \in Executions
      /\ worker[w].admin \in Admins \cup {NoAdmin}
  BY RunningFacts DEF CloseUnprepared, At
<1>2. [exec[a] EXCEPT !.state = "failed", !.owner = worker[w].admin] \in Executions
  BY <1>1, ExecutionUpdates DEF SameMail, WithDispatch, WithPreparation
<1>3. \/ exec' = exec
      \/ exec' = [exec EXCEPT ![a] =
           [exec[a] EXCEPT !.state = "failed", !.owner = worker[w].admin]]
  BY <1>1 DEF CloseUnprepared, ExecTyped
<1>4. ExecTyped'
  BY <1>1, <1>2, <1>3, ExecUpdate DEF ExecTyped
<1>5. WorkerTyped'
  BY <1>1, ReturnType DEF CloseUnprepared
<1>6. approval' \in [Approvals -> ApprovalStates]
  BY <1>1 DEF CloseUnprepared, TypeOK, ApprovalStates
<1> QED BY <1>4, <1>5, <1>6, TypeParts DEF CloseUnprepared, TypeOK

LEMMA PrepareReuseType ==
  ASSUME TypeOK, SagaInv, NEW w \in Workers, PrepareReuse(w)
  PROVE  TypeOK'
<1> DEFINE q == worker[w].pay
           p == [session |-> q.session, gen |-> q.gen, expected |-> q, reused |-> TRUE]
           r == [worker[w] EXCEPT !.pc = "persist", !.prep = p]
<1>1. WorkerTyped /\ worker[w] \in Invocations /\ q \in Payments
  BY RunningFacts
<1>2. p \in Preparations
  BY <1>1 DEF Payments, Preparations
<1>3. r \in Invocations
  <2> HIDE DEF p
  <2> QED BY <1>1, <1>2, Labels, InvocationUpdates
<1>4. worker' = [worker EXCEPT ![w] = r]
  BY <1>1 DEF PrepareReuse, WorkerTyped
<1>5. WorkerTyped'
  <2> HIDE DEF r
  <2> QED BY <1>1, <1>3, <1>4, WorkerUpdate
<1> QED BY <1>5, LocalType DEF PrepareReuse

LEMMA PrepareRefusedType ==
  ASSUME TypeOK, SagaInv, NEW w \in Workers, PrepareRefused(w)
  PROVE  TypeOK'
<1>1. WorkerTyped
  BY RunningFacts
<1>2. Throw(w, "definite") \/ Throw(w, "network")
  BY DEF PrepareRefused
<1>3. WorkerTyped'
  BY <1>1, <1>2, Labels, ThrowType
<1> QED BY <1>3, LocalType DEF PrepareRefused

LEMMA AdoptType ==
  ASSUME TypeOK, SagaInv, NEW w \in Workers, NEW s \in Sessions, Adopt(w, s)
  PROVE  WorkerTyped'
<1> DEFINE p == [session |-> s, gen |-> worker[w].pay.gen + 1,
                 expected |-> worker[w].pay, reused |-> FALSE]
           r == [worker[w] EXCEPT !.pc = "persist", !.prep = p]
<1>1. WorkerTyped /\ worker[w] \in Invocations /\ worker[w].pay \in Payments
  BY RunningFacts
<1>2. p \in Preparations
  BY <1>1, PaymentUpdates DEF Preparations
<1>3. r \in Invocations
  <2> HIDE DEF p
  <2> QED BY <1>1, <1>2, Labels, InvocationUpdates
<1>4. CASE worker' = [worker EXCEPT ![w] = r]
  <2> HIDE DEF r
  <2> QED BY <1>1, <1>3, <1>4, WorkerUpdate
<1>5. CASE Throw(w, "definite")
  BY <1>1, <1>5, Labels, ThrowType
<1>6. worker' = [worker EXCEPT ![w] = r] \/ Throw(w, "definite")
  BY <1>1 DEF Adopt, WorkerTyped
<1> QED BY <1>4, <1>5, <1>6

LEMMA CreateSessionType ==
  ASSUME TypeOK, SagaInv, NEW w \in Workers, CreateSession(w)
  PROVE  TypeOK'
<1>1. /\ WorkerTyped /\ worker[w].appr \in Approvals /\ worker[w].pay \in Payments
  BY RunningFacts DEF CreateSession, NeedsNewSession, At
<1>2. scope[worker[w].appr] \in 0 .. MaxPortal /\ worker[w].pay.gen + 1 \in Nat
  BY <1>1, PaymentUpdates DEF TypeOK
<1>3. PICK s \in Sessions :
        /\ stripe' = [stripe EXCEPT ![s] =
                        [status |-> "open", portal |-> scope[worker[w].appr],
                         gen |-> worker[w].pay.gen + 1,
                         appr |-> worker[w].appr, async |-> FALSE]]
        /\ Adopt(w, s) \/ Throw(w, "prep_ambiguous")
  BY DEF CreateSession
<1>4. stripe' \in [Sessions -> SessionRecords]
  <2>1. [status |-> "open", portal |-> scope[worker[w].appr],
         gen |-> worker[w].pay.gen + 1,
         appr |-> worker[w].appr, async |-> FALSE] \in SessionRecords
    BY <1>1, <1>2 DEF SessionRecords, SessionStates
  <2> QED BY <1>3, <2>1 DEF TypeOK
<1>5. WorkerTyped'
  BY <1>1, <1>3, AdoptType, ThrowType, Labels
<1> QED BY <1>4, <1>5 DEF CreateSession, TypeOK, WorkerTyped

LEMMA ReplaySessionType ==
  ASSUME TypeOK, SagaInv, NEW w \in Workers, ReplaySession(w)
  PROVE  TypeOK'
<1>1. WorkerTyped
  BY RunningFacts
<1>2. PICK s \in Sessions : Adopt(w, s) \/ Goto(w, "discard") \/ Throw(w, "prep_ambiguous")
  BY DEF ReplaySession, SameKey
<1>3. WorkerTyped'
  BY <1>1, <1>2, AdoptType, ThrowType, GotoType, Labels
<1> QED BY <1>3, LocalType DEF ReplaySession

LEMMA CreateSessionFailsType ==
  ASSUME TypeOK, SagaInv, NEW w \in Workers, CreateSessionFails(w)
  PROVE  TypeOK'
<1>1. WorkerTyped'
  BY RunningFacts, ThrowType, Labels DEF CreateSessionFails
<1> QED BY <1>1, LocalType DEF CreateSessionFails

LEMMA DiscardCreatedType ==
  ASSUME TypeOK, SagaInv, NEW w \in Workers, DiscardCreated(w)
  PROVE  TypeOK'
<1>1. WorkerTyped'
  BY RunningFacts, ThrowType, Labels DEF DiscardCreated
<1>2. payment' \in Payments
  BY PaymentUpdates DEF DiscardCreated, TypeOK
<1> QED BY <1>1, <1>2 DEF DiscardCreated, TypeOK, WorkerTyped

LEMMA PersistType ==
  ASSUME TypeOK, SagaInv, NEW w \in Workers, Persist(w)
  PROVE  TypeOK'
<1> DEFINE a == worker[w].appr
           p == worker[w].prep
           r == [worker[w] EXCEPT !.pc = "restore", !.prep = exec[a].prep]
<1>1. /\ WorkerTyped /\ ExecTyped /\ worker[w] \in Invocations /\ p \in Preparations
      /\ a \in Approvals /\ exec[a] \in Executions /\ exec[a].prep \in Preparations
  BY RunningFacts DEF Persist, At
<1>2. CASE Prepares(exec[a].prep)
  <2>1. worker' = [worker EXCEPT ![w] = r]
    BY <1>1, <1>2 DEF Persist, WorkerTyped
  <2>2. r \in Invocations
    BY <1>1, Labels, InvocationUpdates
  <2>3. WorkerTyped'
    <3> HIDE DEF r
    <3> QED BY <1>1, <2>1, <2>2, WorkerUpdate
  <2> QED BY <1>2, <2>3, LocalType DEF Persist
<1>3. CASE ~Prepares(exec[a].prep)
  <2>1. Goto(w, "restore") /\ payment' = PreparedOf(p)
    BY <1>3 DEF Persist
  <2>2. exec' = [exec EXCEPT ![a] = [exec[a] EXCEPT !.prep = p]]
    BY <1>1, <1>3 DEF Persist, ExecTyped
  <2>3. ExecTyped'
    BY <1>1, <2>2, ExecutionUpdates, ExecUpdate DEF SameMail, WithDispatch, WithPreparation
  <2>4. WorkerTyped'
    BY <1>1, <2>1, Labels, GotoType
  <2>5. payment' \in Payments
    <3>1. Prepares(p)
      BY DEF SagaInv, InvocationOK, Persist, At
    <3> QED BY <1>1, <2>1, <3>1, PreparationTypes
  <2> QED BY <2>3, <2>4, <2>5, TypeParts DEF Persist, TypeOK
<1> QED BY <1>2, <1>3

LEMMA PersistFailsType ==
  ASSUME TypeOK, SagaInv, NEW w \in Workers, PersistFails(w)
  PROVE  TypeOK'
<1>1. Throw(w, "prep_ambiguous") \/ Throw(w, "aborted") \/ Throw(w, "definite")
  BY DEF PersistFails
<1>2. WorkerTyped'
  BY <1>1, RunningFacts, ThrowType, Labels
<1> QED BY <1>2, LocalType DEF PersistFails

LEMMA RestoreType ==
  ASSUME TypeOK, SagaInv, NEW w \in Workers, Restore(w)
  PROVE  TypeOK'
<1>1. Throw(w, "expired") \/ Throw(w, "definite") \/ Throw(w, "network") \/ Goto(w, "dispatch")
  BY DEF Restore
<1>2. WorkerTyped'
  BY <1>1, RunningFacts, ThrowType, GotoType, Labels
<1> QED BY <1>2, LocalType DEF Restore

LEMMA ClaimDispatchType ==
  ASSUME TypeOK, SagaInv, NEW w \in Workers, ClaimDispatch(w)
  PROVE  TypeOK'
<1> DEFINE a == worker[w].appr
           d == exec[a].dispatch
           r == [worker[w] EXCEPT !.pc = "complete", !.disp = "provider_accepted",
                                  !.accepted = TRUE]
           q == [worker[w] EXCEPT !.pc = "send", !.disp = "sending"]
           x == [exec[a] EXCEPT !.dispatch = "sending", !.stale = FALSE]
<1>1. /\ WorkerTyped /\ ExecTyped /\ worker[w] \in Invocations
      /\ a \in Approvals /\ exec[a] \in Executions /\ d \in DispatchStates
  BY RunningFacts DEF ClaimDispatch, At
<1>2. r \in Invocations /\ q \in Invocations /\ x \in Executions
  BY <1>1, Labels, InvocationUpdates, ExecutionUpdates DEF SameMail, WithDispatch, WithPreparation
<1>3. \/ Throw(w, "definite") /\ UNCHANGED exec
      \/ Throw(w, "aborted") /\ UNCHANGED exec
      \/ worker' = [worker EXCEPT ![w] = r] /\ UNCHANGED exec
      \/ worker' = [worker EXCEPT ![w] = q] /\ exec' = [exec EXCEPT ![a] = x]
  <2>1. d \in {"provider_accepted", "recovery_claimed", "definite_failure"}
          \/ MayBeginAttempt(d)
    BY <1>1 DEF DispatchStates, MayBeginAttempt
  <2>2. CASE d = "provider_accepted"
    BY <1>1, <2>2 DEF ClaimDispatch, WorkerTyped
  <2>3. CASE d \in {"recovery_claimed", "definite_failure"}
    BY <1>1, <2>3 DEF ClaimDispatch
  <2>4. CASE MayBeginAttempt(d)
    BY <1>1, <2>4 DEF ClaimDispatch, MayBeginAttempt, WorkerTyped, ExecTyped
  <2> QED BY <2>1, <2>2, <2>3, <2>4
<1>4. WorkerTyped' /\ ExecTyped'
  <2> HIDE DEF r, q, x
  <2> QED BY <1>1, <1>2, <1>3, Labels, ThrowType, WorkerUpdate, ExecUpdate DEF ExecTyped
<1> QED BY <1>4, TypeParts DEF ClaimDispatch, TypeOK

LEMMA SendType ==
  ASSUME TypeOK, SagaInv, NEW w \in Workers, Send(w)
  PROVE  TypeOK'
<1> DEFINE r == [worker[w] EXCEPT !.pc = "record", !.accepted = TRUE]
<1>1. /\ WorkerTyped /\ worker[w] \in Invocations /\ worker[w].appr \in Approvals
  BY RunningFacts DEF Send, At
<1>2. r \in Invocations
  BY <1>1, Labels, InvocationUpdates
<1>3. \/ worker' = [worker EXCEPT ![w] = r]
      \/ Throw(w, "mail_ambiguous") \/ Throw(w, "mail_rejected")
  BY <1>1 DEF Send, WorkerTyped
<1>4. WorkerTyped'
  <2> HIDE DEF r
  <2> QED BY <1>1, <1>2, <1>3, Labels, ThrowType, WorkerUpdate
<1>5. mail' \in [Approvals -> BOOLEAN]
  BY DEF Send, TypeOK
<1> QED BY <1>4, <1>5 DEF Send, TypeOK, WorkerTyped

LEMMA RecordAcceptanceType ==
  ASSUME TypeOK, SagaInv, NEW w \in Workers, RecordAcceptance(w)
  PROVE  TypeOK'
<1> DEFINE a == worker[w].appr
           r == [worker[w] EXCEPT !.pc = "complete", !.disp = "provider_accepted"]
           x == [exec[a] EXCEPT !.dispatch = "provider_accepted"]
<1>1. /\ WorkerTyped /\ ExecTyped /\ worker[w] \in Invocations
      /\ a \in Approvals /\ exec[a] \in Executions
  BY RunningFacts DEF RecordAcceptance, At
<1>2. r \in Invocations /\ x \in Executions
  BY <1>1, Labels, InvocationUpdates, ExecutionUpdates DEF SameMail, WithDispatch, WithPreparation
<1>3. \/ Throw(w, "definite") /\ UNCHANGED exec
      \/ worker' = [worker EXCEPT ![w] = r] /\ exec' = [exec EXCEPT ![a] = x]
  BY <1>1 DEF RecordAcceptance, WorkerTyped, ExecTyped
<1>4. WorkerTyped' /\ ExecTyped'
  <2> HIDE DEF r, x
  <2> QED BY <1>1, <1>2, <1>3, Labels, ThrowType, WorkerUpdate, ExecUpdate DEF ExecTyped
<1> QED BY <1>4, TypeParts DEF RecordAcceptance, TypeOK

LEMMA CompleteType ==
  ASSUME TypeOK, SagaInv, NEW w \in Workers, Complete(w)
  PROVE  TypeOK'
<1> DEFINE a == worker[w].appr
           p == worker[w].prep
<1>1. WorkerTyped /\ ExecTyped /\ a \in Approvals /\ p \in Preparations
  BY RunningFacts DEF Complete, At
<1>2. Prepares(p)
  BY DEF SagaInv, InvocationOK, Complete, At
<1>3. payment' \in Payments
  BY <1>1, <1>2, PreparationTypes DEF Complete, TypeOK
<1>4. Finish(a, "succeeded") \/ UNCHANGED <<approval, exec>>
  BY DEF Complete
<1>5. approval' \in [Approvals -> ApprovalStates] /\ ExecTyped'
  BY <1>1, <1>4, FinishType DEF TypeOK, ExecTyped
<1>6. WorkerTyped'
  BY <1>1, ReturnType DEF Complete
<1> QED BY <1>3, <1>5, <1>6, TypeParts DEF Complete

LEMMA CleanupLabel ==
  ASSUME NEW w
  PROVE  CleanupPC(w) \in {"idle", "neutralize", "mark_failed"}
  BY DEF CleanupPC

LEMMA ProceedType ==
  ASSUME WorkerTyped, NEW w \in Workers, NEW pc \in WorkerPCs, Proceed(w, pc)
  PROVE  WorkerTyped'
  BY GotoType, ReturnType DEF Proceed

LEMMA CatchType ==
  ASSUME TypeOK, SagaInv, NEW w \in Workers, Catch(w)
  PROVE  TypeOK'
<1>1. WorkerTyped /\ worker[w] \in Invocations
  BY RunningFacts
<1>2. CASE Return(w)
  BY <1>1, <1>2, ReturnType, LocalType DEF Catch
<1>3. ASSUME NEW readFails \in BOOLEAN,
             NEW pc \in {"claim_recovery", "record_failure", "neutralize", "mark_failed"},
             worker' = [worker EXCEPT ![w] =
               [[worker[w] EXCEPT !.uncertain = readFails] EXCEPT !.pc = pc]]
      PROVE  TypeOK'
  <2> DEFINE r == [[worker[w] EXCEPT !.uncertain = readFails] EXCEPT !.pc = pc]
  <2>1. r \in Invocations
    BY <1>1, Labels, InvocationUpdates
  <2>2. worker' = [worker EXCEPT ![w] = r]
    BY <1>3
  <2>3. WorkerTyped'
    <3> HIDE DEF r
    <3> QED BY <1>1, <2>1, <2>2, WorkerUpdate
  <2> QED BY <2>3, LocalType DEF Catch
<1>4. \/ Return(w)
      \/ \E readFails \in BOOLEAN,
            pc \in {"claim_recovery", "record_failure", "neutralize", "mark_failed"} :
           worker' = [worker EXCEPT ![w] =
             [[worker[w] EXCEPT !.uncertain = readFails] EXCEPT !.pc = pc]]
  <2>1. PICK readFails \in BOOLEAN :
          \/ Return(w)
          \/ worker' = [worker EXCEPT ![w] =
               IF RecoverableDispatch(w)
                 THEN [[worker[w] EXCEPT !.uncertain = readFails] EXCEPT !.pc = "claim_recovery"]
               ELSE IF [worker[w] EXCEPT !.uncertain = readFails].disp # "none"
                 THEN [[worker[w] EXCEPT !.uncertain = readFails] EXCEPT !.pc = "record_failure"]
               ELSE IF readFails \/ CleanupPC(w) = "idle" THEN Idle
               ELSE [[worker[w] EXCEPT !.uncertain = readFails] EXCEPT !.pc = CleanupPC(w)]]
    BY Zenon DEF Catch
  <2> DEFINE v == [worker[w] EXCEPT !.uncertain = readFails]
  <2> HIDE DEF v
  <2>2. \/ Return(w)
        \/ worker' = [worker EXCEPT ![w] = [v EXCEPT !.pc = "claim_recovery"]]
        \/ worker' = [worker EXCEPT ![w] = [v EXCEPT !.pc = "record_failure"]]
        \/ /\ CleanupPC(w) # "idle"
           /\ worker' = [worker EXCEPT ![w] = [v EXCEPT !.pc = CleanupPC(w)]]
    BY <2>1 DEF Return, v
  <2> QED BY <2>2, CleanupLabel DEF v
<1> QED BY <1>2, <1>3, <1>4

LEMMA ClaimRecoveryType ==
  ASSUME TypeOK, SagaInv, NEW w \in Workers, ClaimRecovery(w)
  PROVE  TypeOK'
<1> DEFINE a == worker[w].appr
           r == [worker[w] EXCEPT !.pc = "recover_stripe", !.disp = "recovery_claimed"]
           q == [worker[w] EXCEPT !.pc = "record_failure", !.disp = exec[a].dispatch]
           x == [exec[a] EXCEPT !.dispatch = "recovery_claimed"]
<1>1. /\ WorkerTyped /\ ExecTyped /\ worker[w] \in Invocations
      /\ a \in Approvals /\ exec[a] \in Executions /\ exec[a].dispatch \in DispatchStates
  BY RunningFacts DEF ClaimRecovery, At
<1>2. r \in Invocations /\ q \in Invocations /\ x \in Executions
  BY <1>1, Labels, InvocationUpdates, ExecutionUpdates DEF SameMail, WithDispatch, WithPreparation
<1>3. \/ Return(w) /\ UNCHANGED exec
      \/ worker' = [worker EXCEPT ![w] = r] /\ exec' = [exec EXCEPT ![a] = x]
      \/ worker' = [worker EXCEPT ![w] = q] /\ UNCHANGED exec
  BY <1>1 DEF ClaimRecovery, WorkerTyped, ExecTyped
<1>4. WorkerTyped' /\ ExecTyped'
  <2> HIDE DEF r, q, x
  <2> QED BY <1>1, <1>2, <1>3, ReturnType, WorkerUpdate, ExecUpdate DEF ExecTyped
<1> QED BY <1>4, TypeParts DEF ClaimRecovery, TypeOK

(* An update of the status of a session keeps the sessions typed.           *)
LEMMA SessionUpdate ==
  ASSUME stripe \in [Sessions -> SessionRecords], NEW s, NEW st \in SessionStates,
         stripe' = [stripe EXCEPT ![s].status = st]
  PROVE  stripe' \in [Sessions -> SessionRecords]
  BY DEF SessionRecords

LEMMA RecoverStripeType ==
  ASSUME TypeOK, SagaInv, NEW w \in Workers, RecoverStripe(w)
  PROVE  TypeOK'
<1> DEFINE s == worker[w].prep.session
<1>1. /\ WorkerTyped /\ worker[w] \in Invocations
      /\ worker[w].prep \in Preparations /\ stripe \in [Sessions -> SessionRecords]
  BY RunningFacts DEF TypeOK
<1>2. Prepares(worker[w].prep) => stripe[s].status \in SessionStates
  BY <1>1 DEF Preparations, Prepares, SessionRecords
<1>3. Prepares(worker[w].prep)
  BY DEF SagaInv, InvocationOK, RecoverStripe, At
<1>4. PICK o \in {""} \cup SessionStates :
        worker' = [worker EXCEPT ![w].pc = "recover_close", ![w].obs = o]
  BY <1>2, <1>3 DEF RecoverStripe, SessionStates
<1> DEFINE r == [worker[w] EXCEPT !.pc = "recover_close", !.obs = o]
<1>5. r \in Invocations
  BY <1>1, Labels, InvocationUpdates
<1>6. worker' = [worker EXCEPT ![w] = r]
  BY <1>1, <1>4 DEF WorkerTyped
<1>7. WorkerTyped'
  <2> HIDE DEF r
  <2> QED BY <1>1, <1>5, <1>6, WorkerUpdate
<1>8. stripe' \in [Sessions -> SessionRecords]
  <2>1. "expired" \in SessionStates
    BY DEF SessionStates
  <2>2. stripe' = stripe \/ stripe' = [stripe EXCEPT ![s].status = "expired"]
    BY DEF RecoverStripe
  <2> QED BY <1>1, <2>1, <2>2, SessionUpdate
<1> QED BY <1>7, <1>8 DEF RecoverStripe, TypeOK, WorkerTyped

LEMMA RecoverCloseType ==
  ASSUME TypeOK, SagaInv, NEW w \in Workers, RecoverClose(w)
  PROVE  TypeOK'
<1> DEFINE a == worker[w].appr
<1>1. /\ WorkerTyped /\ ExecTyped /\ a \in Approvals /\ exec[a] \in Executions
      /\ payment \in Payments /\ approval \in [Approvals -> ApprovalStates]
  BY RunningFacts DEF RecoverClose, At, TypeOK
<1>2. payment' \in Payments
  <2>1. \/ payment' = payment
        \/ Actionable(worker[w].obs) /\ payment' = PatchedPayment(payment, worker[w].obs)
    BY DEF RecoverClose
  <2>2. Actionable(worker[w].obs) => PatchedPayment(payment, worker[w].obs) \in Payments
    BY <1>1, PaymentUpdates DEF Actionable
  <2> QED BY <1>1, <2>1, <2>2
<1>3. PICK b \in BOOLEAN :
        \/ exec' = exec
        \/ exec' = [exec EXCEPT ![a] = [exec[a] EXCEPT !.state = "failed", !.review = b]]
  BY <1>1 DEF RecoverClose, ExecTyped
<1>4. [exec[a] EXCEPT !.state = "failed", !.review = b] \in Executions
  BY <1>1, ExecutionUpdates DEF SameMail, WithDispatch, WithPreparation
<1>5. ExecTyped'
  BY <1>1, <1>3, <1>4, ExecUpdate DEF ExecTyped
<1>6. approval' \in [Approvals -> ApprovalStates]
  BY <1>1 DEF RecoverClose, ApprovalStates
<1>7. WorkerTyped'
  BY <1>1, ReturnType DEF RecoverClose
<1> QED BY <1>2, <1>5, <1>6, <1>7, TypeParts DEF RecoverClose

LEMMA RecordFailureType ==
  ASSUME TypeOK, SagaInv, NEW w \in Workers, RecordFailure(w)
  PROVE  TypeOK'
<1> DEFINE a == worker[w].appr
           n == DispatchAfterFailure(worker[w].err)
           x == [exec[a] EXCEPT !.dispatch = n]
<1>1. WorkerTyped /\ ExecTyped /\ a \in Approvals /\ exec[a] \in Executions
  BY RunningFacts DEF RecordFailure, At
<1>2. x \in Executions
  BY <1>1, Labels, ExecutionUpdates DEF DispatchAfterFailure, SameMail, WithDispatch, WithPreparation
<1>3. exec' = exec \/ exec' = [exec EXCEPT ![a] = x]
  BY <1>1 DEF RecordFailure, ExecTyped
<1>4. ExecTyped'
  <2> HIDE DEF x
  <2> QED BY <1>1, <1>2, <1>3, ExecUpdate DEF ExecTyped
<1>5. \/ Proceed(w, CleanupPC(w)) \/ Proceed(w, "idle")
      \/ Proceed(w, "close_accepted") \/ Return(w)
  BY DEF RecordFailure
<1>6. WorkerTyped'
  BY <1>1, <1>5, CleanupLabel, Labels, ProceedType, ReturnType
<1> QED BY <1>4, <1>6, TypeParts DEF RecordFailure, TypeOK

LEMMA CloseAcceptedType ==
  ASSUME TypeOK, SagaInv, NEW w \in Workers, CloseAccepted(w)
  PROVE  TypeOK'
<1>1. /\ WorkerTyped /\ ExecTyped /\ worker[w].appr \in Approvals /\ payment \in Payments
  BY RunningFacts DEF CloseAccepted, At, TypeOK
<1>2. payment' \in Payments
  BY <1>1, PaymentUpdates DEF CloseAccepted
<1>3. Finish(worker[w].appr, "failed") \/ UNCHANGED <<approval, exec>>
  BY DEF CloseAccepted
<1>4. approval' \in [Approvals -> ApprovalStates] /\ ExecTyped'
  BY <1>1, <1>3, FinishType DEF TypeOK, ExecTyped
<1>5. WorkerTyped'
  BY <1>1, ReturnType DEF CloseAccepted
<1> QED BY <1>2, <1>4, <1>5, TypeParts DEF CloseAccepted

LEMMA CleanupTypes ==
  ASSUME TypeOK, SagaInv, NEW w \in Workers,
         Neutralize(w) \/ MarkExpired(w) \/ Advance(w) \/ CheckResolved(w) \/ MarkFailed(w)
  PROVE  TypeOK'
<1>1. /\ WorkerTyped /\ ExecTyped /\ worker[w].appr \in Approvals /\ payment \in Payments
      /\ worker[w].prep.gen \in Nat
  BY RunningFacts DEF Neutralize, MarkExpired, Advance, CheckResolved, MarkFailed, At,
                      TypeOK, Preparations
<1>2. WorkerTyped'
  BY <1>1, Labels, GotoType, ReturnType
     DEF Neutralize, MarkExpired, Advance, CheckResolved, MarkFailed
<1>3. CASE Neutralize(w)
  <2>1. "expired" \in SessionStates
    BY DEF SessionStates
  <2>2. stripe' \in [Sessions -> SessionRecords]
    BY <1>3, <2>1, SessionUpdate DEF Neutralize, TypeOK
  <2> QED BY <1>2, <1>3, <2>2 DEF Neutralize, TypeOK, WorkerTyped
<1>4. CASE MarkExpired(w) \/ Advance(w)
  <2>1. payment' \in Payments
    BY <1>1, <1>4, PaymentUpdates DEF MarkExpired, Advance
  <2> QED BY <1>2, <1>4, <2>1 DEF MarkExpired, Advance, TypeOK, WorkerTyped
<1>5. CASE CheckResolved(w)
  BY <1>2, <1>5, LocalType DEF CheckResolved
<1>6. CASE MarkFailed(w)
  <2>1. approval' \in [Approvals -> ApprovalStates] /\ ExecTyped'
    BY <1>1, <1>6, FinishType DEF MarkFailed, TypeOK, ExecTyped
  <2> QED BY <1>2, <1>6, <2>1, TypeParts DEF MarkFailed, TypeOK
<1> QED BY <1>3, <1>4, <1>5, <1>6

LEMMA EnvironmentType ==
  ASSUME TypeOK, Environment
  PROVE  TypeOK'
<1>1. CASE \E s \in Sessions : SessionTimesOut(s) \/ CustomerPays(s) \/ AsyncPaymentSettles(s)
  <2>1. stripe' \in [Sessions -> SessionRecords]
    BY <1>1 DEF TypeOK, SessionTimesOut, CustomerPays, AsyncPaymentSettles,
                SessionRecords, SessionStates
  <2> QED BY <1>1, <2>1 DEF TypeOK, SessionTimesOut, CustomerPays, AsyncPaymentSettles
<1>2. CASE PortalExpires
  BY <1>2 DEF TypeOK, PortalExpires
<1>3. CASE \E a \in Approvals : DispatchGoesStale(a)
  <2>1. PICK a \in Approvals : DispatchGoesStale(a)
    BY <1>3
  <2>2. ExecTyped /\ exec' = [exec EXCEPT ![a] = [exec[a] EXCEPT !.stale = TRUE]]
    BY <2>1 DEF DispatchGoesStale, TypeOK, ExecTyped
  <2>3. [exec[a] EXCEPT !.stale = TRUE] \in Executions
    BY <2>2, ExecutionUpdates DEF ExecTyped, SameMail, WithDispatch, WithPreparation
  <2>4. ExecTyped'
    BY <2>2, <2>3, ExecUpdate
  <2> QED BY <2>1, <2>4 DEF DispatchGoesStale, TypeOK, ExecTyped
<1> QED BY <1>1, <1>2, <1>3 DEF Environment

(* Every step of the saga and of its surroundings keeps the types.          *)
THEOREM TypeStep == TypeOK /\ SagaInv /\ [Next]_vars => TypeOK'
<1> SUFFICES ASSUME TypeOK, SagaInv, [Next]_vars PROVE TypeOK'
  OBVIOUS
<1>1. ASSUME NEW a \in Approvals, RequestApproval(a) \/ ResolveApproval(a) PROVE TypeOK'
  BY <1>1, ApprovalTypes
<1>2. ASSUME NEW w \in Workers, NEW a \in Approvals, NEW adm \in Admins,
             Claim(w, a, adm) \/ ClaimRefused(w, a, adm)
      PROVE  TypeOK'
  BY <1>2, ClaimType, ClaimRefusedType
<1>3. ASSUME NEW w \in Workers, Step(w) PROVE TypeOK'
  BY <1>3, CloseUnpreparedType, PrepareReuseType, PrepareRefusedType, CreateSessionType,
     ReplaySessionType, CreateSessionFailsType, DiscardCreatedType, PersistType,
     PersistFailsType, RestoreType, ClaimDispatchType, SendType, RecordAcceptanceType,
     CompleteType, CatchType, ClaimRecoveryType, RecoverStripeType, RecoverCloseType,
     RecordFailureType, CloseAcceptedType, CleanupTypes DEF Step
<1>4. ASSUME NEW w \in Workers, Die(w) PROVE TypeOK'
  BY <1>4, ReturnType, LocalType DEF Die, TypeOK, WorkerTyped
<1>5. CASE Environment
  BY <1>5, EnvironmentType
<1>6. CASE UNCHANGED vars
  BY <1>6 DEF vars, TypeOK
<1> QED BY <1>1, <1>2, <1>3, <1>4, <1>5, <1>6 DEF Next

-----------------------------------------------------------------------------
(***************************************************************************)
(* The inductive invariant.  What one invocation relies on is kept by the  *)
(* steps of the others because a stored preparation never changes and an   *)
(* accepted e-mail stays accepted (StoredStays).                           *)
(***************************************************************************)
StoredStays ==
  \A a \in Approvals :
    /\ Prepares(exec[a].prep) => exec'[a].prep = exec[a].prep
    /\ mail[a] => mail'[a]

Others(w) == \A v \in Workers \ {w} : worker'[v] = worker[v]

(* Of the invocation that moved: where it is, and what it kept.             *)
Moved(w, pc) ==
  /\ worker'[w].pc = pc
  /\ worker'[w].appr = worker[w].appr
  /\ worker'[w].prep = worker[w].prep
  /\ worker'[w].pay = worker[w].pay
  /\ Others(w)

(* The labels at which an invocation relies on nothing.                     *)
FreePCs == {"idle", "close_unprepared", "prepare", "catch", "record_failure",
            "close_accepted", "check_resolved", "mark_failed"}

LEMMA GotoMoves ==
  ASSUME WorkerTyped, NEW w \in Workers, NEW pc, Goto(w, pc)
  PROVE  Moved(w, pc)
  BY DEF WorkerTyped, Goto, Moved, Others, Invocations

LEMMA ThrowMoves ==
  ASSUME WorkerTyped, NEW w \in Workers, NEW e, Throw(w, e)
  PROVE  Moved(w, "catch")
  BY DEF WorkerTyped, Throw, Moved, Others, Invocations

LEMMA PreparesMoves ==
  ASSUME WorkerTyped, NEW w \in Workers, NEW pc, NEW p,
         worker' = [worker EXCEPT ![w].pc = pc, ![w].prep = p]
  PROVE  /\ worker'[w].pc = pc /\ worker'[w].appr = worker[w].appr
         /\ worker'[w].prep = p /\ Others(w)
  BY DEF WorkerTyped, Others, Invocations

(* The other fields an invocation writes matter to no one.                  *)
LEMMA OtherMoves ==
  ASSUME WorkerTyped, NEW w \in Workers, NEW pc, NEW u,
         \/ worker' = [worker EXCEPT ![w].pc = pc, ![w].disp = u]
         \/ worker' = [worker EXCEPT ![w].pc = pc, ![w].disp = u, ![w].accepted = TRUE]
         \/ worker' = [worker EXCEPT ![w].pc = pc, ![w].accepted = u]
         \/ worker' = [worker EXCEPT ![w].pc = pc, ![w].obs = u]
         \/ worker' = [worker EXCEPT ![w] = [[worker[w] EXCEPT !.uncertain = u] EXCEPT !.pc = pc]]
  PROVE  Moved(w, pc)
<1> DEFINE v == worker[w]
           Kept(r) == r.pc = pc /\ r.appr = v.appr /\ r.prep = v.prep /\ r.pay = v.pay
<1>1. v \in Invocations
  BY DEF WorkerTyped
<1>2. ASSUME NEW r, Kept(r), worker' = [worker EXCEPT ![w] = r] PROVE Moved(w, pc)
  BY <1>2 DEF WorkerTyped, Moved, Others
<1>3. /\ Kept([v EXCEPT !.pc = pc, !.disp = u])
      /\ Kept([v EXCEPT !.pc = pc, !.disp = u, !.accepted = TRUE])
      /\ Kept([v EXCEPT !.pc = pc, !.accepted = u])
      /\ Kept([v EXCEPT !.pc = pc, !.obs = u])
      /\ Kept([[v EXCEPT !.uncertain = u] EXCEPT !.pc = pc])
  BY <1>1 DEF Invocations
<1>4. \/ worker' = [worker EXCEPT ![w] = [v EXCEPT !.pc = pc, !.disp = u]]
      \/ worker' = [worker EXCEPT ![w] = [v EXCEPT !.pc = pc, !.disp = u, !.accepted = TRUE]]
      \/ worker' = [worker EXCEPT ![w] = [v EXCEPT !.pc = pc, !.accepted = u]]
      \/ worker' = [worker EXCEPT ![w] = [v EXCEPT !.pc = pc, !.obs = u]]
      \/ worker' = [worker EXCEPT ![w] = [[v EXCEPT !.uncertain = u] EXCEPT !.pc = pc]]
  BY DEF WorkerTyped
<1> HIDE DEF Kept, v
<1> QED BY <1>2, <1>3, <1>4

LEMMA MovedFreely ==
  ASSUME SagaInv, NEW w \in Workers, ~At(w, "idle"), NEW pc \in FreePCs, Moved(w, pc)
  PROVE  InvocationOK(w)' /\ Others(w)
  BY DEF SagaInv, InvocationOK, Moved, At, FreePCs

LEMMA ReturnsFreely ==
  ASSUME WorkerTyped, NEW w \in Workers, Return(w)
  PROVE  InvocationOK(w)' /\ Others(w)
<1>1. worker'[w] = Idle /\ Others(w)
  BY DEF WorkerTyped, Return, Others
<1>2. Idle.pc = "idle" /\ ~Settled(Idle.prep.expected)
  BY DEF Idle, NoPreparation, UnpaidQuote, Settled
<1> QED BY <1>1, <1>2 DEF InvocationOK

(* The others' part of the invariant, and the whole of it.                  *)
LEMMA SagaParts ==
  ASSUME SagaInv, NEW w \in Workers, InvocationOK(w)', Others(w), StoredStays,
         \A a \in Approvals : ExecutionOK(a)'
  PROVE  SagaInv'
<1>1. ASSUME NEW v \in Workers, v # w PROVE InvocationOK(v)'
  <2>1. worker'[v] = worker[v] /\ InvocationOK(v)
    BY <1>1 DEF Others, SagaInv
  <2>2. worker[v].pc # "idle" => worker[v].appr \in Approvals
    BY <2>1 DEF InvocationOK
  <2> QED BY <2>1, <2>2 DEF InvocationOK, StoredStays
<1> QED BY <1>1 DEF SagaInv

(* A step that leaves the executions and the accepted e-mails alone.        *)
LEMMA SagaLocal ==
  ASSUME SagaInv, NEW w \in Workers, InvocationOK(w)', Others(w), UNCHANGED <<exec, mail>>
  PROVE  SagaInv'
<1>1. StoredStays
  BY DEF StoredStays
<1>2. \A a \in Approvals : ExecutionOK(a)'
  BY DEF SagaInv, ExecutionOK
<1> QED BY <1>1, <1>2, SagaParts

(* A step of an invocation that goes nowhere it would rely on something.    *)
LEMMA SagaFree ==
  ASSUME SagaInv, WorkerTyped, NEW w \in Workers, ~At(w, "idle"), UNCHANGED <<exec, mail>>,
         \/ Return(w)
         \/ \E e \in Errors : Throw(w, e)
         \/ \E pc \in FreePCs : Goto(w, pc)
  PROVE  SagaInv'
<1>1. ASSUME Return(w) PROVE InvocationOK(w)' /\ Others(w)
  BY <1>1, ReturnsFreely
<1>2. ASSUME NEW e \in Errors, Throw(w, e) PROVE InvocationOK(w)' /\ Others(w)
  <2>1. "catch" \in FreePCs
    BY DEF FreePCs
  <2> QED BY <1>2, <2>1, ThrowMoves, MovedFreely
<1>3. ASSUME NEW pc \in FreePCs, Goto(w, pc) PROVE InvocationOK(w)' /\ Others(w)
  BY <1>3, GotoMoves, MovedFreely
<1>4. InvocationOK(w)' /\ Others(w)
  BY <1>1, <1>2, <1>3
<1> QED BY <1>4, SagaLocal

(* An update of one execution that keeps a stored preparation.              *)
LEMMA ExecutionStep ==
  ASSUME TypeOK, SagaInv, UNCHANGED mail, NEW a \in Approvals, NEW x \in Executions,
         exec' = [exec EXCEPT ![a] = x],
         Prepares(exec[a].prep) => x.prep = exec[a].prep,
         x.dispatch # "none" => Prepares(x.prep),
         x.dispatch = "provider_accepted" => mail[a],
         ~Settled(x.prep.expected)
  PROVE  StoredStays /\ \A b \in Approvals : ExecutionOK(b)'
<1>1. exec'[a] = x /\ \A b \in Approvals : b # a => exec'[b] = exec[b]
  BY DEF TypeOK
<1> QED BY <1>1 DEF StoredStays, SagaInv, ExecutionOK

(* ... of which the preparation and the dispatch stay.                      *)
LEMMA ClosingStep ==
  ASSUME TypeOK, SagaInv, UNCHANGED mail, NEW a \in Approvals, NEW x,
         UNCHANGED exec \/ (exec' = [exec EXCEPT ![a] = x] /\ SameMail(exec[a], x))
  PROVE  StoredStays /\ \A b \in Approvals : ExecutionOK(b)'
<1>1. ExecutionOK(a)
  BY DEF SagaInv
<1>2. CASE UNCHANGED exec
  BY <1>2 DEF StoredStays, SagaInv, ExecutionOK
<1>3. CASE exec' = [exec EXCEPT ![a] = x] /\ SameMail(exec[a], x)
  BY <1>1, <1>3, ExecutionStep DEF ExecutionOK, SameMail
<1> QED BY <1>2, <1>3

LEMMA FinishSaga ==
  ASSUME TypeOK, SagaInv, UNCHANGED mail, NEW a \in Approvals, NEW o \in {"succeeded", "failed"},
         Finish(a, o) \/ UNCHANGED exec
  PROVE  StoredStays /\ \A b \in Approvals : ExecutionOK(b)'
<1> DEFINE x == [exec[a] EXCEPT !.state = o]
<1>1. exec[a] \in Executions
  BY DEF TypeOK
<1>2. SameMail(exec[a], x)
  BY <1>1, ExecutionUpdates
<1>3. UNCHANGED exec \/ exec' = [exec EXCEPT ![a] = x]
  BY DEF Finish, TypeOK
<1> QED
  <2> HIDE DEF x
  <2> QED BY <1>2, <1>3, ClosingStep

-----------------------------------------------------------------------------
(***************************************************************************)
(* Each action keeps the inductive invariant.                              *)
(***************************************************************************)
LEMMA ApprovalSaga ==
  ASSUME SagaInv, UNCHANGED <<exec, mail, worker>>
  PROVE  SagaInv'
  BY DEF SagaInv, InvocationOK, ExecutionOK

LEMMA ClaimSaga ==
  ASSUME TypeOK, SagaInv, NEW w \in Workers, NEW a \in Approvals, NEW adm \in Admins,
         Claim(w, a, adm)
  PROVE  SagaInv'
<1> DEFINE x == [exec[a] EXCEPT !.state = "in_progress", !.owner = adm]
<1>1. exec[a] \in Executions /\ exec \in [Approvals -> Executions] /\ WorkerTyped
  BY DEF TypeOK, WorkerTyped
<1>2. SameMail(exec[a], x)
  BY <1>1, ExecutionUpdates
<1>3. UNCHANGED exec \/ exec' = [exec EXCEPT ![a] = x]
  BY <1>1 DEF Claim
<1>4. exec'[a].prep = exec[a].prep
  <2> HIDE DEF x
  <2> QED BY <1>1, <1>2, <1>3 DEF SameMail
<1>5. StoredStays /\ \A b \in Approvals : ExecutionOK(b)'
  <2> HIDE DEF x
  <2> QED BY <1>2, <1>3, ClosingStep DEF Claim
<1>6. /\ worker'[w].pc = IF Prepares(exec[a].prep) THEN "restore" ELSE "prepare"
      /\ worker'[w].appr = a
      /\ worker'[w].prep = exec[a].prep
      /\ Others(w)
  BY <1>1 DEF Claim, WorkerTyped, Idle, Others
<1>7. InvocationOK(w)'
  BY <1>4, <1>6 DEF InvocationOK, SagaInv, ExecutionOK
<1> QED BY <1>5, <1>6, <1>7, SagaParts

LEMMA ClaimRefusedSaga ==
  ASSUME TypeOK, SagaInv, NEW w \in Workers, NEW a \in Approvals, NEW adm \in Admins,
         ClaimRefused(w, a, adm)
  PROVE  SagaInv'
<1>1. /\ worker'[w].pc = "close_unprepared" /\ worker'[w].appr = a
      /\ worker'[w].prep = NoPreparation /\ Others(w)
  BY DEF ClaimRefused, TypeOK, Idle, Others
<1>2. ~Settled(NoPreparation.expected)
  BY DEF NoPreparation, UnpaidQuote, Settled
<1>3. InvocationOK(w)'
  BY <1>1, <1>2 DEF InvocationOK
<1> QED BY <1>1, <1>3, SagaLocal DEF ClaimRefused

LEMMA CloseUnpreparedSaga ==
  ASSUME TypeOK, SagaInv, NEW w \in Workers, CloseUnprepared(w)
  PROVE  SagaInv'
<1> DEFINE a == worker[w].appr
           x == [exec[a] EXCEPT !.state = "failed", !.owner = worker[w].admin]
<1>1. /\ WorkerTyped /\ a \in Approvals /\ exec[a] \in Executions
      /\ worker[w].admin \in Admins \cup {NoAdmin}
  BY RunningFacts DEF CloseUnprepared, At
<1>2. SameMail(exec[a], x)
  BY <1>1, ExecutionUpdates
<1>3. UNCHANGED exec \/ exec' = [exec EXCEPT ![a] = x]
  BY <1>1 DEF CloseUnprepared, TypeOK
<1>4. StoredStays /\ \A b \in Approvals : ExecutionOK(b)'
  <2> HIDE DEF x
  <2> QED BY <1>1, <1>2, <1>3, ClosingStep DEF CloseUnprepared
<1>5. InvocationOK(w)' /\ Others(w)
  BY <1>1, ReturnsFreely DEF CloseUnprepared
<1> QED BY <1>4, <1>5, SagaParts

LEMMA PrepareReuseSaga ==
  ASSUME TypeOK, SagaInv, NEW w \in Workers, PrepareReuse(w)
  PROVE  SagaInv'
<1> DEFINE q == worker[w].pay
<1>1. worker[w] \in Invocations /\ worker[w].appr \in Approvals
  BY RunningFacts DEF PrepareReuse, At
<1>2. /\ worker'[w].pc = "persist" /\ worker'[w].appr = worker[w].appr
      /\ worker'[w].prep = [session |-> q.session, gen |-> q.gen,
                            expected |-> q, reused |-> TRUE]
      /\ Others(w)
  <2> DEFINE p == [session |-> q.session, gen |-> q.gen, expected |-> q, reused |-> TRUE]
  <2>1. WorkerTyped /\ worker' = [worker EXCEPT ![w].pc = "persist", ![w].prep = p]
    BY RunningFacts DEF PrepareReuse
  <2> HIDE DEF p
  <2>2. /\ worker'[w].pc = "persist" /\ worker'[w].appr = worker[w].appr
        /\ worker'[w].prep = p /\ Others(w)
    BY <2>1, PreparesMoves
  <2> QED BY <2>2 DEF p
<1>3. q.session # NoSession /\ ~Settled(q)
  BY DEF PrepareReuse, PlanDepositCheckout
<1>4. InvocationOK(w)'
  BY <1>1, <1>2, <1>3 DEF InvocationOK, Prepares
<1> QED BY <1>2, <1>4, SagaLocal DEF PrepareReuse

LEMMA AdoptSaga ==
  ASSUME TypeOK, SagaInv, NEW w \in Workers, ~At(w, "idle"), NEW s \in Sessions, Adopt(w, s),
         UNCHANGED <<exec, mail>>
  PROVE  SagaInv'
<1> DEFINE q == worker[w].pay
           p == [session |-> s, gen |-> q.gen + 1, expected |-> q, reused |-> FALSE]
<1>1. worker[w] \in Invocations /\ worker[w].appr \in Approvals /\ WorkerTyped
  BY RunningFacts
<1>2. CASE PreparedSource(q)
  <2>1. /\ worker'[w].pc = "persist" /\ worker'[w].appr = worker[w].appr
        /\ worker'[w].prep = p /\ Others(w)
    <3>1. worker' = [worker EXCEPT ![w].pc = "persist", ![w].prep = p]
      BY <1>2 DEF Adopt
    <3> HIDE DEF p
    <3> QED BY <1>1, <3>1, PreparesMoves
  <2>2. p.session # NoSession /\ ~Settled(p.expected)
    BY <1>2, NoSessionAssumption DEF PreparedSource, Settled
  <2>3. InvocationOK(w)'
    BY <1>1, <2>1, <2>2 DEF InvocationOK, Prepares
  <2> QED BY <2>1, <2>3, SagaLocal
<1>3. CASE ~PreparedSource(q)
  BY <1>1, <1>3, Labels, SagaFree DEF Adopt
<1> QED BY <1>2, <1>3

LEMMA NewSessionSaga ==
  ASSUME TypeOK, SagaInv, NEW w \in Workers,
         CreateSession(w) \/ ReplaySession(w) \/ CreateSessionFails(w)
  PROVE  SagaInv'
<1>1. /\ NeedsNewSession(w) /\ ~At(w, "idle") /\ UNCHANGED <<exec, mail>>
      /\ WorkerTyped /\ worker[w].appr \in Approvals
  BY RunningFacts DEF CreateSession, ReplaySession, CreateSessionFails, NeedsNewSession, At
<1>2. ~Settled(worker[w].pay)
  BY <1>1 DEF NeedsNewSession, PlanDepositCheckout
<1>3. CASE Goto(w, "discard")
  <2>1. Moved(w, "discard")
    BY <1>1, <1>3, GotoMoves
  <2>2. InvocationOK(w)' /\ Others(w)
    BY <1>1, <1>2, <2>1 DEF Moved, InvocationOK, SagaInv
  <2> QED BY <1>1, <2>2, SagaLocal
<1>4. CASE Throw(w, "prep_ambiguous") \/ Throw(w, "definite")
  BY <1>1, <1>4, Labels, SagaFree
<1>5. CASE \E s \in Sessions : Adopt(w, s)
  BY <1>1, <1>5, AdoptSaga
<1> QED BY <1>3, <1>4, <1>5 DEF CreateSession, ReplaySession, CreateSessionFails, SameKey

LEMMA PersistSaga ==
  ASSUME TypeOK, SagaInv, NEW w \in Workers, Persist(w)
  PROVE  SagaInv'
<1> DEFINE a == worker[w].appr
           p == worker[w].prep
           x == [exec[a] EXCEPT !.prep = p]
<1>1. /\ WorkerTyped /\ worker[w] \in Invocations /\ p \in Preparations
      /\ a \in Approvals /\ exec[a] \in Executions
  BY RunningFacts DEF Persist, At
<1>2. Prepares(p) /\ ~Settled(p.expected)
  BY DEF SagaInv, InvocationOK, Persist, At
<1>3. CASE Prepares(exec[a].prep)
  <2>1. /\ worker'[w].pc = "restore" /\ worker'[w].appr = a
        /\ worker'[w].prep = exec[a].prep /\ Others(w)
    BY <1>1, <1>3, PreparesMoves, SMTT(30) DEF Persist
  <2>2. InvocationOK(w)'
    BY <1>1, <1>3, <2>1 DEF InvocationOK, SagaInv, ExecutionOK, Persist
  <2> QED BY <1>3, <2>1, <2>2, SagaLocal DEF Persist
<1>4. CASE ~Prepares(exec[a].prep)
  <2>1. exec' = [exec EXCEPT ![a] = x]
    BY <1>1, <1>4 DEF Persist, TypeOK
  <2>2. WithPreparation(exec[a], p, x)
    BY <1>1, ExecutionUpdates
  <2>3. exec'[a].prep = p
    <3> HIDE DEF x
    <3> QED BY <1>1, <2>1, <2>2 DEF TypeOK, WithPreparation
  <2>4. StoredStays /\ \A b \in Approvals : ExecutionOK(b)'
    <3>1. ExecutionOK(a) /\ UNCHANGED mail
      BY <1>1 DEF SagaInv, Persist
    <3> HIDE DEF x
    <3> QED BY <1>1, <1>2, <1>4, <2>1, <2>2, <3>1, ExecutionStep DEF ExecutionOK, WithPreparation
  <2>5. Moved(w, "restore")
    BY <1>1, <1>4, GotoMoves DEF Persist
  <2>6. InvocationOK(w)'
    BY <1>1, <1>2, <2>3, <2>5 DEF Moved, InvocationOK
  <2> QED BY <2>4, <2>5, <2>6, SagaParts DEF Moved
<1> QED BY <1>3, <1>4

(* The steps after which the invocation relies on nothing it read.          *)
LEMMA FreeSaga ==
  ASSUME TypeOK, SagaInv, NEW w \in Workers,
         \/ PrepareRefused(w) \/ DiscardCreated(w) \/ PersistFails(w)
         \/ CheckResolved(w) \/ Die(w)
  PROVE  SagaInv'
<1>1. WorkerTyped /\ ~At(w, "idle") /\ UNCHANGED <<exec, mail>>
  BY RunningFacts DEF PrepareRefused, DiscardCreated, PersistFails, CheckResolved, Die, At
<1>2. \/ Return(w)
      \/ Throw(w, "definite") \/ Throw(w, "network")
      \/ Throw(w, "prep_ambiguous") \/ Throw(w, "aborted")
      \/ Goto(w, "mark_failed")
  BY DEF PrepareRefused, DiscardCreated, PersistFails, CheckResolved, Die
<1>3. "mark_failed" \in FreePCs
  BY DEF FreePCs
<1> QED BY <1>1, <1>2, <1>3, Labels, SagaFree

LEMMA RestoreSaga ==
  ASSUME TypeOK, SagaInv, NEW w \in Workers, Restore(w)
  PROVE  SagaInv'
<1>1. WorkerTyped /\ ~At(w, "idle") /\ UNCHANGED <<exec, mail>>
  BY RunningFacts DEF Restore, At
<1>2. CASE Goto(w, "dispatch")
  <2>1. Moved(w, "dispatch")
    BY <1>1, <1>2, GotoMoves
  <2>2. InvocationOK(w)' /\ Others(w)
    BY <1>1, <2>1 DEF Moved, InvocationOK, SagaInv, Restore, At
  <2> QED BY <1>1, <2>2, SagaLocal
<1>3. CASE Throw(w, "expired") \/ Throw(w, "definite") \/ Throw(w, "network")
  BY <1>1, <1>3, Labels, SagaFree
<1> QED BY <1>2, <1>3 DEF Restore

LEMMA ClaimDispatchSaga ==
  ASSUME TypeOK, SagaInv, NEW w \in Workers, ClaimDispatch(w)
  PROVE  SagaInv'
<1> DEFINE a == worker[w].appr
           d == exec[a].dispatch
           x == [exec[a] EXCEPT !.dispatch = "sending", !.stale = FALSE]
<1>1. /\ WorkerTyped /\ ~At(w, "idle") /\ UNCHANGED mail
      /\ a \in Approvals /\ exec[a] \in Executions /\ d \in DispatchStates
  BY RunningFacts DEF ClaimDispatch, At
<1>2. Prepares(worker[w].prep) /\ worker[w].prep = exec[a].prep /\ ExecutionOK(a)
  BY <1>1 DEF SagaInv, InvocationOK, ClaimDispatch, At
<1>3. CASE ~InProgress(a) \/ d \in {"recovery_claimed", "definite_failure"}
  <2>1. UNCHANGED exec /\ (Throw(w, "definite") \/ Throw(w, "aborted"))
    <3>1. CASE ~InProgress(a)
      BY <3>1 DEF ClaimDispatch
    <3>2. CASE InProgress(a) /\ d = "recovery_claimed"
      BY <3>2 DEF ClaimDispatch, MayBeginAttempt
    <3>3. CASE InProgress(a) /\ d = "definite_failure"
      BY <3>3 DEF ClaimDispatch, MayBeginAttempt
    <3> QED BY <1>3, <3>1, <3>2, <3>3
  <2> QED BY <1>1, <2>1, Labels, SagaFree
<1>4. CASE InProgress(a) /\ d = "provider_accepted"
  <2>1. /\ worker' = [worker EXCEPT ![w].pc = "complete",
                         ![w].disp = "provider_accepted", ![w].accepted = TRUE]
        /\ UNCHANGED exec
    BY <1>4 DEF ClaimDispatch, MayBeginAttempt
  <2>2. Moved(w, "complete")
    BY <1>1, <2>1, OtherMoves
  <2>3. InvocationOK(w)' /\ Others(w)
    BY <1>1, <1>2, <2>1, <2>2 DEF Moved, InvocationOK, SagaInv
  <2> QED BY <1>1, <2>1, <2>3, SagaLocal
<1>5. CASE InProgress(a) /\ MayBeginAttempt(d)
  <2>1. /\ worker' = [worker EXCEPT ![w].pc = "send", ![w].disp = "sending"]
        /\ exec' = [exec EXCEPT ![a] = x]
    BY <1>1, <1>5 DEF ClaimDispatch, MayBeginAttempt, TypeOK
  <2>2. WithDispatch(exec[a], "sending", x)
    BY <1>1, Labels, ExecutionUpdates
  <2>3. exec'[a].prep = exec[a].prep
    <3> HIDE DEF x
    <3> QED BY <1>1, <2>1, <2>2 DEF TypeOK, WithDispatch
  <2>4. StoredStays /\ \A b \in Approvals : ExecutionOK(b)'
    <3> HIDE DEF x
    <3> QED BY <1>1, <1>2, <2>1, <2>2, ExecutionStep DEF ExecutionOK, WithDispatch
  <2>5. Moved(w, "send")
    BY <1>1, <2>1, OtherMoves
  <2>6. InvocationOK(w)'
    BY <1>1, <1>2, <2>3, <2>5 DEF Moved, InvocationOK, SagaInv
  <2> QED BY <2>4, <2>5, <2>6, SagaParts DEF Moved
<1> QED
  <2>1. d \in {"provider_accepted", "recovery_claimed", "definite_failure"}
          \/ MayBeginAttempt(d)
    BY <1>1 DEF DispatchStates, MayBeginAttempt
  <2> QED BY <1>3, <1>4, <1>5, <2>1

LEMMA SendSaga ==
  ASSUME TypeOK, SagaInv, NEW w \in Workers, Send(w)
  PROVE  SagaInv'
<1> DEFINE a == worker[w].appr
<1>1. WorkerTyped /\ ~At(w, "idle") /\ UNCHANGED exec /\ a \in Approvals
  BY RunningFacts DEF Send, At
<1>2. CASE UNCHANGED mail /\ (Throw(w, "mail_ambiguous") \/ Throw(w, "mail_rejected"))
  BY <1>1, <1>2, Labels, SagaFree
<1>3. CASE mail' = [mail EXCEPT ![a] = TRUE]
  <2>1. mail'[a] /\ StoredStays
    BY <1>1, <1>3 DEF TypeOK, StoredStays
  <2>2. \A b \in Approvals : ExecutionOK(b)'
    BY <1>1, <2>1 DEF SagaInv, ExecutionOK, StoredStays
  <2>3. ASSUME worker' = [worker EXCEPT ![w].pc = "record", ![w].accepted = TRUE]
        PROVE  InvocationOK(w)' /\ Others(w)
    <3>1. Moved(w, "record")
      BY <1>1, <2>3, OtherMoves
    <3> QED BY <1>1, <2>1, <3>1 DEF Moved, InvocationOK, SagaInv, Send, At
  <2>4. ASSUME Throw(w, "mail_ambiguous")
        PROVE  InvocationOK(w)' /\ Others(w)
    <3>1. Moved(w, "catch") /\ "catch" \in FreePCs
      BY <1>1, <2>4, ThrowMoves DEF FreePCs
    <3>2. Others(w)
      BY <3>1 DEF Moved
    <3> QED BY <1>1, <2>1, <3>1, <3>2 DEF Moved, InvocationOK, SagaInv
  <2>5. \/ worker' = [worker EXCEPT ![w].pc = "record", ![w].accepted = TRUE]
        \/ Throw(w, "mail_ambiguous") \/ (UNCHANGED mail /\ Throw(w, "mail_rejected"))
    BY DEF Send
  <2> QED BY <1>2, <2>1, <2>2, <2>3, <2>4, <2>5, SagaParts
<1> QED BY <1>2, <1>3 DEF Send

LEMMA RecordAcceptanceSaga ==
  ASSUME TypeOK, SagaInv, NEW w \in Workers, RecordAcceptance(w)
  PROVE  SagaInv'
<1> DEFINE a == worker[w].appr
           x == [exec[a] EXCEPT !.dispatch = "provider_accepted"]
<1>1. /\ WorkerTyped /\ ~At(w, "idle") /\ UNCHANGED mail
      /\ a \in Approvals /\ exec[a] \in Executions
  BY RunningFacts DEF RecordAcceptance, At
<1>2. /\ Prepares(worker[w].prep) /\ worker[w].prep = exec[a].prep /\ mail[a]
      /\ ExecutionOK(a)
  BY <1>1 DEF SagaInv, InvocationOK, RecordAcceptance, At
<1>3. CASE Throw(w, "definite") /\ UNCHANGED exec
  BY <1>1, <1>3, Labels, SagaFree
<1>4. CASE /\ worker' = [worker EXCEPT ![w].pc = "complete", ![w].disp = "provider_accepted"]
           /\ exec' = [exec EXCEPT ![a].dispatch = "provider_accepted"]
  <2>1. exec' = [exec EXCEPT ![a] = x]
    BY <1>4 DEF TypeOK
  <2>2. WithDispatch(exec[a], "provider_accepted", x)
    BY <1>1, Labels, ExecutionUpdates
  <2>3. exec'[a].prep = exec[a].prep
    <3> HIDE DEF x
    <3> QED BY <1>1, <2>1, <2>2 DEF TypeOK, WithDispatch
  <2>4. StoredStays /\ \A b \in Approvals : ExecutionOK(b)'
    <3> HIDE DEF x
    <3> QED BY <1>1, <1>2, <2>1, <2>2, ExecutionStep DEF ExecutionOK, WithDispatch
  <2>5. Moved(w, "complete")
    BY <1>1, <1>4, OtherMoves
  <2>6. InvocationOK(w)'
    BY <1>1, <1>2, <2>3, <2>5 DEF Moved, InvocationOK, SagaInv
  <2> QED BY <2>4, <2>5, <2>6, SagaParts DEF Moved
<1> QED BY <1>3, <1>4 DEF RecordAcceptance

(* The steps that close the execution and return.                           *)
LEMMA ClosingSaga ==
  ASSUME TypeOK, SagaInv, NEW w \in Workers,
         Complete(w) \/ CloseAccepted(w) \/ MarkFailed(w)
  PROVE  SagaInv'
<1> DEFINE a == worker[w].appr
<1>1. /\ WorkerTyped /\ a \in Approvals /\ UNCHANGED mail /\ Return(w)
  BY RunningFacts DEF Complete, CloseAccepted, MarkFailed, At
<1>2. Finish(a, "succeeded") \/ Finish(a, "failed") \/ UNCHANGED exec
  BY DEF Complete, CloseAccepted, MarkFailed
<1>3. StoredStays /\ \A b \in Approvals : ExecutionOK(b)'
  BY <1>1, <1>2, FinishSaga
<1>4. InvocationOK(w)' /\ Others(w)
  BY <1>1, ReturnsFreely
<1> QED BY <1>3, <1>4, SagaParts

LEMMA RecoverCloseSaga ==
  ASSUME TypeOK, SagaInv, NEW w \in Workers, RecoverClose(w)
  PROVE  SagaInv'
<1> DEFINE a == worker[w].appr
<1>1. /\ WorkerTyped /\ a \in Approvals /\ exec[a] \in Executions
      /\ UNCHANGED mail /\ Return(w)
  BY RunningFacts DEF RecoverClose, At
<1>2. PICK b \in BOOLEAN :
        UNCHANGED exec \/ exec' = [exec EXCEPT ![a] =
                                     [exec[a] EXCEPT !.state = "failed", !.review = b]]
  BY <1>1 DEF RecoverClose, TypeOK
<1> DEFINE x == [exec[a] EXCEPT !.state = "failed", !.review = b]
<1>3. SameMail(exec[a], x)
  BY <1>1, ExecutionUpdates
<1>4. StoredStays /\ \A c \in Approvals : ExecutionOK(c)'
  <2>1. UNCHANGED exec \/ exec' = [exec EXCEPT ![a] = x]
    BY <1>2
  <2> HIDE DEF x
  <2> QED BY <1>1, <1>3, <2>1, ClosingStep
<1>5. InvocationOK(w)' /\ Others(w)
  BY <1>1, ReturnsFreely
<1> QED BY <1>4, <1>5, SagaParts

(* A step that takes the invocation where the invariant asks pc's part of it. *)
LEMMA MovesOn ==
  ASSUME SagaInv, NEW w \in Workers, ~At(w, "idle"), NEW pc, Moved(w, pc),
         \/ pc \in FreePCs
         \/ pc \in {"claim_recovery", "recover_stripe", "recover_close"} /\ Prepares(worker[w].prep)
         \/ pc \in {"neutralize", "mark_expired", "advance"} /\ ~worker[w].prep.reused
  PROVE  InvocationOK(w)' /\ Others(w)
<1>1. worker[w].appr \in Approvals /\ ~Settled(worker[w].prep.expected)
  BY DEF SagaInv, InvocationOK, At
<1> QED BY <1>1 DEF Moved, InvocationOK, FreePCs

LEMMA CleanupMoves ==
  ASSUME TypeOK, SagaInv, NEW w \in Workers, ~At(w, "idle"), Proceed(w, CleanupPC(w))
  PROVE  InvocationOK(w)' /\ Others(w)
<1>1. WorkerTyped
  BY RunningFacts
<1>2. CASE CleanupPC(w) = "idle"
  BY <1>1, <1>2, ReturnsFreely DEF Proceed
<1>3. CASE CleanupPC(w) # "idle"
  <2>1. Moved(w, CleanupPC(w))
    BY <1>1, <1>3, GotoMoves DEF Proceed
  <2>2. CleanupPC(w) = "mark_failed" \/ (CleanupPC(w) = "neutralize" /\ ~worker[w].prep.reused)
    BY <1>3 DEF CleanupPC
  <2>3. CleanupPC(w) \in FreePCs \/ (CleanupPC(w) = "neutralize" /\ ~worker[w].prep.reused)
    BY <2>2 DEF FreePCs
  <2> QED BY <2>1, <2>3, MovesOn
<1> QED BY <1>2, <1>3

LEMMA CatchSaga ==
  ASSUME TypeOK, SagaInv, NEW w \in Workers, Catch(w)
  PROVE  SagaInv'
<1>1. WorkerTyped /\ ~At(w, "idle") /\ UNCHANGED <<exec, mail>>
  BY RunningFacts DEF Catch, At
<1>2. PICK readFails \in BOOLEAN :
        \/ Return(w)
        \/ worker' = [worker EXCEPT ![w] =
             IF RecoverableDispatch(w)
               THEN [[worker[w] EXCEPT !.uncertain = readFails] EXCEPT !.pc = "claim_recovery"]
             ELSE IF [worker[w] EXCEPT !.uncertain = readFails].disp # "none"
               THEN [[worker[w] EXCEPT !.uncertain = readFails] EXCEPT !.pc = "record_failure"]
             ELSE IF readFails \/ CleanupPC(w) = "idle" THEN Idle
             ELSE [[worker[w] EXCEPT !.uncertain = readFails] EXCEPT !.pc = CleanupPC(w)]]
  BY Zenon DEF Catch
<1> DEFINE To(pc) == worker' = [worker EXCEPT ![w] =
                                  [[worker[w] EXCEPT !.uncertain = readFails] EXCEPT !.pc = pc]]
<1>3. \/ Return(w)
      \/ RecoverableDispatch(w) /\ To("claim_recovery")
      \/ To("record_failure")
      \/ CleanupPC(w) # "idle" /\ To(CleanupPC(w))
  <2> DEFINE v == [worker[w] EXCEPT !.uncertain = readFails]
  <2> HIDE DEF v
  <2>1. \/ Return(w)
        \/ RecoverableDispatch(w)
           /\ worker' = [worker EXCEPT ![w] = [v EXCEPT !.pc = "claim_recovery"]]
        \/ worker' = [worker EXCEPT ![w] = [v EXCEPT !.pc = "record_failure"]]
        \/ /\ CleanupPC(w) # "idle"
           /\ worker' = [worker EXCEPT ![w] = [v EXCEPT !.pc = CleanupPC(w)]]
    BY <1>2 DEF Return, v
  <2> QED BY <2>1 DEF v
<1>4. ASSUME NEW pc, To(pc) PROVE Moved(w, pc)
  BY <1>1, <1>4, OtherMoves
<1>5. CASE Return(w)
  BY <1>1, <1>5, Labels, SagaFree
<1>6. CASE RecoverableDispatch(w) /\ To("claim_recovery")
  <2>1. InvocationOK(w)' /\ Others(w)
    BY <1>1, <1>4, <1>6, MovesOn DEF RecoverableDispatch
  <2> QED BY <1>1, <2>1, SagaLocal
<1>7. CASE To("record_failure")
  <2>1. InvocationOK(w)' /\ Others(w)
    BY <1>1, <1>4, <1>7, MovesOn DEF FreePCs
  <2> QED BY <1>1, <2>1, SagaLocal
<1>8. CASE CleanupPC(w) # "idle" /\ To(CleanupPC(w))
  <2>1. Moved(w, CleanupPC(w))
    BY <1>4, <1>8
  <2>2. CleanupPC(w) = "mark_failed" \/ (CleanupPC(w) = "neutralize" /\ ~worker[w].prep.reused)
    BY <1>8 DEF CleanupPC
  <2>3. CleanupPC(w) \in FreePCs \/ (CleanupPC(w) = "neutralize" /\ ~worker[w].prep.reused)
    BY <2>2 DEF FreePCs
  <2>4. InvocationOK(w)' /\ Others(w)
    BY <1>1, <2>1, <2>3, MovesOn
  <2> QED BY <1>1, <2>4, SagaLocal
<1> HIDE DEF To
<1> QED BY <1>3, <1>5, <1>6, <1>7, <1>8

LEMMA ClaimRecoverySaga ==
  ASSUME TypeOK, SagaInv, NEW w \in Workers, ClaimRecovery(w)
  PROVE  SagaInv'
<1> DEFINE a == worker[w].appr
           x == [exec[a] EXCEPT !.dispatch = "recovery_claimed"]
<1>1. /\ WorkerTyped /\ ~At(w, "idle") /\ UNCHANGED mail
      /\ a \in Approvals /\ exec[a] \in Executions
  BY RunningFacts DEF ClaimRecovery, At
<1>2. CASE Return(w) /\ UNCHANGED exec
  BY <1>1, <1>2, SagaFree
<1>3. CASE /\ worker' = [worker EXCEPT ![w].pc = "record_failure", ![w].disp = exec[a].dispatch]
           /\ UNCHANGED exec
  <2>1. Moved(w, "record_failure") /\ "record_failure" \in FreePCs
    BY <1>1, <1>3, OtherMoves DEF FreePCs
  <2>2. InvocationOK(w)' /\ Others(w)
    BY <1>1, <2>1, MovesOn
  <2> QED BY <1>1, <1>3, <2>2, SagaLocal
<1>4. CASE /\ worker' = [worker EXCEPT ![w].pc = "recover_stripe", ![w].disp = "recovery_claimed"]
           /\ exec' = [exec EXCEPT ![a].dispatch = "recovery_claimed"]
           /\ PlanExpiredPortalRecovery(exec[a].dispatch, exec[a].stale) = "recover"
  <2>1. exec' = [exec EXCEPT ![a] = x]
    BY <1>4 DEF TypeOK
  <2>2. WithDispatch(exec[a], "recovery_claimed", x)
    BY <1>1, Labels, ExecutionUpdates
  <2>3. ExecutionOK(a) /\ Prepares(exec[a].prep)
    <3>1. exec[a].dispatch # "none"
      BY <1>4 DEF PlanExpiredPortalRecovery
    <3> QED BY <1>1, <3>1 DEF SagaInv, ExecutionOK
  <2>4. StoredStays /\ \A b \in Approvals : ExecutionOK(b)'
    <3> HIDE DEF x
    <3> QED BY <1>1, <2>1, <2>2, <2>3, ExecutionStep DEF ExecutionOK, WithDispatch
  <2>5. Moved(w, "recover_stripe") /\ Prepares(worker[w].prep)
    BY <1>1, <1>4, OtherMoves DEF SagaInv, InvocationOK, ClaimRecovery, At
  <2>6. InvocationOK(w)' /\ Others(w)
    BY <1>1, <2>5, MovesOn
  <2> QED BY <2>4, <2>6, SagaParts
<1> QED BY <1>2, <1>3, <1>4 DEF ClaimRecovery

LEMMA RecoverStripeSaga ==
  ASSUME TypeOK, SagaInv, NEW w \in Workers, RecoverStripe(w)
  PROVE  SagaInv'
<1>1. /\ WorkerTyped /\ ~At(w, "idle") /\ UNCHANGED <<exec, mail>>
      /\ Prepares(worker[w].prep)
  BY RunningFacts DEF RecoverStripe, SagaInv, InvocationOK, At
<1>2. PICK o : worker' = [worker EXCEPT ![w].pc = "recover_close", ![w].obs = o]
  BY DEF RecoverStripe
<1>3. Moved(w, "recover_close")
  BY <1>1, <1>2, OtherMoves
<1>4. InvocationOK(w)' /\ Others(w)
  BY <1>1, <1>3, MovesOn
<1> QED BY <1>1, <1>4, SagaLocal

LEMMA RecordFailureSaga ==
  ASSUME TypeOK, SagaInv, NEW w \in Workers, RecordFailure(w)
  PROVE  SagaInv'
<1> DEFINE a == worker[w].appr
           n == DispatchAfterFailure(worker[w].err)
           x == [exec[a] EXCEPT !.dispatch = n]
<1>1. /\ WorkerTyped /\ ~At(w, "idle") /\ UNCHANGED mail
      /\ a \in Approvals /\ exec[a] \in Executions
  BY RunningFacts DEF RecordFailure, At
<1>2. InvocationOK(w)' /\ Others(w)
  <2>1. CASE Proceed(w, CleanupPC(w))
    BY <1>1, <2>1, CleanupMoves
  <2>2. CASE Return(w)
    BY <1>1, <2>2, ReturnsFreely
  <2>3. CASE Goto(w, "close_accepted")
    BY <1>1, <2>3, GotoMoves, MovesOn DEF FreePCs
  <2>4. Proceed(w, CleanupPC(w)) \/ Return(w) \/ Goto(w, "close_accepted")
    BY DEF RecordFailure, Proceed
  <2> QED BY <2>1, <2>2, <2>3, <2>4
<1>3. StoredStays /\ \A b \in Approvals : ExecutionOK(b)'
  <2>1. CASE UNCHANGED exec
    BY <1>1, <2>1 DEF StoredStays, SagaInv, ExecutionOK
  <2>2. CASE exec[a].dispatch = "sending" /\ exec' = [exec EXCEPT ![a].dispatch = n]
    <3>1. n \in DispatchStates /\ n # "provider_accepted"
      BY Labels DEF DispatchAfterFailure
    <3>2. WithDispatch(exec[a], n, x)
      <4> HIDE DEF n
      <4> QED BY <1>1, <3>1, ExecutionUpdates
    <3>3. exec' = [exec EXCEPT ![a] = x]
      BY <2>2 DEF TypeOK
    <3>4. ExecutionOK(a) /\ Prepares(exec[a].prep)
      BY <1>1, <2>2 DEF SagaInv, ExecutionOK
    <3> HIDE DEF x, n
    <3> QED BY <1>1, <3>1, <3>2, <3>3, <3>4, ExecutionStep DEF ExecutionOK, WithDispatch
  <2> QED BY <2>1, <2>2 DEF RecordFailure
<1> QED BY <1>2, <1>3, SagaParts

LEMMA CleanupSaga ==
  ASSUME TypeOK, SagaInv, NEW w \in Workers,
         Neutralize(w) \/ MarkExpired(w) \/ Advance(w)
  PROVE  SagaInv'
<1>1. /\ WorkerTyped /\ ~At(w, "idle") /\ UNCHANGED <<exec, mail>>
      /\ ~worker[w].prep.reused
  BY RunningFacts DEF Neutralize, MarkExpired, Advance, SagaInv, InvocationOK, At
<1>2. CASE Return(w)
  BY <1>1, <1>2, SagaFree
<1>3. CASE Goto(w, "mark_failed") \/ Goto(w, "check_resolved")
  <2>1. "mark_failed" \in FreePCs /\ "check_resolved" \in FreePCs
    BY DEF FreePCs
  <2> QED BY <1>1, <1>3, <2>1, SagaFree
<1>4. ASSUME NEW pc \in {"mark_expired", "advance"}, Goto(w, pc) PROVE SagaInv'
  <2>1. Moved(w, pc)
    BY <1>1, <1>4, GotoMoves
  <2>2. InvocationOK(w)' /\ Others(w)
    BY <1>1, <2>1, MovesOn
  <2> QED BY <1>1, <2>2, SagaLocal
<1> QED BY <1>2, <1>3, <1>4 DEF Neutralize, MarkExpired, Advance

LEMMA EnvironmentSaga ==
  ASSUME TypeOK, SagaInv, Environment
  PROVE  SagaInv'
<1>1. CASE UNCHANGED <<exec, mail, worker>>
  BY <1>1, ApprovalSaga
<1>2. ASSUME NEW a \in Approvals, DispatchGoesStale(a) PROVE SagaInv'
  <2> DEFINE x == [exec[a] EXCEPT !.stale = TRUE]
  <2>1. SameMail(exec[a], x)
    BY ExecutionUpdates DEF TypeOK
  <2>2. exec' = [exec EXCEPT ![a] = x] /\ UNCHANGED <<mail, worker>>
    BY <1>2 DEF DispatchGoesStale, TypeOK
  <2>3. StoredStays /\ \A b \in Approvals : ExecutionOK(b)'
    <3> HIDE DEF x
    <3> QED BY <2>1, <2>2, ClosingStep
  <2>4. ASSUME NEW v \in Workers PROVE InvocationOK(v)'
    <3>1. InvocationOK(v) /\ worker'[v] = worker[v] /\ mail' = mail
      BY <2>2 DEF SagaInv
    <3> QED BY <2>3, <3>1 DEF InvocationOK, StoredStays
  <2> QED BY <2>3, <2>4 DEF SagaInv
<1> QED BY <1>1, <1>2 DEF Environment, SessionTimesOut, CustomerPays, AsyncPaymentSettles,
                          PortalExpires

(* Every step of the saga and of its surroundings keeps the invariant.      *)
THEOREM SagaStep == TypeOK /\ SagaInv /\ [Next]_vars => SagaInv'
<1> SUFFICES ASSUME TypeOK, SagaInv, [Next]_vars PROVE SagaInv'
  OBVIOUS
<1>1. ASSUME NEW a \in Approvals, RequestApproval(a) \/ ResolveApproval(a) PROVE SagaInv'
  BY <1>1, ApprovalSaga DEF RequestApproval, ResolveApproval
<1>2. ASSUME NEW w \in Workers, NEW a \in Approvals, NEW adm \in Admins,
             Claim(w, a, adm) \/ ClaimRefused(w, a, adm)
      PROVE  SagaInv'
  BY <1>2, ClaimSaga, ClaimRefusedSaga
<1>3. ASSUME NEW w \in Workers, Step(w) PROVE SagaInv'
  BY <1>3, CloseUnpreparedSaga, PrepareReuseSaga, FreeSaga, NewSessionSaga, PersistSaga,
     RestoreSaga, ClaimDispatchSaga, SendSaga, RecordAcceptanceSaga, ClosingSaga,
     CatchSaga, ClaimRecoverySaga, RecoverStripeSaga, RecoverCloseSaga,
     RecordFailureSaga, CleanupSaga DEF Step
<1>4. ASSUME NEW w \in Workers, Die(w) PROVE SagaInv'
  BY <1>4, FreeSaga
<1>5. CASE Environment
  BY <1>5, EnvironmentSaga
<1>6. CASE UNCHANGED vars
  BY <1>6, ApprovalSaga DEF vars
<1> QED BY <1>1, <1>2, <1>3, <1>4, <1>5, <1>6 DEF Next

LEMMA InitSaga == Init => SagaInv
<1> SUFFICES ASSUME Init PROVE SagaInv
  OBVIOUS
<1>1. ~Settled(UnpaidQuote)
  BY DEF UnpaidQuote, Settled
<1>2. ASSUME NEW w \in Workers PROVE InvocationOK(w)
  BY <1>1 DEF Init, InvocationOK, Idle, NoPreparation
<1>3. ASSUME NEW a \in Approvals PROVE ExecutionOK(a)
  BY <1>1 DEF Init, ExecutionOK, NoExecution, NoPreparation
<1> QED BY <1>2, <1>3 DEF SagaInv

-----------------------------------------------------------------------------
(***************************************************************************)
(* Consequences of the invariant.                                          *)
(***************************************************************************)

LEMMA UnsettledForms ==
  ASSUME NEW s, NEW g
  PROVE  ~Settled(PreparedPayment(s, g)) /\ ~Settled(PublishedPayment(s, g))
  BY DEF Settled, PreparedPayment, PublishedPayment

(* A settled deposit is never prepared, published, patched or closed again. *)
LEMMA SettledStep ==
  ASSUME TypeOK, SagaInv, NEW w \in Workers, Step(w), Settled(payment)
  PROVE  payment' = payment
<1>1. CASE DiscardCreated(w)
  BY <1>1 DEF DiscardCreated, SagaInv, InvocationOK, At
<1>2. CASE Persist(w)
  BY <1>2 DEF Persist, ScopeDerivable
<1>3. CASE Complete(w)
  <2>1. ASSUME ~worker[w].prep.reused
        PROVE  ~Settled(PreparedOf(worker[w].prep)) /\ ~Settled(PublishedOf(worker[w].prep))
    BY <2>1, UnsettledForms DEF PreparedOf, PublishedOf
  <2> QED BY <1>3, <2>1 DEF Complete, MayComplete, PublicationAllowed
<1>4. CASE RecoverClose(w)
  BY <1>4 DEF RecoverClose, TransitionApplies
<1>5. CASE CloseAccepted(w)
  BY <1>5 DEF CloseAccepted
<1>6. CASE MarkExpired(w)
  <2>1. ~worker[w].prep.reused
    BY <1>6 DEF MarkExpired, SagaInv, InvocationOK, At
  <2>2. ~Settled(PreparedOf(worker[w].prep))
    BY <2>1 DEF PreparedOf, PreparedPayment, Settled
  <2> QED BY <1>6, <2>2 DEF MarkExpired
<1>7. CASE Advance(w)
  <2>1. ~Settled(worker[w].prep.expected)
    BY DEF SagaInv, InvocationOK
  <2> QED BY <1>7, <2>1 DEF Advance
<1> QED BY <1>1, <1>2, <1>3, <1>4, <1>5, <1>6, <1>7
        DEF Step, CloseUnprepared, PrepareReuse, PrepareRefused, CreateSession, ReplaySession,
            CreateSessionFails, PersistFails, Restore, ClaimDispatch, Send, RecordAcceptance,
            Catch, ClaimRecovery, RecoverStripe, RecordFailure, Neutralize, CheckResolved,
            MarkFailed

(* The saga never takes a settled deposit back (SettlementIsFinal).         *)
THEOREM SagaSettlement ==
  TypeOK /\ SagaInv /\ [Next]_vars => (Settled(payment) => payment' = payment)
<1> SUFFICES ASSUME TypeOK, SagaInv, [Next]_vars, Settled(payment) PROVE payment' = payment
  OBVIOUS
<1>1. ASSUME NEW w \in Workers, Step(w) PROVE payment' = payment
  BY <1>1, SettledStep
<1> QED BY <1>1 DEF Next, vars, RequestApproval, ResolveApproval, Claim, ClaimRefused, Die,
                    Environment, SessionTimesOut, CustomerPays, AsyncPaymentSettles,
                    PortalExpires, DispatchGoesStale

(* An accepted dispatch stays accepted.                                     *)
AcceptedStays ==
  \A a \in Approvals : exec[a].dispatch = "provider_accepted" =>
                         exec'[a].dispatch = "provider_accepted"

LEMMA AcceptedStep ==
  ASSUME TypeOK, SagaInv, NEW w \in Workers, Step(w)
  PROVE  AcceptedStays
<1> DEFINE a == worker[w].appr
<1>1. ASSUME NEW x, exec' = [exec EXCEPT ![a] = x],
             exec[a].dispatch = "provider_accepted" => x.dispatch = "provider_accepted"
      PROVE  AcceptedStays
  BY <1>1 DEF AcceptedStays, TypeOK
<1>2. CASE UNCHANGED exec
  BY <1>2 DEF AcceptedStays
<1>3. ~At(w, "idle") => exec[a] \in Executions /\ a \in Approvals
  BY RunningFacts
<1>4. ASSUME NEW st, Finish(a, st), ~At(w, "idle") PROVE AcceptedStays
  <2> DEFINE x == [exec[a] EXCEPT !.state = st]
  <2>1. exec' = [exec EXCEPT ![a] = x] /\ x.dispatch = exec[a].dispatch
    BY <1>3, <1>4 DEF Finish, TypeOK, Executions
  <2> HIDE DEF x
  <2> QED BY <2>1, <1>1
<1>5. CASE CloseUnprepared(w)
  <2> DEFINE x == [exec[a] EXCEPT !.state = "failed", !.owner = worker[w].admin]
  <2>1. ~At(w, "idle")
    BY <1>5 DEF CloseUnprepared, At
  <2>2. UNCHANGED exec \/ exec' = [exec EXCEPT ![a] = x]
    BY <1>5, ZenonT(40) DEF CloseUnprepared, TypeOK
  <2>3. x.dispatch = exec[a].dispatch
    BY <1>3, <2>1 DEF Executions
  <2> HIDE DEF x
  <2> QED BY <2>2, <2>3, <1>1, <1>2
<1>6. CASE Persist(w)
  <2> DEFINE x == [exec[a] EXCEPT !.prep = worker[w].prep]
  <2>1. ~At(w, "idle")
    BY <1>6 DEF Persist, At
  <2>2. UNCHANGED exec \/ exec' = [exec EXCEPT ![a] = x]
    BY <1>6 DEF Persist, TypeOK
  <2>3. x.dispatch = exec[a].dispatch
    BY <1>3, <2>1 DEF Executions
  <2> HIDE DEF x
  <2> QED BY <2>2, <2>3, <1>1, <1>2
<1>7. CASE ClaimDispatch(w)
  <2>1. exec[a].dispatch = "provider_accepted" => UNCHANGED exec
    BY <1>7 DEF ClaimDispatch, MayBeginAttempt
  <2>2. exec' = exec \/ exec' = [exec EXCEPT ![a].dispatch = "sending", ![a].stale = FALSE]
    <3>1. ~At(w, "idle")
      BY <1>7 DEF ClaimDispatch, At
    <3>2. exec[a].dispatch \in {"provider_accepted", "recovery_claimed", "definite_failure"}
            \/ MayBeginAttempt(exec[a].dispatch)
      BY <3>1, RunningFacts DEF DispatchStates, MayBeginAttempt
    <3> QED BY <1>7, <3>2 DEF ClaimDispatch, MayBeginAttempt
  <2>3. \A b \in Approvals : b # a => exec'[b] = exec[b]
    BY <2>2 DEF TypeOK
  <2> QED BY <2>1, <2>3 DEF AcceptedStays
<1>8. CASE RecordAcceptance(w)
  BY <1>8 DEF RecordAcceptance, AcceptedStays, TypeOK, Executions
<1>9. CASE ClaimRecovery(w)
  <2>1. exec[a].dispatch = "provider_accepted" => UNCHANGED exec
    BY <1>9 DEF ClaimRecovery, PlanExpiredPortalRecovery
  <2>2. \A b \in Approvals : b # a => exec'[b] = exec[b]
    BY <1>9 DEF ClaimRecovery, TypeOK
  <2> QED BY <2>1, <2>2 DEF AcceptedStays
<1>10. CASE RecoverClose(w)
  <2>1. exec[a].dispatch = "provider_accepted" => UNCHANGED exec
    BY <1>10 DEF RecoverClose
  <2>2. \A b \in Approvals : b # a => exec'[b] = exec[b]
    BY <1>10 DEF RecoverClose, TypeOK
  <2> QED BY <2>1, <2>2 DEF AcceptedStays
<1>11. CASE RecordFailure(w)
  <2>1. exec[a].dispatch = "provider_accepted" => UNCHANGED exec
    BY <1>11 DEF RecordFailure
  <2>2. \A b \in Approvals : b # a => exec'[b] = exec[b]
    BY <1>11 DEF RecordFailure, TypeOK
  <2> QED BY <2>1, <2>2 DEF AcceptedStays
<1>12. CASE Complete(w) \/ CloseAccepted(w) \/ MarkFailed(w)
  <2>1. ~At(w, "idle")
    BY <1>12 DEF Complete, CloseAccepted, MarkFailed, At
  <2> QED BY <1>2, <1>4, <1>12, <2>1 DEF Complete, CloseAccepted, MarkFailed
<1> QED BY <1>2, <1>5, <1>6, <1>7, <1>8, <1>9, <1>10, <1>11, <1>12
        DEF Step, PrepareReuse, PrepareRefused, CreateSession, ReplaySession,
            CreateSessionFails, DiscardCreated, PersistFails, Restore, Send,
            Catch, RecoverStripe, Neutralize, MarkExpired, Advance, CheckResolved

(* What the property needs of a step that does not publish.                 *)
LEMMA StillPublished ==
  ASSUME PublishedOnlyAfterAcceptance, SagaInv, StoredStays, AcceptedStays,
         payment'.link => payment.link /\ payment'.session = payment.session
  PROVE  PublishedOnlyAfterAcceptance'
<1> SUFFICES ASSUME payment'.link
             PROVE  \E a \in Approvals : /\ exec'[a].prep.session = payment'.session
                                         /\ exec'[a].dispatch = "provider_accepted"
                                         /\ mail'[a]
  BY DEF PublishedOnlyAfterAcceptance
<1>1. PICK a \in Approvals : /\ exec[a].prep.session = payment.session
                             /\ exec[a].dispatch = "provider_accepted"
                             /\ mail[a]
  BY DEF PublishedOnlyAfterAcceptance
<1>2. Prepares(exec[a].prep)
  BY <1>1 DEF SagaInv, ExecutionOK
<1> QED BY <1>1, <1>2 DEF StoredStays, AcceptedStays

LEMMA StoredStep ==
  ASSUME TypeOK, SagaInv, NEW w \in Workers, Step(w)
  PROVE  StoredStays
<1> DEFINE a == worker[w].appr
<1>1. ~At(w, "idle") => exec[a] \in Executions /\ a \in Approvals
  BY RunningFacts
<1>2. ASSUME NEW x, exec' = [exec EXCEPT ![a] = x], UNCHANGED mail,
             Prepares(exec[a].prep) => x.prep = exec[a].prep
      PROVE  StoredStays
  BY <1>2 DEF StoredStays, TypeOK
<1>3. CASE UNCHANGED <<exec, mail>>
  BY <1>3 DEF StoredStays
<1>4. CASE Send(w)
  BY <1>4 DEF Send, StoredStays, TypeOK
<1>5. CASE Persist(w)
  <2>1. ~At(w, "idle")
    BY <1>5 DEF Persist, At
  <2>2. UNCHANGED <<exec, mail>> \/ (~Prepares(exec[a].prep) /\ UNCHANGED mail
           /\ exec' = [exec EXCEPT ![a] = [exec[a] EXCEPT !.prep = worker[w].prep]])
    BY <1>5 DEF Persist, TypeOK
  <2> DEFINE x == [exec[a] EXCEPT !.prep = worker[w].prep]
  <2> HIDE DEF x
  <2> QED BY <1>2, <1>3, <2>2 DEF x
<1>6. CASE \/ CloseUnprepared(w) \/ ClaimDispatch(w) \/ RecordAcceptance(w) \/ Complete(w)
           \/ ClaimRecovery(w) \/ RecoverClose(w) \/ RecordFailure(w) \/ CloseAccepted(w)
           \/ MarkFailed(w)
  <2>1. ~At(w, "idle") /\ UNCHANGED mail
    BY <1>6 DEF CloseUnprepared, ClaimDispatch, RecordAcceptance, Complete, ClaimRecovery,
                RecoverClose, RecordFailure, CloseAccepted, MarkFailed, At
  <2>2. \E st, o, d, b, r :
          \/ exec' = exec
          \/ exec' = [exec EXCEPT ![a].state = st]
          \/ exec' = [exec EXCEPT ![a].state = st, ![a].owner = o]
          \/ exec' = [exec EXCEPT ![a].state = st, ![a].review = r]
          \/ exec' = [exec EXCEPT ![a].dispatch = d]
          \/ exec' = [exec EXCEPT ![a].dispatch = d, ![a].stale = b]
    <3>1. CASE ClaimDispatch(w)
      <4>1. exec[a].dispatch \in {"provider_accepted", "recovery_claimed", "definite_failure"}
              \/ MayBeginAttempt(exec[a].dispatch)
        BY <2>1, RunningFacts DEF DispatchStates, MayBeginAttempt
      <4> QED BY <3>1, <4>1 DEF ClaimDispatch, MayBeginAttempt
    <3>2. CASE CloseUnprepared(w)
      BY <3>2 DEF CloseUnprepared
    <3>3. CASE RecordAcceptance(w) \/ ClaimRecovery(w)
      BY <3>3 DEF RecordAcceptance, ClaimRecovery
    <3>4. CASE RecordFailure(w)
      BY <3>4 DEF RecordFailure
    <3>5. CASE RecoverClose(w)
      BY <3>5 DEF RecoverClose
    <3>6. CASE Complete(w) \/ CloseAccepted(w) \/ MarkFailed(w)
      BY <3>6 DEF Complete, CloseAccepted, MarkFailed, Finish
    <3> QED BY <1>6, <3>1, <3>2, <3>3, <3>4, <3>5, <3>6
  <2>3. \A b \in Approvals : exec'[b].prep = exec[b].prep
    BY <1>1, <2>1, <2>2, SMTT(30) DEF TypeOK, Executions
  <2> QED BY <2>1, <2>3 DEF StoredStays
<1> QED BY <1>3, <1>4, <1>5, <1>6
        DEF Step, PrepareReuse, PrepareRefused, CreateSession, ReplaySession,
            CreateSessionFails, DiscardCreated, PersistFails, Restore,
            Catch, RecoverStripe, Neutralize, MarkExpired, Advance, CheckResolved

LEMMA UnlinkedForms ==
  /\ \A s, g : ~PreparedPayment(s, g).link
  /\ \A p \in Payments : \A o : ~PatchedPayment(p, o).link
  BY DEF PreparedPayment, PatchedPayment, Payments

(* Only Complete shows a link.                                              *)
LinkKept == payment'.link => payment.link /\ payment'.session = payment.session

LEMMA LinkStep ==
  ASSUME TypeOK, SagaInv, NEW w \in Workers, Step(w), ~Complete(w)
  PROVE  LinkKept
<1>1. payment \in Payments
  BY DEF TypeOK
<1>2. CASE DiscardCreated(w)
  BY <1>1, <1>2 DEF DiscardCreated, Payments, LinkKept
<1>3. CASE Persist(w)
  <2>1. CASE UNCHANGED payment
    BY <2>1 DEF LinkKept
  <2>2. CASE payment' = PreparedOf(worker[w].prep) /\ PaymentAllowsPersist(worker[w].prep)
    <3>1. CASE worker[w].prep.reused
      BY <2>2, <3>1 DEF PreparedOf, PaymentAllowsPersist, LinkKept
    <3>2. CASE ~worker[w].prep.reused
      BY <2>2, <3>2, UnlinkedForms DEF PreparedOf, LinkKept
    <3> QED BY <3>1, <3>2
  <2> QED BY <1>3, <2>1, <2>2 DEF Persist
<1>4. CASE RecoverClose(w)
  BY <1>1, <1>4, UnlinkedForms DEF RecoverClose, LinkKept
<1>5. CASE CloseAccepted(w) \/ MarkExpired(w)
  BY <1>1, <1>5, UnlinkedForms DEF CloseAccepted, MarkExpired, ExpiredPayment, LinkKept
<1>6. CASE Advance(w)
  BY <1>1, <1>6 DEF Advance, Payments, LinkKept
<1>7. CASE UNCHANGED payment
  BY <1>7 DEF LinkKept
<1> QED BY <1>2, <1>3, <1>4, <1>5, <1>6, <1>7
        DEF Step, CloseUnprepared, PrepareReuse, PrepareRefused, CreateSession, ReplaySession,
            CreateSessionFails, PersistFails, Restore, ClaimDispatch, Send, RecordAcceptance,
            Catch, ClaimRecovery, RecoverStripe, RecordFailure, Neutralize, CheckResolved,
            MarkFailed

(* What Complete publishes is the stored preparation of an approval whose   *)
(* e-mail was accepted.                                                     *)
LEMMA CompletePublishes ==
  ASSUME TypeOK, SagaInv, PublishedOnlyAfterAcceptance, NEW w \in Workers, Complete(w)
  PROVE  PublishedOnlyAfterAcceptance'
<1> DEFINE a == worker[w].appr
           p == worker[w].prep
<1>1. Step(w)
  BY DEF Step
<1>2. StoredStays /\ AcceptedStays
  BY <1>1, StoredStep, AcceptedStep
<1>3. CASE UNCHANGED payment
  BY <1>2, <1>3, StillPublished
<1>4. CASE payment' = PublishedOf(p) /\ MayComplete(w) /\ ~p.reused
  <2>1. a \in Approvals /\ exec[a].dispatch = "provider_accepted" /\ p = exec[a].prep /\ Prepares(p)
    BY <1>4, RunningFacts DEF MayComplete, SagaInv, InvocationOK, Complete, At
  <2>2. mail[a] /\ exec'[a].prep = p /\ exec'[a].dispatch = "provider_accepted" /\ mail'[a]
    BY <1>2, <2>1 DEF SagaInv, ExecutionOK, StoredStays, AcceptedStays
  <2>3. PublishedOf(p).session = p.session
    BY <1>4 DEF PublishedOf, PublishedPayment, PreparedPayment
  <2> QED BY <1>4, <2>1, <2>2, <2>3 DEF PublishedOnlyAfterAcceptance
<1> QED BY <1>3, <1>4 DEF Complete

(* Every step of the saga keeps the published link covered.                 *)
THEOREM PublishedStep ==
  /\ TypeOK /\ SagaInv /\ PublishedOnlyAfterAcceptance /\ [Next]_vars
  => PublishedOnlyAfterAcceptance'
<1> SUFFICES ASSUME TypeOK, SagaInv, PublishedOnlyAfterAcceptance, [Next]_vars
             PROVE  PublishedOnlyAfterAcceptance'
  OBVIOUS
<1>1. ASSUME NEW w \in Workers, Step(w) PROVE PublishedOnlyAfterAcceptance'
  <2>1. CASE Complete(w)
    BY <2>1, CompletePublishes
  <2>2. CASE ~Complete(w)
    BY <1>1, <2>2, StoredStep, AcceptedStep, LinkStep, StillPublished DEF LinkKept
  <2> QED BY <2>1, <2>2
<1>2. ASSUME NEW w \in Workers, NEW a \in Approvals, NEW adm \in Admins, Claim(w, a, adm)
      PROVE  PublishedOnlyAfterAcceptance'
  <2> DEFINE x == [exec[a] EXCEPT !.state = "in_progress", !.owner = adm]
  <2>1. exec' = exec \/ exec' = [exec EXCEPT ![a] = x]
    BY <1>2 DEF Claim, TypeOK
  <2>2. SameMail(exec[a], x)
    BY ExecutionUpdates DEF TypeOK
  <2>3. \A b \in Approvals : exec'[b].prep = exec[b].prep /\ exec'[b].dispatch = exec[b].dispatch
    <3> HIDE DEF x
    <3> QED BY <2>1, <2>2 DEF TypeOK, SameMail
  <2> QED BY <1>2, <2>3 DEF Claim, PublishedOnlyAfterAcceptance
<1>3. ASSUME NEW a \in Approvals, DispatchGoesStale(a)
      PROVE  PublishedOnlyAfterAcceptance'
  <2> DEFINE x == [exec[a] EXCEPT !.stale = TRUE]
  <2>1. exec' = [exec EXCEPT ![a] = x]
    BY <1>3 DEF DispatchGoesStale, TypeOK
  <2>2. SameMail(exec[a], x)
    BY ExecutionUpdates DEF TypeOK
  <2>3. \A b \in Approvals : exec'[b].prep = exec[b].prep /\ exec'[b].dispatch = exec[b].dispatch
    <3> HIDE DEF x
    <3> QED BY <2>1, <2>2 DEF TypeOK, SameMail
  <2> QED BY <1>3, <2>3 DEF DispatchGoesStale, PublishedOnlyAfterAcceptance
<1>4. CASE UNCHANGED <<payment, exec, mail>>
  BY <1>4 DEF PublishedOnlyAfterAcceptance
<1> QED BY <1>1, <1>2, <1>3, <1>4
        DEF Next, vars, RequestApproval, ResolveApproval, ClaimRefused, Die, Environment,
            SessionTimesOut, CustomerPays, AsyncPaymentSettles, PortalExpires

LEMMA InitPublished == Init => PublishedOnlyAfterAcceptance
<1>1. UnpaidQuote.link = FALSE
  BY DEF UnpaidQuote
<1> QED BY <1>1 DEF Init, PublishedOnlyAfterAcceptance

-----------------------------------------------------------------------------
(***************************************************************************)
(* The theorems of the saga alone.                                         *)
(***************************************************************************)

(* However many invocations overlap and wherever they die, the variables    *)
(* keep their types, the saga its invariant, and a link is only published   *)
(* after its e-mail was accepted.                                           *)
THEOREM SagaSafety == Spec => [](TypeOK /\ SagaInv /\ PublishedOnlyAfterAcceptance)
<1>1. Init => TypeOK /\ SagaInv /\ PublishedOnlyAfterAcceptance
  BY InitType, InitSaga, InitPublished
<1>2. /\ TypeOK /\ SagaInv /\ PublishedOnlyAfterAcceptance /\ [Next]_vars
      => (TypeOK /\ SagaInv /\ PublishedOnlyAfterAcceptance)'
  BY TypeStep, SagaStep, PublishedStep
<1> QED BY <1>1, <1>2, PTL DEF Spec

=============================================================================
