------------------------------ MODULE OwnerSms ------------------------------
(***************************************************************************)
(* Text messages to the owner of an organization (functions/index.js over  *)
(* the planners of functions/ownerSmsAttempts.js), with Pingram as the     *)
(* provider.  An alert is written to an outbox; a trigger reserves an      *)
(* attempt for it, a second trigger dispatches the attempt under a lease,  *)
(* signed webhooks report its fate, and a scheduled reconciler picks up    *)
(* what any of them left behind.  An administrator may send a diagnostic,  *)
(* whose signed delivery is what permits alerts.                           *)
(*                                                                         *)
(* Abstractions.  One organization; a notification is its attempt and the  *)
(* tracking id of its message.  Every handler runs with the configuration  *)
(* of its own deployment, old or new, so each picks one: the generation,   *)
(* and the phone number that the payload digest covers.  Bodies, receipts  *)
(* of consent events, the limit of three diagnostics an hour and the       *)
(* collision of two tracking ids are left out.                             *)
(* "Stale" is ten minutes; nothing here depends on how long that is.       *)
(***************************************************************************)
EXTENDS Naturals, FiniteSets

CONSTANTS Alerts,       \* notifications that quotes and payments cause
          Diagnostics,  \* test messages administrators request
          Workers,      \* invocations of the triggers and the reconciler
          Generations,  \* configuration generations
          Phones,       \* numbers of the owner
          NoOne,        \* the empty id
          MaxTime       \* bound on the reservation times

Notifications == Alerts \cup Diagnostics

Configs == [gen : Generations, phone : Phones]

ASSUME NotificationsAssumption == Alerts \cap Diagnostics = {}
ASSUME NoOneAssumption == NoOne \notin Notifications \cup Workers \cup Configs \cup Phones
ASSUME TimeAssumption == MaxTime \in Nat

VARIABLES
  outbox,      \* the outbox command of an alert
  attempt,     \* the attempt of a notification
  summary,     \* the organization's state document: the latest attempt
  testLock,    \* the diagnostic the test lock names
  suppressed,  \* the hold on all messages
  ready,       \* the configuration proved by a diagnostic
  bound,       \* the tracking ids with a provider binding
  receipt,     \* webhook receipts
  sms,         \* how many messages the provider took for a notification
  worker       \* what each invocation remembers

vars == <<outbox, attempt, summary, testLock, suppressed, ready, bound, receipt,
          sms, worker>>

AttemptStates == {"none", "queued", "dispatching", "provider_accepted", "definite_failure",
                  "uncertain", "delivered", "failed"}

OutboxStates == {"none", "pending", "reserving", "attempt_reserved", "not_queued"}

ReceiptStates == {"none", "received", "pending_binding", "processed",
                  "requires_operator_review", "requires_review_conflicting_events"}

Outcomes == {"", "queued", "refused", "accepted", "rejected", "indeterminate"}

Fates == {"delivered", "failed"}

Attempts == [state : AttemptStates, phone : Phones \cup {NoOne},
             config : Configs \cup {NoOne}, lease : Workers \cup {NoOne},
             tracked : BOOLEAN, reserved : Nat]

Memories == [pc : {"idle", "reserve", "close", "send", "finish"},
             item : Notifications \cup {NoOne}, config : Configs \cup {NoOne},
             result : Outcomes, tracked : BOOLEAN]

NoAttempt == [state |-> "none", phone |-> NoOne, config |-> NoOne, lease |-> NoOne,
              tracked |-> FALSE, reserved |-> 0]

Idle == [pc |-> "idle", item |-> NoOne, config |-> NoOne, result |-> "", tracked |-> FALSE]

Init ==
  /\ outbox = [a \in Alerts |-> [state |-> "none", lease |-> NoOne]]
  /\ attempt = [n \in Notifications |-> NoAttempt]
  /\ summary = [of |-> NoOne, state |-> "none"]
  /\ testLock = NoOne
  /\ suppressed = FALSE
  /\ ready = NoOne
  /\ bound = {}
  /\ receipt = [n \in Notifications |-> [f \in Fates |-> "none"]]
  /\ sms = [n \in Notifications |-> 0]
  /\ worker = [w \in Workers |-> Idle]

-----------------------------------------------------------------------------
(* Helpers.                                                                 *)

Exists(n) == attempt[n].state # "none"

\* isOwnerSmsUnresolvedState
Unresolved(n) ==
  attempt[n].state \in {"queued", "dispatching", "provider_accepted", "uncertain"}

\* Mutant of Replaces: a later state of the same attempt does not count.
ReplacesWhenNewer(n, reserved) ==
  summary.of = NoOne \/ reserved > attempt[summary.of].reserved

\* shouldReplaceOwnerSmsOrganizationState
Replaces(n, reserved) ==
  \/ summary.of \in {NoOne, n}
  \/ reserved > attempt[summary.of].reserved

\* An attempt is written with the documents that follow it: the state of the
\* organization and, for a diagnostic, the test lock.
WriteAttempt(n, a) ==
  /\ attempt' = [attempt EXCEPT ![n] = a]
  /\ summary' = IF Replaces(n, a.reserved) THEN [of |-> n, state |-> a.state] ELSE summary
  /\ testLock' = IF n \in Diagnostics THEN n ELSE testLock

\* queueOwnerSmsAttempt creates a reservation.  Its time is read before the
\* transaction, so reservations may commit in another order.
Reserve(n, c) ==
  \E t \in 1..MaxTime :
    /\ \A m \in Notifications : attempt[m].reserved # t
    /\ WriteAttempt(n, [NoAttempt EXCEPT !.state = "queued", !.phone = c.phone,
                                         !.reserved = t])

Proved(c) == ready # NoOne /\ ready.gen = c.gen

\* The claim compares the digest of the configuration too.
ProvedExactly(c) == ready = c

-----------------------------------------------------------------------------
(* The outbox of alerts.                                                    *)

SetOutbox(a, state, lease) ==
  outbox' = [outbox EXCEPT ![a] = [state |-> state, lease |-> lease]]

WriteAlert(a) ==
  /\ outbox[a].state = "none"
  /\ SetOutbox(a, "pending", NoOne)
  /\ UNCHANGED <<attempt, summary, testLock, suppressed, ready, bound, receipt, sms,
                 worker>>

ClaimOutbox(w, a, c) ==
  /\ worker[w].pc = "idle" /\ outbox[a].state = "pending"
  /\ SetOutbox(a, "reserving", w)
  /\ worker' = [worker EXCEPT ![w] = [Idle EXCEPT !.pc = "reserve", !.item = a, !.config = c]]
  /\ UNCHANGED <<attempt, summary, testLock, suppressed, ready, bound, receipt, sms>>

\* queueOwnerSmsAttempt for an alert: a new attempt, the one that is there
\* with the same payload, or a refusal.
ReserveAlert(w) ==
  LET n == worker[w].item
      c == worker[w].config
      Answer(result) == worker' = [worker EXCEPT ![w].pc = "close", ![w].result = result]
  IN  /\ worker[w].pc = "reserve"
      /\ \/ /\ ~Exists(n) /\ ~suppressed /\ Proved(c)
            /\ Reserve(n, c)
            /\ Answer("queued")
         \/ /\ IF Exists(n) THEN attempt[n].state # "queued" \/ attempt[n].phone # c.phone
                            ELSE suppressed \/ ~Proved(c)
            /\ Answer("refused")
            /\ UNCHANGED <<attempt, summary, testLock>>
         \/ /\ Exists(n) /\ attempt[n].state = "queued" /\ attempt[n].phone = c.phone
            /\ Answer("queued")
            /\ UNCHANGED <<attempt, summary, testLock>>
      /\ UNCHANGED <<outbox, suppressed, ready, bound, receipt, sms>>

Holds(w, a) == outbox[a] = [state |-> "reserving", lease |-> w]

\* finalizeOwnerSmsOutbox
CloseOutbox(w) ==
  LET a == worker[w].item
  IN  /\ worker[w].pc = "close"
      /\ IF Holds(w, a)
           THEN SetOutbox(a, IF worker[w].result = "queued" THEN "attempt_reserved"
                                                            ELSE "not_queued", NoOne)
           ELSE UNCHANGED outbox
      /\ worker' = [worker EXCEPT ![w] = Idle]
      /\ UNCHANGED <<attempt, summary, testLock, suppressed, ready, bound, receipt, sms>>

\* Mutant of RecoverOutbox: a reservation left behind is not opened again.
RecoverOutboxIfReserved(a) ==
  /\ outbox[a].state = "reserving" /\ Exists(a)
  /\ SetOutbox(a, "attempt_reserved", NoOne)
  /\ UNCHANGED <<attempt, summary, testLock, suppressed, ready, bound, receipt, sms,
                 worker>>

\* Mutant of RecoverOutbox: the command gets a state of its attempt.
RecoverOutboxAsQueued(a) ==
  /\ outbox[a].state = "reserving"
  /\ SetOutbox(a, IF Exists(a) THEN "queued" ELSE "pending", NoOne)
  /\ UNCHANGED <<attempt, summary, testLock, suppressed, ready, bound, receipt, sms,
                 worker>>

\* recoverStaleOwnerSmsOutboxReservation
RecoverOutbox(a) ==
  /\ outbox[a].state = "reserving"
  /\ SetOutbox(a, IF Exists(a) THEN "attempt_reserved" ELSE "pending", NoOne)
  /\ UNCHANGED <<attempt, summary, testLock, suppressed, ready, bound, receipt, sms,
                 worker>>

-----------------------------------------------------------------------------
(* Diagnostics.                                                             *)

\* sendIntegrationTestSms: refused while the diagnostic of the lock is open.
SendTest(d, c) ==
  /\ ~Exists(d) /\ ~suppressed
  /\ testLock # NoOne => ~Unresolved(testLock)
  /\ Reserve(d, c)
  /\ UNCHANGED <<outbox, suppressed, ready, bound, receipt, sms, worker>>

-----------------------------------------------------------------------------
(* The dispatch.                                                            *)

\* claimOwnerSmsAttempt finds that the message must not leave.
Forbidden(n, c) ==
  attempt[n].phone # c.phone \/ suppressed \/ (n \in Alerts /\ ~ProvedExactly(c))

\* recordOwnerSmsPreflightFailure: the worker's configuration is unusable,
\* the reconciler finds the attempt stale, or the claim forbids it.
PreflightFails(n) ==
  /\ attempt[n].state = "queued"
  /\ WriteAttempt(n, [attempt[n] EXCEPT !.state = "definite_failure"])
  /\ UNCHANGED <<outbox, suppressed, ready, bound, receipt, sms, worker>>

\* Mutant of Claimable: a lease that was left behind is taken over.
ClaimableAgain(n) == attempt[n].state \in {"queued", "dispatching"}

Claimable(n) == attempt[n].state = "queued"

ClaimAttempt(w, n, c) ==
  /\ worker[w].pc = "idle" /\ Claimable(n) /\ ~Forbidden(n, c)
  /\ WriteAttempt(n, [attempt[n] EXCEPT !.state = "dispatching", !.config = c, !.lease = w])
  /\ worker' = [worker EXCEPT ![w] = [Idle EXCEPT !.pc = "send", !.item = n, !.config = c]]
  /\ UNCHANGED <<outbox, suppressed, ready, bound, receipt, sms>>

\* Pingram has no idempotency key: every request it takes is a message.  An
\* answer that settles nothing may still carry the tracking id.
Send(w) ==
  LET n == worker[w].item
      Answer(result, tracked) ==
        worker' = [worker EXCEPT ![w].pc = "finish", ![w].result = result,
                                 ![w].tracked = tracked]
  IN  /\ worker[w].pc = "send"
      /\ \/ /\ \/ Answer("accepted", TRUE)
               \/ \E tracked \in BOOLEAN : Answer("indeterminate", tracked)
            /\ sms' = [sms EXCEPT ![n] = @ + 1]
         \/ /\ \/ Answer("rejected", FALSE)
               \/ \E tracked \in BOOLEAN : Answer("indeterminate", tracked)
            /\ UNCHANGED sms
      /\ UNCHANGED <<outbox, attempt, summary, testLock, suppressed, ready, bound,
                     receipt>>

OutcomeState(result) ==
  CASE result = "accepted" -> "provider_accepted"
    [] result = "rejected" -> "definite_failure"
    [] OTHER               -> "uncertain"

\* finalizeOwnerSmsDispatch, by the worker of the lease or by the reconciler.
Finalize(n, lease, result, tracked) ==
  IF attempt[n].state = "dispatching" /\ attempt[n].lease = lease
    THEN /\ WriteAttempt(n, [attempt[n] EXCEPT !.state = OutcomeState(result),
                                               !.tracked = tracked])
         /\ bound' = IF tracked THEN bound \cup {n} ELSE bound
    ELSE UNCHANGED <<attempt, summary, testLock, bound>>

Finish(w) ==
  /\ worker[w].pc = "finish"
  /\ Finalize(worker[w].item, w, worker[w].result, worker[w].tracked)
  /\ worker' = [worker EXCEPT ![w] = Idle]
  /\ UNCHANGED <<outbox, suppressed, ready, receipt, sms>>

\* The reconciler gives a stale dispatch up.
RecoverDispatch(n) ==
  /\ attempt[n].state = "dispatching"
  /\ Finalize(n, attempt[n].lease, "indeterminate", attempt[n].tracked)
  /\ UNCHANGED <<outbox, suppressed, ready, receipt, sms, worker>>

Die(w) ==
  /\ worker[w].pc # "idle"
  /\ worker' = [worker EXCEPT ![w] = Idle]
  /\ UNCHANGED <<outbox, attempt, summary, testLock, suppressed, ready, bound, receipt,
                 sms>>

-----------------------------------------------------------------------------
(* Signed webhooks.                                                         *)

Other(fate) == CHOOSE f \in Fates : f # fate

Conflict(n) ==
  /\ receipt' = [receipt EXCEPT ![n] = [f \in Fates |-> "requires_review_conflicting_events"]]
  /\ suppressed' = TRUE

\* pingramSmsWebhook for a message the provider took.
Report(n, fate) ==
  /\ sms[n] > 0
  /\ IF receipt[n][Other(fate)] # "none"
       THEN Conflict(n)
       ELSE /\ receipt[n][fate] = "none"
            /\ receipt' = [receipt EXCEPT ![n][fate] = "received"]
            /\ UNCHANGED suppressed
  /\ UNCHANGED <<outbox, attempt, summary, testLock, ready, bound, sms, worker>>

\* A signed STOP or unsubscribe, in any of its deliveries.
OptOut ==
  /\ suppressed' = TRUE
  /\ UNCHANGED <<outbox, attempt, summary, testLock, ready, bound, receipt, sms, worker>>

SetReceipt(n, fate, state) == receipt' = [receipt EXCEPT ![n][fate] = state]

\* planOwnerSmsOutcome takes the evidence for this attempt.
TakesEvidence(n) ==
  attempt[n].state = "provider_accepted" \/ (attempt[n].state = "uncertain" /\ attempt[n].tracked)

\* Mutant of Proof: any delivery proves the configuration of today.
ProofOfToday(n, c) == c

\* The configuration a delivered diagnostic proves is the one it was sent with.
Proof(n, c) == attempt[n].config

Process(n, fate, c) ==
  /\ receipt[n][fate] \in {"received", "pending_binding"}
  /\ \/ /\ n \notin bound
        /\ SetReceipt(n, fate, "pending_binding")
        /\ UNCHANGED <<attempt, summary, testLock, ready>>
     \/ /\ n \in bound /\ ~TakesEvidence(n)
        /\ SetReceipt(n, fate, "requires_operator_review")
        /\ UNCHANGED <<attempt, summary, testLock, ready>>
     \/ /\ n \in bound /\ TakesEvidence(n)
        /\ SetReceipt(n, fate, "processed")
        /\ WriteAttempt(n, [attempt[n] EXCEPT !.state = fate])
        /\ ready' = IF n \in Diagnostics /\ fate = "delivered" /\ c.gen = attempt[n].config.gen
                    THEN Proof(n, c) ELSE ready
  /\ UNCHANGED <<outbox, suppressed, bound, sms, worker>>

-----------------------------------------------------------------------------
ProcessSome(n, fate) == \E c \in Configs : Process(n, fate, c)

WorkerStep(w) == ReserveAlert(w) \/ CloseOutbox(w) \/ Send(w) \/ Finish(w) \/ Die(w)

Next ==
  \/ \E a \in Alerts : WriteAlert(a) \/ RecoverOutbox(a)
  \/ \E w \in Workers, c \in Configs :
       \/ \E a \in Alerts : ClaimOutbox(w, a, c)
       \/ \E n \in Notifications : ClaimAttempt(w, n, c)
  \/ \E w \in Workers : WorkerStep(w)
  \/ \E d \in Diagnostics, c \in Configs : SendTest(d, c)
  \/ \E n \in Notifications : PreflightFails(n) \/ RecoverDispatch(n)
  \/ \E n \in Notifications, f \in Fates : Report(n, f) \/ ProcessSome(n, f)
  \/ OptOut

Spec == Init /\ [][Next]_vars

\* The reconciler runs every 15 minutes and an invocation ends.  Not every
\* invocation that holds the reservation of an outbox command is killed or
\* overtaken by the ten minutes.
Reconciled ==
  /\ \A w \in Workers : WF_vars(WorkerStep(w))
  /\ \A a \in Alerts :
       /\ WF_vars(RecoverOutbox(a))
       /\ SF_vars(\E w \in Workers, c \in Configs : ClaimOutbox(w, a, c))
       /\ SF_vars(\E w \in Workers : Holds(w, a) /\ ReserveAlert(w))
       /\ SF_vars(\E w \in Workers : Holds(w, a) /\ CloseOutbox(w))

FairSpec == Spec /\ Reconciled

-----------------------------------------------------------------------------
(* Properties.                                                              *)

\* Types of the documents, the provider and what the invocations remember.
TypeOK ==
  /\ outbox \in [Alerts -> [state : OutboxStates, lease : Workers \cup {NoOne}]]
  /\ attempt \in [Notifications -> Attempts]
  /\ summary \in [of : Notifications \cup {NoOne}, state : AttemptStates]
  /\ testLock \in Diagnostics \cup {NoOne}
  /\ suppressed \in BOOLEAN
  /\ ready \in Configs \cup {NoOne}
  /\ bound \subseteq Notifications
  /\ receipt \in [Notifications -> [Fates -> ReceiptStates]]
  /\ sms \in [Notifications -> Nat]
  /\ worker \in [Workers -> Memories]

\* An alert leaves only with a configuration - generation and number - that
\* the signed delivery of a diagnostic proved, whichever deployments run side
\* by side (docs/USER_MANUAL.md:2363).
AlertsAreProved ==
  \A a \in Alerts :
    sms[a] > 0 =>
      \E d \in Diagnostics : /\ attempt[d].state = "delivered" /\ sms[d] > 0
                             /\ attempt[d].config = attempt[a].config

\* No two diagnostics are open at once, although the lock document only
\* follows the attempts (docs/USER_MANUAL.md:2365).
OneOpenDiagnostic ==
  \A d, e \in Diagnostics : Unresolved(d) /\ Unresolved(e) => d = e

\* The state document of the organization shows the latest reservation and
\* what became of it, in whatever order attempts change.
SummaryIsLatest ==
  LET existing == {n \in Notifications : Exists(n)}
  IN  IF existing = {} THEN summary.of = NoOne
      ELSE /\ summary.of \in existing
           /\ summary.state = attempt[summary.of].state
           /\ \A n \in existing : attempt[n].reserved <= attempt[summary.of].reserved

\* The record of a dispatch as DispatchOnce sees it.
Phase(n) ==
  CASE attempt[n].state = "none"             -> "none"
    [] attempt[n].state = "queued"           -> "waiting"
    [] attempt[n].state = "dispatching"      -> "claimed"
    [] attempt[n].state = "definite_failure" -> "failed"
    [] attempt[n].state = "uncertain"        -> "unknown"
    [] OTHER                                 -> "accepted"

Dispatch == INSTANCE DispatchOnce
              WITH Items <- Notifications, sent <- sms,
                   phase <- [n \in Notifications |-> Phase(n)]

\* Overlapping triggers, deaths, recoveries and late answers keep the promise
\* of a dispatch: at most one message, and every recorded outcome is true.
DispatchesOnce == Dispatch!Spec

\* An alert that was written is reserved or refused in the end, although
\* invocations are killed while they hold its outbox command.
OutboxSettles ==
  \A a \in Alerts :
    outbox[a].state = "pending" ~> outbox[a].state \in {"attempt_reserved", "not_queued"}

=============================================================================
