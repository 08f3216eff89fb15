-------------------------- MODULE RevenueAutopilot --------------------------
(***************************************************************************)
(* The jobs of the revenue autopilot (functions/revenueAutopilot.js and    *)
(* its callers in index.js): a job is one reminder e-mail of a quote.  The *)
(* schedule materializes, stops and dispatches jobs; staff prepare and     *)
(* stop them and reconcile those whose outcome is unknown; Resend's signed *)
(* webhook records what became of the e-mail.                              *)
(*                                                                         *)
(* Abstractions.  One customer.  Everything the gates and the evidence     *)
(* say of a job is one value of authority, apart from the suppression that *)
(* the webhook itself records.  An attempt id is the ordinal of its claim, *)
(* a message id the ordinal of the e-mail.  Clocks (due dates, retry       *)
(* delays, quiet hours, leases) may pass at any time.  A run of the        *)
(* schedule is one visit to one job at a time.                             *)
(***************************************************************************)
EXTENDS Naturals

CONSTANTS Jobs,         \* occurrences of reminders
          Runs,         \* invocations of the schedule; Pub/Sub may deliver one twice
          Requests,     \* request ids of staff reconciliations
          NoOne,        \* no job, no request
          MaxAttempts,  \* maxAttempts of the tenant's policy
          MaxMails      \* bound on the e-mails of a job

ASSUME NoOneAssumption == NoOne \notin Jobs \cup Requests
ASSUME LimitsAssumption == MaxAttempts \in Nat \ {0} /\ MaxMails \in Nat \ {0}

VARIABLES
  job,         \* the private record of each job
  claims,      \* how many attempt ids each job has been given
  authority,   \* what gates, quote and stop evidence say at the moment
  suppressed,  \* the recipient's controls hold a bounce or a complaint
  run,         \* what each invocation of the schedule does next
  request,     \* what each reconciliation does next
  receipt,     \* its receipt
  mail,        \* how many e-mails Resend has taken for each job
  remembered,  \* the jobs whose idempotency key Resend remembers
  indexed,     \* the provider-message index: <<job, message>>
  handled      \* the provider events recorded: <<job, message, type>>

provider == <<mail, remembered>>
staffVars == <<request, receipt>>
vars == <<job, claims, authority, suppressed, run, request, receipt, mail, remembered,
          indexed, handled>>

Unsent == {"scheduled", "retry_wait"}
Unresolved == {"sending", "outcome_ambiguous"}
EventTypes == {"delivered", "bounced", "complained"}
Accepted == {"provider_accepted"} \cup EventTypes
Terminal == {"stopped", "definite_failure"} \cup EventTypes
JobStates == {"none"} \cup Unsent \cup Unresolved \cup Accepted \cup Terminal

Authorities == {"clear", "blocked", "stopped", "inactive"}

NoJob == [state |-> "none", attempt |-> 0, count |-> 0, message |-> 0,
          stamped |-> FALSE, claim |-> NoOne]

Idle == [pc |-> "idle", job |-> NoOne, seen |-> NoJob, result |-> "none", message |-> 0]

NoRequest == [pc |-> "idle", job |-> NoOne, seen |-> NoJob, message |-> 0]

Init ==
  /\ job = [j \in Jobs |-> NoJob]
  /\ claims = [j \in Jobs |-> 0]
  /\ authority = "clear"
  /\ suppressed = FALSE
  /\ run = [r \in Runs |-> Idle]
  /\ request = [q \in Requests |-> NoRequest]
  /\ receipt = [q \in Requests |-> "none"]
  /\ mail = [j \in Jobs |-> 0]
  /\ remembered = {}
  /\ indexed = {}
  /\ handled = {}

-----------------------------------------------------------------------------
(* The environment: views, decisions, payments, consent, gates, expiry of   *)
(* the portal; Resend forgets a key after a day.                            *)

AuthorityChanges ==
  /\ authority' \in Authorities \ {authority}
  /\ UNCHANGED <<job, claims, suppressed, run, staffVars, provider, indexed, handled>>

KeyForgotten(j) ==
  /\ j \in remembered /\ mail[j] < MaxMails
  /\ remembered' = remembered \ {j}
  /\ UNCHANGED <<job, claims, authority, suppressed, run, staffVars, mail, indexed, handled>>

\* What a recipient or the quote makes of every further e-mail.
StopEvidence == authority = "stopped" \/ suppressed

-----------------------------------------------------------------------------
(* Materialization, by staff in one transaction, by the schedule from what  *)
(* it read before.                                                          *)

Create(j) ==
  /\ job[j].state = "none" /\ authority \in {"clear", "blocked"} /\ ~suppressed
  /\ job' = [job EXCEPT ![j].state = "scheduled"]
  /\ UNCHANGED <<claims, authority, suppressed, run, staffVars, provider, indexed, handled>>

\* revenueAutopilotStopUpdate for the record seen, merged into the current one.
StopMerged(seen, current) ==
  IF seen.state \in {"none"} \cup Terminal THEN current
  ELSE IF seen.state \in Unsent THEN [current EXCEPT !.state = "stopped"]
  ELSE [current EXCEPT !.stamped = TRUE]

StaffStops(j) ==
  /\ StopEvidence \/ authority = "inactive"
  /\ job' = [job EXCEPT ![j] = StopMerged(@, @)]
  /\ UNCHANGED <<claims, authority, suppressed, run, staffVars, provider, indexed, handled>>

RunReads(r, j, pc) ==
  /\ run[r].pc = "idle" /\ job[j].state # "none"
  /\ run' = [run EXCEPT ![r] = [Idle EXCEPT !.pc = pc, !.job = j, !.seen = job[j]]]
  /\ UNCHANGED <<job, claims, authority, suppressed, staffVars, provider, indexed, handled>>

RunReturns(r) == run' = [run EXCEPT ![r] = Idle]

ScheduleStops(r) ==
  LET j == run[r].job
  IN  /\ \/ run[r].pc = "materialize" /\ StopEvidence
         \/ run[r].pc \in {"materialize", "decide"} /\ authority = "inactive"
      /\ job' = [job EXCEPT ![j] = StopMerged(run[r].seen, @)]
      /\ RunReturns(r)
      /\ UNCHANGED <<claims, authority, suppressed, staffVars, provider, indexed, handled>>

-----------------------------------------------------------------------------
(* dispatchRevenueAutopilotJob, after it read the job.                      *)

\* A stop writes back the whole record it read; an occurrence that was never
\* attempted and is past its day is stopped too.
DispatchStops(r) ==
  LET j == run[r].job
      seen == run[r].seen
  IN  /\ run[r].pc = "decide" /\ authority # "inactive" /\ seen.state \in Unsent
      /\ StopEvidence \/ (authority = "clear" /\ seen.count = 0)
      /\ job' = [job EXCEPT ![j] = [seen EXCEPT !.state = "stopped"]]
      /\ RunReturns(r)
      /\ UNCHANGED <<claims, authority, suppressed, staffVars, provider, indexed, handled>>

\* Nothing to do, not due, blocked, in quiet hours, or a lease that ran out:
\* to see whether the plan changed the record both are serialized, which throws
\* for the Timestamps of a stored record, so that nothing is written.
DispatchPasses(r) ==
  /\ \/ run[r].pc = "materialize" /\ ~StopEvidence /\ authority # "inactive"
     \/ run[r].pc = "decide" /\ authority # "inactive"
        /\ ~(run[r].seen.state \in Unsent /\ StopEvidence)
  /\ RunReturns(r)
  /\ UNCHANGED <<job, claims, authority, suppressed, staffVars, provider, indexed, handled>>

\* Mutant of Claimable: the job of another invocation is taken over.
ClaimableOver(record) == record.state \in Unsent \cup {"sending"} /\ record.count < MaxAttempts

\* claimRevenueAutopilotJob, of the record read in the transaction.
Claimable(record) == record.state \in Unsent /\ record.count < MaxAttempts

\* Mutant of Counted: a retry is no attempt of its own.
CountedOnce(count) == 1

Counted(count) == count + 1

DispatchClaims(r) ==
  LET j == run[r].job
      claimed == [job[j] EXCEPT !.state = "sending", !.attempt = claims[j] + 1,
                                !.count = Counted(@)]
  IN  /\ run[r].pc = "decide" /\ run[r].seen.state \in Unsent
      /\ authority = "clear" /\ ~suppressed /\ Claimable(job[j])
      /\ job' = [job EXCEPT ![j] = claimed]
      /\ claims' = [claims EXCEPT ![j] = @ + 1]
      /\ run' = [run EXCEPT ![r].pc = "recheck", ![r].seen = claimed]
      /\ UNCHANGED <<authority, suppressed, staffVars, provider, indexed, handled>>

\* The second look: a stop writes the claimed record back as stopped.
RecheckStops(r) ==
  LET j == run[r].job
  IN  /\ run[r].pc = "recheck" /\ StopEvidence
      /\ job' = [job EXCEPT ![j] = [run[r].seen EXCEPT !.state = "stopped"]]
      /\ RunReturns(r)
      /\ UNCHANGED <<claims, authority, suppressed, staffVars, provider, indexed, handled>>

\* Blocked, out of lease, or the read fails.
RecheckFails(r) ==
  /\ run[r].pc = "recheck"
  /\ \E result \in {"rejected", "unknown"} :
       run' = [run EXCEPT ![r].pc = "record", ![r].result = result]
  /\ UNCHANGED <<job, claims, authority, suppressed, staffVars, provider, indexed, handled>>

\* The expiry of the portal is not looked at a second time.
RecheckClears(r) ==
  /\ run[r].pc = "recheck" /\ ~StopEvidence /\ authority # "blocked"
  /\ run' = [run EXCEPT ![r].pc = "send"]
  /\ UNCHANGED <<job, claims, authority, suppressed, staffVars, provider, indexed, handled>>

-----------------------------------------------------------------------------
(* Resend: a key it remembers is answered with the e-mail it took.          *)

MailAfter(j) == IF j \in remembered THEN mail[j] ELSE mail[j] + 1

ResendTakes(j) ==
  /\ mail' = [mail EXCEPT ![j] = MailAfter(j)]
  /\ remembered' = remembered \cup {j}

DispatchSends(r) ==
  LET j == run[r].job
  IN  /\ run[r].pc = "send"
      /\ \/ /\ ResendTakes(j)
            /\ \E result \in {"accepted", "unknown"} :
                 run' = [run EXCEPT ![r].pc = "record", ![r].result = result,
                                    ![r].message = MailAfter(j)]
         \/ /\ \E result \in {"rejected", "unknown"} :
                 run' = [run EXCEPT ![r].pc = "record", ![r].result = result]
            /\ UNCHANGED provider
      /\ UNCHANGED <<job, claims, authority, suppressed, staffVars, indexed, handled>>

-----------------------------------------------------------------------------
(* What the invocation records of its attempt.                              *)

\* Mutant of Owns: only the attempt is compared.
OwnsAttempt(r) == job[run[r].job].attempt = run[r].seen.attempt

Owns(r) == /\ job[run[r].job].attempt = run[r].seen.attempt
           /\ job[run[r].job].state = "sending"

RecordAcceptance(r) ==
  LET j == run[r].job
  IN  /\ run[r].pc = "record" /\ run[r].result = "accepted" /\ Owns(r)
      /\ job' = [job EXCEPT ![j] = [run[r].seen EXCEPT !.state = "provider_accepted",
                                                      !.message = run[r].message]]
      /\ indexed' = indexed \cup {<<j, run[r].message>>}
      /\ RunReturns(r)
      /\ UNCHANGED <<claims, authority, suppressed, staffVars, provider, handled>>

\* Mutant of FailureStates: the record is given the result for a state.
FailureNamesResult(r) == {run[r].result}

\* planRevenueAutopilotDispatchFailure; a retry that would fall on the next day
\* is not planned.  An acceptance that could not be recorded ends here too.
FailureStates(r) ==
  IF run[r].result = "rejected" THEN {"definite_failure"}
  ELSE {"outcome_ambiguous"} \cup (IF run[r].seen.count < MaxAttempts THEN {"retry_wait"} ELSE {})

RecordFailure(r) ==
  LET j == run[r].job
  IN  /\ run[r].pc = "record" /\ Owns(r)
      /\ \E state \in FailureStates(r) :
           job' = [job EXCEPT ![j] = [run[r].seen EXCEPT !.state = state]]
      /\ RunReturns(r)
      /\ UNCHANGED <<claims, authority, suppressed, staffVars, provider, indexed, handled>>

\* The record is no longer this attempt's, or the invocation is killed.
RunEnds(r) ==
  /\ run[r].pc # "idle"
  /\ RunReturns(r)
  /\ UNCHANGED <<job, claims, authority, suppressed, staffVars, provider, indexed, handled>>

-----------------------------------------------------------------------------
(* reconcileRevenueAutopilotJob.                                            *)

\* The claim of another request stands for two minutes, which may have passed.
ReconcileClaims(q, j) ==
  /\ request[q].pc = "idle" /\ receipt[q] = "none" /\ job[j].state = "outcome_ambiguous"
  /\ request' = [request EXCEPT ![q] = [pc |-> "recheck", job |-> j, seen |-> job[j],
                                        message |-> 0]]
  /\ job' = [job EXCEPT ![j].claim = q]
  /\ UNCHANGED <<claims, authority, suppressed, run, receipt, provider, indexed, handled>>

RequestReturns(q) == request' = [request EXCEPT ![q] = NoRequest]

ReconcileRechecks(q) ==
  /\ request[q].pc = "recheck"
  /\ request' = [request EXCEPT ![q].pc =
                   IF authority = "clear" /\ ~suppressed THEN "send" ELSE "withhold"]
  /\ UNCHANGED <<job, claims, authority, suppressed, run, receipt, provider, indexed, handled>>

\* The evidence cannot be read: the claim is given back.
ReconcileReleases(q) ==
  LET j == request[q].job
  IN  /\ request[q].pc = "recheck"
      /\ job' = IF job[j].claim = q THEN [job EXCEPT ![j].claim = NoOne] ELSE job
      /\ RequestReturns(q)
      /\ UNCHANGED <<claims, authority, suppressed, run, receipt, provider, indexed, handled>>

Holds(q) == /\ job[request[q].job].claim = q
            /\ job[request[q].job].state = "outcome_ambiguous"

ReconcileWithholds(q) ==
  LET j == request[q].job
  IN  /\ request[q].pc = "withhold" /\ Holds(q)
      /\ job' = [job EXCEPT ![j] = [request[q].seen EXCEPT !.stamped = TRUE, !.claim = NoOne]]
      /\ receipt' = [receipt EXCEPT ![q] = "withheld"]
      /\ RequestReturns(q)
      /\ UNCHANGED <<claims, authority, suppressed, run, provider, indexed, handled>>

ReconcileSends(q) ==
  /\ request[q].pc = "send"
  /\ ResendTakes(request[q].job)
  /\ request' = [request EXCEPT ![q].pc = "complete", ![q].message = MailAfter(request[q].job)]
  /\ UNCHANGED <<job, claims, authority, suppressed, run, receipt, indexed, handled>>

ReconcileCompletes(q) ==
  LET j == request[q].job
      m == request[q].message
  IN  /\ request[q].pc = "complete" /\ Holds(q)
      /\ job' = [job EXCEPT ![j] = [request[q].seen EXCEPT !.state = "provider_accepted",
                                      !.message = m, !.claim = NoOne]]
      /\ indexed' = indexed \cup {<<j, m>>}
      /\ receipt' = [receipt EXCEPT ![q] = "accepted"]
      /\ RequestReturns(q)
      /\ UNCHANGED <<claims, authority, suppressed, run, provider, handled>>

\* Refused, rejected by Resend, killed or its answer lost.
RequestEnds(q) ==
  /\ request[q].pc # "idle"
  /\ RequestReturns(q)
  /\ UNCHANGED <<job, claims, authority, suppressed, run, receipt, provider, indexed, handled>>

-----------------------------------------------------------------------------
(* revenueAutopilotResendWebhook.  An event of a message that is not in the *)
(* index is answered as received and lost; one whose job holds another      *)
(* message, or no acceptance, is refused and delivered again.               *)

\* recordRevenueAutopilotProviderEvent
Evidenced(state, type) == IF state \in {"bounced", "complained"} THEN state ELSE type

\* Mutant of Suppresses: a bounce does not suppress the recipient.
SuppressesComplaints(state) == state = "complained"

Suppresses(state) == state \in {"bounced", "complained"}

WebhookRecords(j, m, type) ==
  /\ m \in 1 .. mail[j] /\ <<j, m>> \in indexed /\ <<j, m, type>> \notin handled
  /\ job[j].message = m /\ job[j].state \in Accepted
  /\ job' = [job EXCEPT ![j].state = Evidenced(@, type)]
  /\ suppressed' = (suppressed \/ Suppresses(Evidenced(job[j].state, type)))
  /\ handled' = handled \cup {<<j, m, type>>}
  /\ UNCHANGED <<claims, authority, run, staffVars, provider, indexed>>

-----------------------------------------------------------------------------
RunStep(r) ==
  \/ \E j \in Jobs, pc \in {"materialize", "decide"} : RunReads(r, j, pc)
  \/ ScheduleStops(r) \/ DispatchStops(r) \/ DispatchPasses(r) \/ DispatchClaims(r)
  \/ RecheckStops(r) \/ RecheckFails(r) \/ RecheckClears(r) \/ DispatchSends(r)
  \/ RecordAcceptance(r) \/ RecordFailure(r) \/ RunEnds(r)

RequestStep(q) ==
  \/ \E j \in Jobs : ReconcileClaims(q, j)
  \/ ReconcileRechecks(q) \/ ReconcileReleases(q) \/ ReconcileWithholds(q)
  \/ ReconcileSends(q) \/ ReconcileCompletes(q) \/ RequestEnds(q)

Next ==
  \/ AuthorityChanges
  \/ \E j \in Jobs :
       \/ KeyForgotten(j) \/ Create(j) \/ StaffStops(j)
       \/ \E m \in 1 .. MaxMails, type \in EventTypes : WebhookRecords(j, m, type)
  \/ \E r \in Runs : RunStep(r)
  \/ \E q \in Requests : RequestStep(q)

Spec == Init /\ [][Next]_vars

\* An invocation goes on until it ends or is killed; the cursor of the schedule
\* comes to every job, and a visit gets as far as its decision, again and again.
DispatchDecides(r, j) ==
  run[r].job = j /\ (ScheduleStops(r) \/ DispatchStops(r) \/ DispatchPasses(r) \/ DispatchClaims(r))

FairSpec ==
  /\ Spec
  /\ \A r \in Runs : WF_vars(RunStep(r))
  /\ \A r \in Runs, j \in Jobs : /\ SF_vars(RunReads(r, j, "decide"))
                                 /\ SF_vars(DispatchDecides(r, j))

-----------------------------------------------------------------------------
(* Properties.                                                              *)

JobRecords == [state : JobStates, attempt : Nat, count : 0 .. MaxAttempts, message : Nat,
               stamped : BOOLEAN, claim : Requests \cup {NoOne}]

\* Types of the records, the provider and the invocations.
TypeOK ==
  /\ job \in [Jobs -> JobRecords]
  /\ claims \in [Jobs -> Nat]
  /\ authority \in Authorities
  /\ suppressed \in BOOLEAN
  /\ run \in [Runs -> [pc : {"idle", "materialize", "decide", "recheck", "send", "record"},
                       job : Jobs \cup {NoOne}, seen : JobRecords,
                       result : {"none", "accepted", "rejected", "unknown"}, message : Nat]]
  /\ request \in [Requests -> [pc : {"idle", "recheck", "withhold", "send", "complete"},
                               job : Jobs \cup {NoOne}, seen : JobRecords, message : Nat]]
  /\ receipt \in [Requests -> {"none", "withheld", "accepted"}]
  /\ mail \in [Jobs -> Nat]
  /\ remembered \subseteq Jobs
  /\ indexed \subseteq Jobs \X Nat
  /\ handled \subseteq Jobs \X Nat \X EventTypes

\* The invocations that may still send the e-mail of a job or record its outcome.
Sender(r) == run[r].pc \in {"recheck", "send", "record"}

\* However invocations of the schedule overlap and die, a job has one sender, and
\* no staff reconciliation talks to Resend beside it.
OneSender ==
  \A r \in Runs : Sender(r) =>
    /\ \A t \in Runs \ {r} : Sender(t) => run[t].job # run[r].job
    /\ \A q \in Requests : request[q].pc # "idle" => request[q].job # run[r].job

\* The tenant's limit bounds the attempts a job really gets, whatever stale
\* record a stop writes back (revenueAutopilot.js:2385-2410).
AttemptsAreBounded == \A j \in Jobs : claims[j] <= MaxAttempts

\* What a record says of its e-mail is proved: an acceptance names an e-mail that
\* Resend took and that its events can find; a delivery, a bounce or a complaint
\* was reported; and a bounce or complaint has suppressed the recipient.
EvidenceIsProved ==
  \A j \in Jobs : job[j].state \in Accepted =>
    /\ job[j].message \in 1 .. mail[j]
    /\ <<j, job[j].message>> \in indexed
    /\ job[j].state \in EventTypes => <<j, job[j].message, job[j].state>> \in handled
    /\ job[j].state \in {"bounced", "complained"} => suppressed

\* A job that has ended is never opened again by a late answer, a stale write
\* or an event, and a bounce or complaint never becomes a delivery.
EndedIsFinal ==
  [][\A j \in Jobs : /\ job[j].state \in Terminal => job'[j].state \in Terminal
                     /\ job[j].state \in {"bounced", "complained"}
                          => job'[j].state \in {job[j].state, "stopped"}]_vars

\* An expired send lease becomes an ambiguous outcome that staff can reconcile
\* (docs/REVENUE_AUTOPILOT_DESIGN.md:374).
LeaseEnds == \A j \in Jobs : job[j].state = "sending" ~> job[j].state # "sending"

=============================================================================
