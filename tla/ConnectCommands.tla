--------------------------- MODULE ConnectCommands ---------------------------
(***************************************************************************)
(* The Stripe Connect control plane (functions-connect): the edge reserves *)
(* the onboarding of an organization and freezes immutable commands;       *)
(* executions claim a command under a lease, check it against the          *)
(* organization and the owner's authority, call Stripe, commit the         *)
(* outcome and write one terminal receipt.                                 *)
(*                                                                         *)
(* Abstractions.  One organization, so one command creates its account and *)
(* any number refresh its status.  A projection of authority stands for    *)
(* its payload digest; the owner never changes (the repository refuses     *)
(* that), so a command that has the digest has the owner and his e-mail.   *)
(* Digests that are functions of a command are left out, as are rate       *)
(* limits and the accounts of other organizations.  Clocks are steps of    *)
(* the environment: a lease, a projection and the recovery window end      *)
(* whenever they like.                                                     *)
(***************************************************************************)
EXTENDS Naturals

CONSTANTS Creation,      \* the command that creates the account
          Refreshes,     \* commands that refresh its status
          Executions,    \* invocations of the worker
          Leases,        \* lease ids: a redelivered task keeps its own
          NoOne,         \* no command, no lease
          MaxAttempts,   \* leases granted for a command
          MaxAuthority,  \* bound on the revisions of authority
          MaxVersion     \* bound on the changes of the account at Stripe

Commands == Refreshes \cup {Creation}

ASSUME CommandsAssumption == Creation \notin Refreshes
ASSUME NoOneAssumption == NoOne \notin Commands \cup Leases
ASSUME BoundsAssumption ==
  MaxAttempts \in Nat \ {0} /\ MaxAuthority \in Nat /\ MaxVersion \in Nat

VARIABLES
  authority,  \* the current projection of the owner's authority
  org,        \* the organization's Connect record
  command,    \* what each command froze
  lease,      \* the lease of each command: no owner once it ended
  receipt,    \* the terminal receipt of each command
  claim,      \* the binding document of the provider account
  stripe,     \* the accounts and the memory of the provider
  exec        \* what each execution remembers

vars == <<authority, org, command, lease, receipt, claim, stripe, exec>>

States == {"not_started", "provisioning", "onboarding", "security_review", "observed"}

Receipts == {"none", "succeeded", "quarantined", "dead_lettered"}

\* Why an operation is quarantined: the codes of the errors, and the reason
\* the onboarding's own commit gives.
Reasons == {"failed_precondition", "permission_denied", "authority_changed"}

Orgs == [revision : Nat, state : States, reserved : Nat, lapsed : BOOLEAN, bound : BOOLEAN,
         quarantine : [of : Commands \cup {NoOne}, reason : Reasons \cup {""}],
         applied : Refreshes \cup {NoOne}, seen : Nat]

Memories == [pc : {"idle", "start", "read", "authorize", "call", "commit", "apply",
                   "confirm", "quarantine", "complete"},
             cmd : Commands \cup {NoOne}, lease : Leases \cup {NoOne},
             reason : Reasons \cup {""}, evidence : BOOLEAN, seen : Nat,
             result : Receipts]

Idle == [pc |-> "idle", cmd |-> NoOne, lease |-> NoOne, reason |-> "", evidence |-> FALSE,
         seen |-> 0, result |-> "none"]

Init ==
  /\ authority = [rev |-> 0, fresh |-> FALSE]
  /\ org = [revision |-> 0, state |-> "not_started", reserved |-> 0, lapsed |-> FALSE,
            bound |-> FALSE, quarantine |-> [of |-> NoOne, reason |-> ""],
            applied |-> NoOne, seen |-> 0]
  /\ command = [c \in Commands |-> [revision |-> 0, authority |-> 0]]
  /\ lease = [c \in Commands |-> [owner |-> NoOne, attempt |-> 0]]
  /\ receipt = [c \in Commands |-> "none"]
  /\ claim = "none"
  /\ stripe = [accounts |-> 0, remembers |-> FALSE, version |-> 0]
  /\ exec = [e \in Executions |-> Idle]

Queued(c) == command[c].revision > 0

-----------------------------------------------------------------------------
(* Authority and clocks.                                                    *)

\* applyAuthorityProjection: older projections and replays change nothing.
ApplyProjection(rev) ==
  /\ rev > authority.rev
  /\ authority' = [rev |-> rev, fresh |-> TRUE]
  /\ UNCHANGED <<org, command, lease, receipt, claim, stripe, exec>>

AuthorityExpires ==
  /\ authority.fresh
  /\ authority' = [authority EXCEPT !.fresh = FALSE]
  /\ UNCHANGED <<org, command, lease, receipt, claim, stripe, exec>>

LeaseExpires(c) ==
  /\ lease[c].owner # NoOne
  /\ lease' = [lease EXCEPT ![c].owner = NoOne]
  /\ UNCHANGED <<authority, org, command, receipt, claim, stripe, exec>>

\* The recovery window of 30 days closes.
WindowCloses ==
  /\ org.reserved > 0 /\ ~org.lapsed
  /\ org' = [org EXCEPT !.lapsed = TRUE]
  /\ UNCHANGED <<authority, command, lease, receipt, claim, stripe, exec>>

\* Stripe forgets an idempotency key, not before the window has closed and
\* the call of every execution that saw it open is over.
KeyForgotten ==
  /\ stripe.remembers /\ org.lapsed
  /\ \A e \in Executions : ~(exec[e].cmd = Creation /\ exec[e].pc \in {"authorize", "call"})
  /\ stripe' = [stripe EXCEPT !.remembers = FALSE]
  /\ UNCHANGED <<authority, org, command, lease, receipt, claim, exec>>

AccountChanges ==
  /\ stripe.accounts > 0 /\ stripe.version < MaxVersion
  /\ stripe' = [stripe EXCEPT !.version = @ + 1]
  /\ UNCHANGED <<authority, org, command, lease, receipt, claim, exec>>

-----------------------------------------------------------------------------
(* The edge.                                                                *)

\* reserveOnboarding, for an owner whose authority was read at revision a.
Reserve(a) ==
  /\ \/ /\ org.reserved = 0 /\ ~org.bound /\ org.state = "not_started"
        /\ org' = [org EXCEPT !.revision = @ + 1, !.state = "provisioning", !.reserved = a]
     \/ /\ org.reserved > 0
        /\ org.reserved # a \/ org.lapsed
        /\ org' = [org EXCEPT !.state = "security_review"]
  /\ UNCHANGED <<authority, command, lease, receipt, claim, stripe, exec>>

\* beginStripeConnectOnboarding freezes the command once it has the
\* reservation, in its own or in a later call.
Begin ==
  /\ org.reserved > 0 /\ ~Queued(Creation)
  /\ command' = [command EXCEPT ![Creation] = [revision |-> 1, authority |-> org.reserved]]
  /\ UNCHANGED <<authority, org, lease, receipt, claim, stripe, exec>>

\* refreshStripeConnectStatus, with the status it read.
Refresh(c, a) ==
  /\ org.bound /\ ~Queued(c)
  /\ command' = [command EXCEPT ![c] = [revision |-> org.revision, authority |-> a]]
  /\ UNCHANGED <<authority, org, lease, receipt, claim, stripe, exec>>

-----------------------------------------------------------------------------
(* Leases and receipts.                                                     *)

Starts(e, c, l) ==
  exec' = [exec EXCEPT ![e] = [Idle EXCEPT !.pc = IF c = Creation THEN "start" ELSE "read",
                                           !.cmd = c, !.lease = l]]

Claimable(c) == Queued(c) /\ receipt[c] = "none" /\ lease[c].owner = NoOne

\* Mutant of NextAttempt: a lease that ran out is not counted.
NextAttemptUncounted(c) == 1

NextAttempt(c) == lease[c].attempt + 1

\* Mutant of LeasesLeft: one lease too many.
LeasesLeftAndOne(c) == lease[c].attempt <= MaxAttempts

LeasesLeft(c) == lease[c].attempt < MaxAttempts

\* claimCommand grants a lease.
Claim(e, c, l) ==
  /\ exec[e].pc = "idle" /\ Claimable(c) /\ LeasesLeft(c)
  /\ lease' = [lease EXCEPT ![c] = [owner |-> l, attempt |-> NextAttempt(c)]]
  /\ Starts(e, c, l)
  /\ UNCHANGED <<authority, org, command, receipt, claim, stripe>>

\* A task that is delivered again finds its own lease.
Reclaim(e, c) ==
  /\ exec[e].pc = "idle" /\ lease[c].owner # NoOne
  /\ Starts(e, c, lease[c].owner)
  /\ UNCHANGED <<authority, org, command, lease, receipt, claim, stripe>>

DeadLetter(c) ==
  /\ Claimable(c) /\ ~LeasesLeft(c)
  /\ receipt' = [receipt EXCEPT ![c] = "dead_lettered"]
  /\ UNCHANGED <<authority, org, command, lease, claim, stripe, exec>>

\* completeCommand takes an outcome from the execution that holds the lease.
Complete(e) ==
  LET c == exec[e].cmd
  IN  /\ exec[e].pc = "complete"
      /\ IF lease[c].owner = exec[e].lease
           THEN /\ receipt' = [receipt EXCEPT ![c] = exec[e].result]
                /\ lease' = [lease EXCEPT ![c].owner = NoOne]
           ELSE UNCHANGED <<receipt, lease>>
      /\ exec' = [exec EXCEPT ![e] = Idle]
      /\ UNCHANGED <<authority, org, command, claim, stripe>>

\* An execution is killed, or throws because Stripe is unavailable.
Die(e) ==
  /\ exec[e].pc # "idle"
  /\ exec' = [exec EXCEPT ![e] = Idle]
  /\ UNCHANGED <<authority, org, command, lease, receipt, claim, stripe>>

-----------------------------------------------------------------------------
(* The steps of an execution.                                               *)

Goes(e, pc) == exec' = [exec EXCEPT ![e].pc = pc]

Ends(e, result) ==
  exec' = [exec EXCEPT ![e] = [Idle EXCEPT !.pc = "complete", !.cmd = exec[e].cmd,
                                           !.lease = exec[e].lease, !.result = result]]

Fails(e, reason, evidence) ==
  exec' = [exec EXCEPT ![e].pc = "quarantine", ![e].reason = reason, ![e].evidence = evidence]

Throws(e) == exec' = [exec EXCEPT ![e] = Idle]

\* executeCreateMerchantAccount looks for the receipt of the onboarding, which
\* is written with the binding.
FindReceipt(e) ==
  /\ exec[e].pc = "start"
  /\ IF org.bound THEN Ends(e, "succeeded") ELSE Goes(e, "read")
  /\ UNCHANGED <<authority, org, command, lease, receipt, claim, stripe>>

\* Mutant of Stands: the recovery window is not looked at.
StandsWithoutWindow(c) ==
  /\ org.revision = command[c].revision
  /\ IF c = Creation THEN org.state = "provisioning" /\ org.reserved = command[c].authority
                     ELSE org.bound

\* What the command was frozen for still stands.
Stands(c) ==
  /\ org.revision = command[c].revision
  /\ IF c = Creation
       THEN org.state = "provisioning" /\ org.reserved = command[c].authority /\ ~org.lapsed
       ELSE org.bound

\* The first of the two reads; authority may be read later.
ReadStatus(e) ==
  LET c == exec[e].cmd
  IN  /\ exec[e].pc = "read"
      /\ \/ /\ org.quarantine.of = c
            /\ Goes(e, "confirm")
         \/ /\ org.quarantine.of # c /\ org.applied = c
            /\ Ends(e, "succeeded")
         \/ /\ c \notin {org.quarantine.of, org.applied}
            /\ IF Stands(c) THEN Goes(e, "authorize")
               ELSE IF c = Creation THEN Fails(e, "failed_precondition", FALSE)
               ELSE exec' = [exec EXCEPT ![e].pc = "authorize",
                                         ![e].reason = "failed_precondition"]
      /\ UNCHANGED <<authority, org, command, lease, receipt, claim, stripe>>

Authorize(e) ==
  LET c == exec[e].cmd
  IN  /\ exec[e].pc = "authorize"
      /\ IF ~authority.fresh THEN Fails(e, "failed_precondition", FALSE)
         ELSE IF authority.rev # command[c].authority THEN Fails(e, "permission_denied", FALSE)
         ELSE IF exec[e].reason # "" THEN Fails(e, exec[e].reason, FALSE)
         ELSE Goes(e, "call")
      /\ UNCHANGED <<authority, org, command, lease, receipt, claim, stripe>>

\* Stripe answers a call it does not carry out.
Refused(e) ==
  /\ exec[e].pc = "call"
  /\ Fails(e, "failed_precondition", FALSE)
  /\ UNCHANGED <<authority, org, command, lease, receipt, claim, stripe>>

\* createMerchantAccount: the account of the idempotency key, or a new one;
\* its configuration may not be the reviewed one.
CreateAccount(e) ==
  /\ exec[e].pc = "call" /\ exec[e].cmd = Creation
  /\ stripe' = IF stripe.remembers THEN stripe
               ELSE [stripe EXCEPT !.accounts = @ + 1, !.remembers = TRUE]
  /\ Goes(e, "commit") \/ Fails(e, "failed_precondition", TRUE)
  /\ UNCHANGED <<authority, org, command, lease, receipt, claim>>

\* retrieveMerchantAccount
Retrieve(e) ==
  /\ exec[e].pc = "call" /\ exec[e].cmd # Creation
  /\ exec' = [exec EXCEPT ![e].pc = "apply", ![e].seen = stripe.version]
  /\ UNCHANGED <<authority, org, command, lease, receipt, claim, stripe>>

\* Mutant of ClaimUnderReview: a claim that exists is overwritten.
ClaimTaken(evidence) == IF evidence THEN "quarantined" ELSE claim

\* The account of the evidence is claimed unless it has a claim already.
ClaimUnderReview(evidence) == IF evidence /\ claim = "none" THEN "quarantined" ELSE claim

\* An operation is put under review.
Review(c, reason, evidence) ==
  /\ org' = [org EXCEPT !.revision = @ + 1, !.state = "security_review",
                        !.quarantine = [of |-> c, reason |-> reason]]
  /\ claim' = ClaimUnderReview(evidence)

\* The reservation the command was frozen with is still the current one.
Current(c) == org.reserved > 0 /\ org.revision = command[c].revision

\* completeOnboarding: the second gate of authority, then the binding.
Commit(e) ==
  LET c == exec[e].cmd
      authorized == authority.fresh /\ authority.rev = org.reserved
  IN  /\ exec[e].pc = "commit"
      /\ \/ /\ org.bound
            /\ Ends(e, "succeeded")
            /\ UNCHANGED <<org, claim>>
         \/ /\ ~org.bound /\ ~Current(c)
            /\ Throws(e)
            /\ UNCHANGED <<org, claim>>
         \/ /\ ~org.bound /\ Current(c) /\ (~authorized \/ claim = "quarantined")
            /\ Review(c, "authority_changed", TRUE)
            /\ Ends(e, "quarantined")
         \/ /\ ~org.bound /\ Current(c) /\ authorized /\ claim # "quarantined"
            /\ org' = [org EXCEPT !.state = "onboarding", !.bound = TRUE, !.reserved = 0]
            /\ claim' = "bound"
            /\ Ends(e, "succeeded")
      /\ UNCHANGED <<authority, command, lease, receipt, stripe>>

\* Mutant of Fenced: whatever was observed is applied.
FencedByBinding(c) == org.bound

\* The revision fence of refreshStatus and quarantineProviderOperation.
Fenced(c) == org.revision = command[c].revision

\* Mutant of Observed: the revision of the record stays.
ObservedQuietly(c, seen) ==
  [org EXCEPT !.applied = c, !.seen = seen, !.state = "observed"]

Observed(c, seen) ==
  [org EXCEPT !.revision = @ + 1, !.applied = c, !.seen = seen, !.state = "observed"]

\* refreshStatus
Apply(e) ==
  LET c == exec[e].cmd
  IN  /\ exec[e].pc = "apply"
      /\ \/ /\ org.applied = c
            /\ Ends(e, "succeeded")
            /\ UNCHANGED org
         \/ /\ org.applied # c /\ ~Fenced(c)
            /\ Throws(e)
            /\ UNCHANGED org
         \/ /\ org.applied # c /\ Fenced(c)
            /\ org' = Observed(c, exec[e].seen)
            /\ Ends(e, "succeeded")
      /\ UNCHANGED <<authority, command, lease, receipt, claim, stripe>>

\* quarantineProviderOperation, from the executor's catch block.
Quarantine(e) ==
  LET c == exec[e].cmd
  IN  /\ exec[e].pc = "quarantine"
      /\ \/ /\ org.quarantine.of = c
            /\ IF org.quarantine.reason = exec[e].reason THEN Ends(e, "quarantined")
                                                         ELSE Throws(e)
            /\ UNCHANGED <<org, claim>>
         \/ /\ org.quarantine.of # c /\ ~Fenced(c)
            /\ Throws(e)
            /\ UNCHANGED <<org, claim>>
         \/ /\ org.quarantine.of # c /\ Fenced(c)
            /\ Review(c, exec[e].reason, exec[e].evidence)
            /\ Ends(e, "quarantined")
      /\ UNCHANGED <<authority, command, lease, receipt, stripe>>

\* The same call for an operation that was under review when it was read.
Confirm(e) ==
  /\ exec[e].pc = "confirm"
  /\ IF org.quarantine.of = exec[e].cmd THEN Ends(e, "quarantined") ELSE Throws(e)
  /\ UNCHANGED <<authority, org, command, lease, receipt, claim, stripe>>

ExecutionStep(e) ==
  \/ FindReceipt(e) \/ ReadStatus(e) \/ Authorize(e) \/ Refused(e) \/ CreateAccount(e)
  \/ Retrieve(e) \/ Commit(e) \/ Apply(e) \/ Quarantine(e) \/ Confirm(e) \/ Complete(e)
  \/ Die(e)

-----------------------------------------------------------------------------
Next ==
  \/ \E rev \in 1..MaxAuthority : ApplyProjection(rev)
  \/ AuthorityExpires \/ WindowCloses \/ KeyForgotten \/ AccountChanges
  \/ \E a \in 1..authority.rev : Reserve(a) \/ \E c \in Refreshes : Refresh(c, a)
  \/ Begin
  \/ \E c \in Commands : LeaseExpires(c) \/ DeadLetter(c)
  \/ \E e \in Executions, c \in Commands : Reclaim(e, c) \/ \E l \in Leases : Claim(e, c, l)
  \/ \E e \in Executions : ExecutionStep(e)

Spec == Init /\ [][Next]_vars

\* A queue delivers a command again until it has a receipt, a lease of a
\* minute runs out, and an execution ends.
Redelivered ==
  /\ \A e \in Executions : WF_vars(ExecutionStep(e))
  /\ \A c \in Commands :
       /\ WF_vars(LeaseExpires(c)) /\ WF_vars(DeadLetter(c))
       /\ SF_vars(\E e \in Executions, l \in Leases : Claim(e, c, l))

FairSpec == Spec /\ Redelivered

-----------------------------------------------------------------------------
(* Properties.                                                              *)

\* Types of the documents, the provider and what the executions remember.
TypeOK ==
  /\ authority \in [rev : Nat, fresh : BOOLEAN]
  /\ org \in Orgs
  /\ command \in [Commands -> [revision : Nat, authority : Nat]]
  /\ lease \in [Commands -> [owner : Leases \cup {NoOne}, attempt : 0..MaxAttempts]]
  /\ receipt \in [Commands -> Receipts]
  /\ claim \in {"none", "bound", "quarantined"}
  /\ stripe \in [accounts : Nat, remembers : BOOLEAN, version : Nat]
  /\ exec \in [Executions -> Memories]

\* However often the creation is executed, lost and executed again, Stripe
\* opens one account for the organization (docs/STRIPE_CONNECT_PROGRAM.md:127).
OneAccount == stripe.accounts <= 1

\* The organization is bound exactly when the claim on its account is: an
\* account under review never becomes the binding, and the other way round.
BindingIsClaimed == org.bound <=> claim = "bound"

\* A receipt is earned: a creation that succeeded has the binding, and any
\* other success or quarantine moved the record past the revision that the
\* command was frozen at.
ReceiptsAreEarned ==
  \A c \in Commands :
    /\ receipt[c] = "succeeded" /\ c = Creation => org.bound
    /\ \/ receipt[c] = "quarantined"
       \/ receipt[c] = "succeeded" /\ c # Creation
       => org.revision > command[c].revision

\* Of the refreshes that were frozen at one revision one takes effect; binding,
\* the effect of the creation, does not move the revision (refreshStatus).
EffectsAreFenced ==
  \A c, d \in Refreshes :
    /\ receipt[c] \in {"succeeded", "quarantined"} /\ receipt[d] \in {"succeeded", "quarantined"}
    /\ command[c].revision = command[d].revision
    => c = d

\* A slow execution never puts an older observation of the account over a
\* newer one.
ObservationsAdvance == [][org'.seen >= org.seen]_vars

\* An account whose creation was quarantined is not the usable binding
\* (docs/STRIPE_CONNECT_PROGRAM.md:142-145).
QuarantineExposesNothing == receipt[Creation] = "quarantined" => ~org.bound

\* Every command has a terminal receipt in the end.
CommandsEnd == \A c \in Commands : Queued(c) ~> receipt[c] # "none"

=============================================================================
