--------------------------- MODULE ConnectHandoff ---------------------------
(***************************************************************************)
(* The one-use hand-off to Stripe's hosted onboarding (functions-connect). *)
(* The owner's request prepares an attempt, a POST of its token consumes   *)
(* it, Stripe creates an account link, and only a link whose issuance was  *)
(* recorded is disclosed, as a redirect.                                   *)
(*                                                                         *)
(* Abstractions.  One organization, bound to its account; what refreshes   *)
(* and reviews do to its record is one step of the environment (they are   *)
(* the subject of ConnectCommands), and a projection of authority stands   *)
(* for the owner it names.  The token of an attempt is a function of the   *)
(* request, so an attempt is named by its request.  Two clocks of an       *)
(* attempt pass in any order: its ten minutes and Stripe's own expiry.     *)
(***************************************************************************)
EXTENDS Naturals

CONSTANTS Requests,      \* request ids of the owner
          NoOne,         \* no attempt
          MaxRevision,   \* bound on the revisions of the organization
          MaxAuthority   \* bound on the revisions of authority

ASSUME NoOneAssumption == NoOne \notin Requests
ASSUME BoundsAssumption == MaxRevision \in Nat /\ MaxAuthority \in Nat

VARIABLES
  org,        \* the organization's Connect record
  authority,  \* the current projection of the owner's authority
  handoff,    \* the private record of each attempt
  link,       \* the attempts Stripe has a link for
  visit,      \* what the request that consumed an attempt does next
  disclosed,  \* the attempts whose link was disclosed
  passed      \* the clocks that have passed

vars == <<org, authority, handoff, link, visit, disclosed, passed>>

HandoffStates == {"none", "prepared", "consumed", "provider_issued", "provider_withheld",
                  "expired"}

Clocks == {"local", "provider"}

NoHandoff == [state |-> "none", revision |-> 0, authority |-> 0]

Init ==
  /\ org = [revision |-> 1, usable |-> TRUE, active |-> NoOne, latest |-> NoOne]
  /\ authority = [rev |-> 1, fresh |-> TRUE]
  /\ handoff = [h \in Requests |-> NoHandoff]
  /\ link = {}
  /\ visit = [h \in Requests |-> "none"]
  /\ disclosed = {}
  /\ passed = [h \in Requests |-> {}]

-----------------------------------------------------------------------------
(* The environment.                                                         *)

\* A refresh or a review: connectionState may allow onboarding or not.
StatusChanges(usable) ==
  /\ org.revision < MaxRevision
  /\ org' = [org EXCEPT !.revision = @ + 1, !.usable = usable]
  /\ UNCHANGED <<authority, handoff, link, visit, disclosed, passed>>

AuthorityChanges ==
  /\ \/ /\ authority.rev < MaxAuthority
        /\ authority' = [rev |-> authority.rev + 1, fresh |-> TRUE]
     \/ /\ authority.fresh
        /\ authority' = [authority EXCEPT !.fresh = FALSE]
  /\ UNCHANGED <<org, handoff, link, visit, disclosed, passed>>

\* Stripe's clock starts with the link.
ClockPasses(h, clock) ==
  /\ handoff[h].state # "none" /\ clock \notin passed[h]
  /\ clock = "provider" => h \in link
  /\ passed' = [passed EXCEPT ![h] = @ \cup {clock}]
  /\ UNCHANGED <<org, authority, handoff, link, visit, disclosed>>

-----------------------------------------------------------------------------
(* Preparing.                                                               *)

\* The expiry a record is judged by: the earlier of the two once it holds the
\* provider's, its own ten minutes before.
Over(h) ==
  IF handoff[h].state \in {"none", "prepared", "consumed"} THEN "local" \in passed[h]
                                                         ELSE passed[h] # {}

\* Mutant of Settled: an attempt that was consumed can be replaced.
SettledOnceConsumed(h) == handoff[h].state \in {"consumed", "provider_withheld", "expired"}

Settled(h) == handoff[h].state \in {"provider_withheld", "expired"}

Authorized(rev) == authority.fresh /\ authority.rev = rev

\* savePreparedHandoff: a new attempt replaces the active one when that is
\* settled or its clock has passed.
Prepare(h) ==
  LET active == org.active
      replaced == IF active # NoOne /\ ~Settled(active)
                  THEN [handoff EXCEPT ![active].state = "expired"] ELSE handoff
  IN  /\ handoff[h].state = "none" /\ org.usable /\ authority.fresh
      /\ active # NoOne => Settled(active) \/ Over(active)
      /\ handoff' = [replaced EXCEPT ![h] = [state |-> "prepared", revision |-> org.revision,
                                             authority |-> authority.rev]]
      /\ org' = [org EXCEPT !.active = h]
      /\ UNCHANGED <<authority, link, visit, disclosed, passed>>

-----------------------------------------------------------------------------
(* The POST that consumes an attempt.                                       *)

StatusMatches(h) == org.active = h /\ org.revision = handoff[h].revision

\* consumePreparedHandoff
Consume(h) ==
  /\ handoff[h].state = "prepared" /\ "local" \notin passed[h]
  /\ StatusMatches(h) /\ org.usable /\ Authorized(handoff[h].authority)
  /\ handoff' = [handoff EXCEPT ![h].state = "consumed"]
  /\ visit' = [visit EXCEPT ![h] = "call"]
  /\ UNCHANGED <<org, authority, link, disclosed, passed>>

\* createAccountLink; the answer may be lost, the link there all the same.
\* The check of the clocks after it reads only what Record reads again.
CreateLink(h) ==
  /\ visit[h] = "call"
  /\ link' = link \cup {h}
  /\ visit' = [visit EXCEPT ![h] = "record"]
  /\ UNCHANGED <<org, authority, handoff, disclosed, passed>>

Issuable(h) == StatusMatches(h) /\ Authorized(handoff[h].authority) /\ passed[h] = {}

\* Mutant of Outcome: a state no reader of the record knows.
OutcomeInWords(h) == IF Issuable(h) THEN "provider_issued" ELSE "authority_changed"

Outcome(h) == IF Issuable(h) THEN "provider_issued" ELSE "provider_withheld"

\* Mutant of After: the link is there, so it is shown.
AfterAnswer(outcome) == "disclose"

After(outcome) == IF outcome = "provider_issued" THEN "disclose" ELSE "done"

\* recordProviderExpiry: the second gate.
Record(h) ==
  /\ visit[h] = "record" /\ handoff[h].state = "consumed"
  /\ handoff' = [handoff EXCEPT ![h].state = Outcome(h)]
  /\ org' = IF Issuable(h) THEN [org EXCEPT !.latest = h] ELSE org
  /\ visit' = [visit EXCEPT ![h] = After(Outcome(h))]
  /\ UNCHANGED <<authority, link, disclosed, passed>>

\* The redirect to Stripe.
Disclose(h) ==
  /\ visit[h] = "disclose"
  /\ disclosed' = IF passed[h] = {} THEN disclosed \cup {h} ELSE disclosed
  /\ visit' = [visit EXCEPT ![h] = "done"]
  /\ UNCHANGED <<org, authority, handoff, link, passed>>

\* The request is killed, an answer is lost, a clock has passed, or the attempt
\* was replaced meanwhile.
Recover(h) ==
  /\ visit[h] \in {"call", "record", "disclose"}
  /\ visit' = [visit EXCEPT ![h] = "done"]
  /\ UNCHANGED <<org, authority, handoff, link, disclosed, passed>>

-----------------------------------------------------------------------------
Next ==
  \/ \E usable \in BOOLEAN : StatusChanges(usable)
  \/ AuthorityChanges
  \/ \E h \in Requests :
       \/ \E clock \in Clocks : ClockPasses(h, clock)
       \/ Prepare(h) \/ Consume(h) \/ CreateLink(h) \/ Record(h) \/ Disclose(h) \/ Recover(h)

Spec == Init /\ [][Next]_vars

-----------------------------------------------------------------------------
(* Properties.                                                              *)

\* Types of the records, the provider and the requests.
TypeOK ==
  /\ org \in [revision : Nat, usable : BOOLEAN, active : Requests \cup {NoOne},
              latest : Requests \cup {NoOne}]
  /\ authority \in [rev : Nat, fresh : BOOLEAN]
  /\ handoff \in [Requests -> [state : HandoffStates, revision : Nat, authority : Nat]]
  /\ link \subseteq Requests
  /\ visit \in [Requests -> {"none", "call", "record", "disclose", "done"}]
  /\ disclosed \subseteq Requests
  /\ passed \in [Requests -> SUBSET Clocks]

\* Whoever holds the link of the attempt can use it: Stripe has it and its own
\* clock runs, and it was not withheld.
Usable(h) ==
  h \in link /\ "provider" \notin passed[h] /\ handoff[h].state # "provider_withheld"

\* As long as its ten minutes last, a link that Stripe honours belongs to the
\* attempt the organization names as active: no lost answer, killed request or
\* change of status or authority lets a second request begin, let alone obtain
\* another bearer link, beside it.  Afterwards Stripe may honour both
\* (onboardingHandoff.js:275, connectControlRepository.js:1079,
\* docs/STRIPE_CONNECT_PROGRAM.md:157-162).
UsableIsActive ==
  \A h \in Requests : Usable(h) /\ "local" \notin passed[h] => org.active = h

\* A link that was withheld is never shown, and the attempt that the
\* organization names as its latest is one whose issuance was recorded.
ShownWasIssued ==
  \A h \in disclosed \cup ({org.latest} \ {NoOne}) :
    handoff[h].state \in {"provider_issued", "expired"}

=============================================================================
