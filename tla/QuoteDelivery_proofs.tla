------------------------ MODULE QuoteDelivery_proofs ------------------------
(***************************************************************************)
(* Theorems about the delivery of a quote, for any number of invocations,  *)
(* e-mails, revisions and generations.                                     *)
(***************************************************************************)
EXTENDS QuoteDelivery, TLAPS

Sending(i) == call[i].pc = "send"

\* No mail and no request is younger than the delivery record.
KeysAreOld ==
  /\ delivery.rev <= quote.rev
  /\ \A m \in mail : /\ m.rev <= delivery.rev
                     /\ m.rev = delivery.rev => m.gen <= delivery.gen
  /\ \A i \in Invocations :
       Sending(i) => /\ call[i].rev <= delivery.rev
                     /\ call[i].rev = delivery.rev => call[i].gen <= delivery.gen

\* The record carries the digest of everything under its key, which the
\* provider remembers while the record is young.
RecordCoversKey ==
  /\ delivery.state \in {"none", "reconciled_not_sent"} =>
       delivery.window = "none" /\ delivery.payload = NoPayload
  /\ \A m \in mail :
       Key(m) = Key(delivery) => /\ m.payload = delivery.payload
                                 /\ delivery.state # "reconciled_not_sent"
                                 /\ Key(m) \in remembered \/ delivery.window = "closed"
  /\ \A i \in Invocations :
       Sending(i) /\ Key(call[i]) = Key(delivery) =>
         /\ call[i].payload = delivery.payload
         /\ delivery.state # "reconciled_not_sent"

\* Requests under one key are for one text, and find the key remembered.
RequestsAgree ==
  /\ \A i, j \in Invocations :
       Sending(i) /\ Sending(j) /\ Key(call[i]) = Key(call[j])
         => call[i].payload = call[j].payload
  /\ \A m \in mail, i \in Invocations :
       Sending(i) /\ Key(call[i]) = Key(m) => Key(m) \in remembered

\* A completion was answered by the provider.
CompletionHasMail ==
  \A i \in Invocations :
    call[i].pc = "complete" => \E m \in mail : m.rev = call[i].rev

KeyInv == OneMailPerKey /\ KeysAreOld /\ RecordCoversKey /\ RequestsAgree

PortalInv ==
  PortalShowsWhatWasSent /\ PaymentFollowsDelivery /\ CompletionHasMail /\ quote.rev # 0

\* An invocation that has an outcome to record, or an e-mail to send, knows
\* which.
OutcomeKnown ==
  \A i \in Invocations : /\ call[i].pc = "record" => call[i].err # ""
                         /\ Sending(i) => call[i].payload # NoPayload

TypeInv == TypeOK /\ OutcomeKnown

IInv == TypeInv /\ KeyInv /\ PortalInv

-----------------------------------------------------------------------------
(* Types.                                                                   *)

CallTyped == call \in [Invocations -> Calls] /\ OutcomeKnown

LEMMA InitType == Init => TypeInv
<1> SUFFICES ASSUME Init PROVE TypeInv
  OBVIOUS
<1>1. quote \in Quotes /\ portal \in Portals
  <2>1. {"draft"} \subseteq Statuses /\ {1} \subseteq Nat /\ {FALSE} \subseteq BOOLEAN
    BY DEF Statuses
  <2>2. PICK p \in Payloads :
          quote = [rev |-> 1, status |-> "draft", payload |-> p, paying |-> FALSE]
    BY DEF Init
  <2>3. quote \in Quotes
    BY <2>1, <2>2 DEF Quotes
  <2>4. portal \in Portals
    BY DEF Init, Portals
  <2> QED BY <2>3, <2>4
<1>2. delivery \in Records
  BY DEF Init, NoDelivery, Records, DeliveryStates, UnresolvedStates, MessageIds
<1>3. NotCalled \in Calls /\ NotCalled.pc = "idle"
  BY DEF NotCalled, Calls, Errors, MessageIds
<1>4. CallTyped
  BY <1>3 DEF Init, CallTyped, OutcomeKnown, Sending
<1> QED BY <1>1, <1>2, <1>4 DEF Init, TypeInv, TypeOK, CallTyped

LEMMA CallUpdate ==
  ASSUME CallTyped, NEW i \in Invocations, NEW r \in Calls,
         r.pc = "record" => r.err # "", r.pc = "send" => r.payload # NoPayload,
         call' = [call EXCEPT ![i] = r]
  PROVE  CallTyped'
  BY DEF CallTyped, OutcomeKnown, Sending

LEMMA ReviewType ==
  ASSUME delivery \in Records PROVE ManualReview \in Records
  BY DEF ManualReview, Records, DeliveryStates, UnresolvedStates

LEMMA SuccessType ==
  ASSUME delivery \in Records, NEW msg \in MessageIds
  PROVE  DeliverySuccess(msg) \in Records
  BY DEF DeliverySuccess, Records, DeliveryStates

LEMMA FailureType ==
  ASSUME delivery \in Records, NEW err \in Errors \ {""}, NEW msg \in MessageIds
  PROVE  AttemptFailure(err, msg) \in Records
<1>1. CASE err = "definite"
  BY <1>1 DEF AttemptFailure, Records, DeliveryStates
<1>2. CASE err = "ambiguous"
  BY <1>2 DEF AttemptFailure, Records, DeliveryStates, UnresolvedStates
<1>3. CASE err = "manual_review"
  BY <1>3 DEF AttemptFailure, Records, DeliveryStates, UnresolvedStates
<1> QED BY <1>1, <1>2, <1>3 DEF Errors

LEMMA AcquiredType ==
  ASSUME delivery \in Records, quote \in Quotes, NEW i \in Invocations,
         NEW payload \in Payloads
  PROVE  AcquiredDelivery(i, payload) \in Records
<1>1. /\ quote.rev \in Nat /\ delivery.gen \in Nat
      /\ delivery.window \in {"none", "open", "closed"}
      /\ delivery.observed \in MessageIds
  BY DEF Quotes, Records
<1>2. AcquiredDelivery(i, payload).gen \in Nat
  BY <1>1 DEF AcquiredDelivery
<1>3. AcquiredDelivery(i, payload).window \in {"none", "open", "closed"}
  BY <1>1 DEF AcquiredDelivery
<1>4. AcquiredDelivery(i, payload).observed \in MessageIds
  BY <1>1 DEF AcquiredDelivery, MessageIds
<1>5. "sending" \in DeliveryStates /\ i \in MessageIds
  BY DEF DeliveryStates, UnresolvedStates, MessageIds
<1> QED BY <1>1, <1>2, <1>3, <1>4, <1>5 DEF AcquiredDelivery, Records

LEMMA NotSentType ==
  ASSUME delivery \in Records, quote \in Quotes
  PROVE  ReconciledNotSent \in Records
  BY DEF ReconciledNotSent, Records, Quotes, DeliveryStates, MessageIds

LEMMA StatusType ==
  ASSUME quote \in Quotes
  PROVE  [quote EXCEPT !.status = SentStatus(@)] \in Quotes
  BY DEF Quotes, SentStatus, Statuses

LEMMA ReissueType ==
  ASSUME TypeInv, NEW status \in Statuses, NEW payload \in Payloads,
         Reissue(status, payload)
  PROVE  TypeInv'
<1>1. quote' \in Quotes
  <2>1. quote \in Quotes /\ quote.rev + 1 \in Nat
    BY DEF TypeInv, TypeOK, Quotes
  <2>2. quote' = [[[quote EXCEPT !.rev = quote.rev + 1] EXCEPT !.status = status]
                    EXCEPT !.payload = payload]
    BY DEF Reissue
  <2> QED BY <2>1, <2>2 DEF Quotes
<1>2. portal' \in Portals
  BY DEF Reissue, Portals
<1> QED BY <1>1, <1>2 DEF TypeInv, TypeOK, OutcomeKnown, Sending, Reissue

LEMMA StatusStepType ==
  ASSUME TypeInv, NEW status \in Statuses, SetStatus(status)
  PROVE  TypeInv'
<1>1. quote' \in Quotes
  BY DEF TypeInv, TypeOK, SetStatus, Quotes
<1> QED BY <1>1 DEF TypeInv, TypeOK, OutcomeKnown, Sending, SetStatus

LEMMA ClaimType ==
  ASSUME TypeInv, NEW i \in Invocations, Claim(i)
  PROVE  TypeInv'
<1>1. /\ quote \in Quotes /\ delivery \in Records /\ CallTyped
      /\ quote.payload \in Payloads /\ quote.rev \in Nat
  BY DEF TypeInv, TypeOK, CallTyped, Quotes
<1>2. delivery' \in Records
  BY <1>1, AcquiredType DEF Claim
<1>3. delivery'.gen \in Nat
  BY <1>2 DEF Records
<1> DEFINE r == [pc |-> "send", rev |-> quote.rev, gen |-> delivery'.gen,
                 payload |-> quote.payload, msg |-> NoInvocation, err |-> ""]
<1>4. r \in Calls
  BY <1>1, <1>3 DEF Calls, Errors, MessageIds
<1>5. quote.payload # NoPayload
  BY <1>1, NoPayloadAssumption
<1>6. CallTyped'
  <2>1. call' = [call EXCEPT ![i] = r]
    BY DEF Claim
  <2> QED BY <1>1, <1>4, <1>5, <2>1, CallUpdate
<1> QED BY <1>2, <1>6 DEF TypeInv, TypeOK, CallTyped, Claim

LEMMA AcceptType ==
  ASSUME TypeInv, NEW i \in Invocations, Sending(i), ProviderAccepts(i)
  PROVE  mail' \subseteq Mails /\ remembered' \subseteq [rev : Nat, gen : Nat]
<1>1. call[i] \in Calls /\ call[i].payload \in Payloads
  BY DEF TypeInv, TypeOK, OutcomeKnown, Calls
<1>2. Key(call[i]) \in [rev : Nat, gen : Nat]
  BY <1>1 DEF Key, Calls
<1> QED BY <1>1, <1>2 DEF ProviderAccepts, TypeInv, TypeOK, Mails, Key

LEMMA SendType ==
  ASSUME TypeInv, NEW i \in Invocations, Send(i)
  PROVE  TypeInv'
<1>1. CallTyped /\ call[i] \in Calls /\ Sending(i)
  BY DEF TypeInv, TypeOK, CallTyped, Send, Sending
<1>2. ASSUME ProviderAccepts(i), NEW m \in mail',
             call' = [call EXCEPT ![i].pc = "complete", ![i].msg = m.by]
      PROVE  mail' \subseteq Mails /\ remembered' \subseteq [rev : Nat, gen : Nat]
             /\ CallTyped'
  <2>1. mail' \subseteq Mails /\ remembered' \subseteq [rev : Nat, gen : Nat]
    BY <1>1, <1>2, AcceptType
  <2>2. m.by \in MessageIds
    BY <2>1 DEF Mails, MessageIds
  <2> DEFINE r == [call[i] EXCEPT !.pc = "complete", !.msg = m.by]
  <2>3. r \in Calls /\ r.pc = "complete"
    BY <1>1, <2>2 DEF Calls
  <2>4. call' = [call EXCEPT ![i] = r]
    BY <1>2
  <2>5. CallTyped'
    BY <1>1, <2>3, <2>4, CallUpdate
  <2> QED BY <2>1, <2>5
<1>3. ASSUME NEW err \in {"ambiguous", "definite"},
             call' = [call EXCEPT ![i].pc = "record", ![i].err = err]
      PROVE  CallTyped'
  <2> DEFINE r == [call[i] EXCEPT !.pc = "record", !.err = err]
  <2>1. r \in Calls /\ r.pc = "record" /\ r.err # ""
    BY <1>1 DEF Calls, Errors
  <2>2. call' = [call EXCEPT ![i] = r]
    BY <1>3
  <2> QED BY <1>1, <2>1, <2>2, CallUpdate
<1>4. mail' \subseteq Mails /\ remembered' \subseteq [rev : Nat, gen : Nat] /\ CallTyped'
  <2>1. CASE ProviderAccepts(i)
             /\ \E m \in mail' :
                  /\ Key(m) = Key(call[i])
                  /\ call' = [call EXCEPT ![i].pc = "complete", ![i].msg = m.by]
    BY <1>2, <2>1
  <2>2. CASE ProviderAccepts(i)
             /\ call' = [call EXCEPT ![i].pc = "record", ![i].err = "ambiguous"]
    BY <1>1, <1>3, <2>2, AcceptType
  <2>3. CASE UNCHANGED <<mail, remembered>>
             /\ \E err \in {"ambiguous", "definite"} :
                  call' = [call EXCEPT ![i].pc = "record", ![i].err = err]
    BY <1>3, <2>3 DEF TypeInv, TypeOK
  <2> QED BY <2>1, <2>2, <2>3 DEF Send
<1> QED BY <1>4 DEF TypeInv, TypeOK, CallTyped, Send

LEMMA CompleteType ==
  ASSUME TypeInv, NEW i \in Invocations, Complete(i)
  PROVE  TypeInv'
<1>1. /\ CallTyped /\ call[i] \in Calls
      /\ quote \in Quotes /\ portal \in Portals /\ delivery \in Records
  BY DEF TypeInv, TypeOK, CallTyped
<1>2. ASSUME call' = [call EXCEPT ![i].pc = "done"] PROVE CallTyped'
  <2> DEFINE r == [call[i] EXCEPT !.pc = "done"]
  <2>1. r \in Calls /\ r.pc = "done"
    BY <1>1 DEF Calls
  <2>2. call' = [call EXCEPT ![i] = r]
    BY <1>2
  <2> QED BY <1>1, <2>1, <2>2, CallUpdate
<1>3. ASSUME NEW err \in {"ambiguous", "manual_review"}, CompleteFails(i, err)
      PROVE  CallTyped'
  <2> DEFINE r == [call[i] EXCEPT !.pc = "record", !.err = err]
  <2>1. r \in Calls /\ r.pc = "record" /\ r.err # ""
    BY <1>1 DEF Calls, Errors
  <2>2. call' = [call EXCEPT ![i] = r]
    BY <1>3 DEF CompleteFails
  <2> QED BY <1>1, <2>1, <2>2, CallUpdate
<1>4. ASSUME delivery' = DeliverySuccess(call[i].msg),
             quote' = [quote EXCEPT !.status = SentStatus(@)],
             portal' = [portal EXCEPT !.shows = quote.rev]
      PROVE  quote' \in Quotes /\ portal' \in Portals /\ delivery' \in Records
  <2>1. call[i].msg \in MessageIds /\ quote.rev \in Nat
    BY <1>1 DEF Calls, Quotes
  <2>2. portal' \in Portals
    BY <1>1, <1>4, <2>1 DEF Portals
  <2> QED BY <1>1, <1>4, <2>1, <2>2, SuccessType, StatusType
<1>5. quote' \in Quotes /\ portal' \in Portals /\ delivery' \in Records /\ CallTyped'
  BY <1>1, <1>2, <1>3, <1>4 DEF Complete
<1> QED BY <1>5 DEF TypeInv, TypeOK, CallTyped, Complete

LEMMA RecordType ==
  ASSUME TypeInv, NEW i \in Invocations, RecordOutcome(i) \/ Die(i)
  PROVE  TypeInv'
<1>1. CallTyped /\ call[i] \in Calls /\ delivery \in Records
  BY DEF TypeInv, TypeOK, CallTyped
<1>2. CallTyped'
  <2> DEFINE r == [call[i] EXCEPT !.pc = "done"]
  <2>1. r \in Calls /\ r.pc = "done"
    BY <1>1 DEF Calls
  <2>2. call' = [call EXCEPT ![i] = r]
    BY DEF RecordOutcome, Die
  <2> QED BY <1>1, <2>1, <2>2, CallUpdate
<1>3. delivery' \in Records
  <2>1. CASE RecordOutcome(i)
    <3>1. call[i].err \in Errors \ {""} /\ call[i].msg \in MessageIds
      BY <1>1, <2>1 DEF CallTyped, OutcomeKnown, Calls, RecordOutcome
    <3> QED BY <1>1, <2>1, <3>1, FailureType DEF RecordOutcome
  <2>2. CASE Die(i)
    BY <1>1, <2>2 DEF Die
  <2> QED BY <2>1, <2>2
<1> QED BY <1>2, <1>3 DEF TypeInv, TypeOK, CallTyped, RecordOutcome, Die

LEMMA ReviewStepType ==
  ASSUME TypeInv, ClaimForReview \/ ConfirmNotSent \/ ConfirmAccepted
  PROVE  TypeInv'
<1>1. /\ quote \in Quotes /\ portal \in Portals /\ delivery \in Records
      /\ mail \subseteq Mails
  BY DEF TypeInv, TypeOK
<1>2. CASE ClaimForReview
  <2>1. delivery' \in Records
    BY <1>1, <1>2, ReviewType DEF ClaimForReview
  <2> QED BY <1>2, <2>1 DEF ClaimForReview, TypeInv, TypeOK, OutcomeKnown, Sending
<1>3. CASE ConfirmNotSent
  <2>1. delivery' \in Records
    BY <1>1, <1>3, NotSentType DEF ConfirmNotSent
  <2> QED BY <1>3, <2>1 DEF ConfirmNotSent, TypeInv, TypeOK, OutcomeKnown, Sending
<1>4. CASE ConfirmAccepted
  <2>1. PICK m \in mail : delivery' = [DeliverySuccess(m.by) EXCEPT !.active = portal.valid]
    BY <1>4 DEF ConfirmAccepted, MailsUnder
  <2>2. m.by \in MessageIds /\ portal.valid \in BOOLEAN /\ quote.rev \in Nat
    BY <1>1 DEF Mails, MessageIds, Portals, Quotes
  <2>3. DeliverySuccess(m.by) \in Records
    BY <1>1, <2>2, SuccessType
  <2>4. delivery' \in Records
    BY <2>1, <2>2, <2>3 DEF Records
  <2>5. quote' \in Quotes
    BY <1>1, <1>4, StatusType DEF ConfirmAccepted
  <2>6. portal' \in Portals
    BY <1>1, <1>4, <2>2 DEF ConfirmAccepted, Portals
  <2> QED BY <1>4, <2>4, <2>5, <2>6
          DEF ConfirmAccepted, TypeInv, TypeOK, OutcomeKnown, Sending
<1> QED BY <1>2, <1>3, <1>4

\* What else writes the quote.
Editing ==
  \/ \E p \in Payloads : Edit(p) \/ Rotate(p) \/ Reopen(p)
  \/ Decide \/ Book \/ Expire

LEMMA EditingForms ==
  ASSUME TypeInv, Editing
  PROVE  \/ \E status \in Statuses, p \in Payloads : Reissue(status, p)
         \/ \E status \in Statuses : SetStatus(status)
<1>1. /\ quote.status \in Statuses
      /\ {"draft", "accepted", "declined", "booked", "expired"} \subseteq Statuses
  BY DEF TypeInv, TypeOK, Quotes, Statuses
<1>2. CASE \E p \in Payloads : Edit(p) \/ Rotate(p) \/ Reopen(p)
  BY <1>1, <1>2 DEF Edit, Rotate, Reopen
<1>3. CASE Decide \/ Book \/ Expire
  BY <1>1, <1>3 DEF Decide, Book, Expire
<1> QED BY <1>2, <1>3 DEF Editing

Paying ==
  BeginPayment \/ \E p \in Payloads : EndPayment(p) \/ ChangePayload(p)

Ticking == PortalLapses \/ LeaseEnds \/ WindowCloses \/ KeyForgotten

LEMMA OtherType ==
  ASSUME TypeInv, Paying \/ Ticking
  PROVE  TypeInv'
<1>1. quote' \in Quotes
  BY DEF TypeInv, TypeOK, Paying, Ticking, BeginPayment, EndPayment, ChangePayload,
         PortalLapses, LeaseEnds, WindowCloses, KeyForgotten, Quotes
<1>2. portal' \in Portals
  BY DEF TypeInv, TypeOK, Paying, Ticking, BeginPayment, EndPayment, ChangePayload,
         PortalLapses, LeaseEnds, WindowCloses, KeyForgotten, Portals
<1>3. delivery' \in Records
  <2>1. CASE LeaseEnds \/ WindowCloses
    BY <2>1 DEF TypeInv, TypeOK, LeaseEnds, WindowCloses, Records
  <2>2. CASE ~(LeaseEnds \/ WindowCloses)
    BY <2>2 DEF TypeInv, TypeOK, Paying, Ticking, BeginPayment, EndPayment,
                ChangePayload, PortalLapses, KeyForgotten
  <2> QED BY <2>1, <2>2
<1>4. /\ remembered' \subseteq remembered
      /\ UNCHANGED <<mail, call>>
  BY DEF Paying, Ticking, BeginPayment, EndPayment, ChangePayload,
         PortalLapses, LeaseEnds, WindowCloses, KeyForgotten
<1> QED BY <1>1, <1>2, <1>3, <1>4 DEF TypeInv, TypeOK, OutcomeKnown, Sending

Working(i) == Claim(i) \/ Send(i) \/ Complete(i) \/ RecordOutcome(i) \/ Die(i)

LEMMA StepCases ==
  ASSUME [Next]_vars
  PROVE  \/ \E i \in Invocations : Working(i)
         \/ ClaimForReview \/ ConfirmNotSent \/ ConfirmAccepted
         \/ Editing \/ Paying \/ Ticking
         \/ UNCHANGED vars
  BY DEF Next, Working, Editing, Paying, Ticking

\* Every step keeps the types.
LEMMA StepType == TypeInv /\ [Next]_vars => TypeInv'
<1> SUFFICES ASSUME TypeInv, [Next]_vars PROVE TypeInv'
  OBVIOUS
<1>1. CASE \E i \in Invocations : Working(i)
  BY <1>1, ClaimType, SendType, CompleteType, RecordType DEF Working
<1>2. CASE ClaimForReview \/ ConfirmNotSent \/ ConfirmAccepted
  BY <1>2, ReviewStepType
<1>3. CASE Editing
  BY <1>3, EditingForms, ReissueType, StatusStepType
<1>4. CASE Paying \/ Ticking
  BY <1>4, OtherType
<1>5. CASE UNCHANGED vars
  BY <1>5 DEF vars, TypeInv, TypeOK, OutcomeKnown, Sending
<1> QED BY <1>1, <1>2, <1>3, <1>4, <1>5, StepCases

\* The revision of the quote, and what the portal shows, after the steps that
\* write them.
LEMMA ReissueRevision ==
  ASSUME TypeInv, NEW status \in Statuses, NEW payload \in Payloads,
         Reissue(status, payload)
  PROVE  /\ quote'.rev = quote.rev + 1 /\ quote'.rev # 0 /\ quote.rev <= quote'.rev
         /\ portal'.shows = 0 /\ ~quote.paying /\ ~quote'.paying
         /\ UNCHANGED <<delivery, mail, call>>
<1>1. quote \in Quotes /\ quote.rev \in Nat
  BY DEF TypeInv, TypeOK, Quotes
<1>2. quote'.rev = quote.rev + 1 /\ quote'.paying = quote.paying /\ ~quote.paying
  BY <1>1 DEF Reissue, Quotes
<1> QED BY <1>1, <1>2 DEF Reissue

LEMMA StatusRevision ==
  ASSUME TypeInv, NEW status \in Statuses, SetStatus(status)
  PROVE  /\ quote'.rev = quote.rev /\ quote'.paying = quote.paying
         /\ quote.rev <= quote'.rev
         /\ UNCHANGED <<portal, delivery, mail, call>>
<1>1. quote \in Quotes /\ quote.rev \in Nat
  BY DEF TypeInv, TypeOK, Quotes
<1>2. quote'.rev = quote.rev /\ quote'.paying = quote.paying
  BY <1>1 DEF SetStatus, Quotes
<1> QED BY <1>1, <1>2 DEF SetStatus

LEMMA OtherRevision ==
  ASSUME TypeInv, Paying \/ Ticking
  PROVE  /\ quote'.rev = quote.rev /\ portal'.shows = portal.shows
         /\ UNCHANGED <<mail, call>>
         /\ quote'.paying => quote.paying \/ PortalActivated
<1>1. quote \in Quotes /\ portal \in Portals
  BY DEF TypeInv, TypeOK
<1>2. CASE Paying
  BY <1>1, <1>2 DEF Paying, BeginPayment, EndPayment, ChangePayload, Quotes
<1>3. CASE Ticking
  BY <1>1, <1>3 DEF Ticking, PortalLapses, LeaseEnds, WindowCloses, KeyForgotten, Portals
<1> QED BY <1>2, <1>3

-----------------------------------------------------------------------------
(* The keys.                                                                *)

RecordFields ==
  /\ UNCHANGED <<delivery.rev, delivery.gen, delivery.payload>>
  /\ \/ delivery'.window = delivery.window
     \/ delivery.window = "open" /\ delivery'.window = "closed"
  /\ \/ delivery'.state = delivery.state
     \/ {delivery.state, delivery'.state} \cap {"none", "reconciled_not_sent"} = {}

NoNewRequest ==
  \A i \in Invocations : Sending(i)' => Sending(i) /\ call'[i] = call[i]

\* An invocation that moves on without sending.
Leaves(i) ==
  /\ ~Sending(i)'
  /\ \A j \in Invocations \ {i} : call'[j] = call[j]

LEMMA CallLeaves ==
  ASSUME TypeInv, NEW i \in Invocations
  PROVE  /\ call' = [call EXCEPT ![i].pc = "done"] => Leaves(i)
         /\ \A err : call' = [call EXCEPT ![i].pc = "record", ![i].err = err] => Leaves(i)
         /\ \A msg : call' = [call EXCEPT ![i].pc = "complete", ![i].msg = msg] => Leaves(i)
<1>1. call \in [Invocations -> Calls] /\ call[i] \in Calls
  BY DEF TypeInv, TypeOK
<1>2. \A r : call' = [call EXCEPT ![i] = r] /\ r.pc # "send" => Leaves(i)
  BY <1>1 DEF Leaves, Sending
<1>3. ASSUME call' = [call EXCEPT ![i].pc = "done"] PROVE Leaves(i)
  <2> DEFINE r == [call[i] EXCEPT !.pc = "done"]
  <2>1. call' = [call EXCEPT ![i] = r] /\ r.pc = "done"
    BY <1>1, <1>3 DEF Calls
  <2> QED BY <1>2, <2>1
<1>4. ASSUME NEW err, call' = [call EXCEPT ![i].pc = "record", ![i].err = err]
      PROVE  Leaves(i)
  <2> DEFINE r == [call[i] EXCEPT !.pc = "record", !.err = err]
  <2>1. call' = [call EXCEPT ![i] = r] /\ r.pc = "record"
    BY <1>1, <1>4 DEF Calls
  <2> QED BY <1>2, <2>1
<1>5. ASSUME NEW msg, call' = [call EXCEPT ![i].pc = "complete", ![i].msg = msg]
      PROVE  Leaves(i)
  <2> DEFINE r == [call[i] EXCEPT !.pc = "complete", !.msg = msg]
  <2>1. call' = [call EXCEPT ![i] = r] /\ r.pc = "complete"
    BY <1>1, <1>5 DEF Calls
  <2> QED BY <1>2, <2>1
<1> QED BY <1>3, <1>4, <1>5

\* A step that sends nothing and leaves the key of the record alone.
LEMMA KeyKept ==
  ASSUME TypeInv, TypeInv', KeyInv, RecordFields, NoNewRequest,
         UNCHANGED <<mail, remembered>>, quote.rev <= quote'.rev
  PROVE  KeyInv'
<1>1. /\ delivery.rev \in Nat /\ quote.rev \in Nat /\ quote'.rev \in Nat
      /\ Key(delivery)' = Key(delivery)
  BY DEF TypeInv, TypeOK, Records, Quotes, RecordFields, Key
<1>2. OneMailPerKey'
  BY DEF KeyInv, OneMailPerKey, NoNewRequest, Sending, Key
<1>3. KeysAreOld'
  BY <1>1 DEF KeyInv, KeysAreOld, NoNewRequest, RecordFields
<1>4. RecordCoversKey'
  BY <1>1 DEF KeyInv, RecordCoversKey, NoNewRequest, RecordFields, Key
<1>5. RequestsAgree'
  BY DEF KeyInv, RequestsAgree, NoNewRequest, Key
<1> QED BY <1>2, <1>3, <1>4, <1>5 DEF KeyInv

LEMMA InitKeys == Init => KeyInv
<1> SUFFICES ASSUME Init PROVE KeyInv
  OBVIOUS
<1>1. \A i \in Invocations : call[i].pc = "idle"
  BY DEF Init, NotCalled
<1>2. /\ mail = {} /\ delivery.rev = 0 /\ delivery.state = "none"
      /\ delivery.window = "none" /\ delivery.payload = NoPayload
  BY DEF Init, NoDelivery
<1>3. quote.rev = 1
  BY DEF Init
<1> QED BY <1>1, <1>2, <1>3
        DEF KeyInv, OneMailPerKey, KeysAreOld, RecordCoversKey, RequestsAgree, Sending

\* What an acquired claim writes, by the revision and state it finds.
LEMMA ClaimForms ==
  ASSUME TypeInv, KeyInv, NEW i \in Invocations, Claim(i)
  PROVE  /\ delivery'.rev = quote.rev /\ delivery'.payload = quote.payload
         /\ delivery'.state = "sending" /\ delivery'.window # "none"
         /\ \/ delivery.rev < quote.rev
            \/ delivery.rev = quote.rev /\ delivery'.gen = delivery.gen + 1
            \/ /\ Key(delivery)' = Key(delivery)
               /\ delivery.window # "closed"
               /\ delivery.payload \in {NoPayload, quote.payload}
<1>1. delivery' = AcquiredDelivery(i, quote.payload)
  BY DEF Claim
<1>2. /\ delivery.rev \in Nat /\ quote.rev \in Nat
      /\ delivery.rev <= quote.rev /\ delivery.state \in DeliveryStates
  BY DEF TypeInv, TypeOK, Records, Quotes, KeyInv, KeysAreOld
<1>3. /\ delivery'.rev = quote.rev /\ delivery'.payload = quote.payload
      /\ delivery'.state = "sending" /\ delivery'.window # "none"
  BY <1>1 DEF AcquiredDelivery
<1>4. CASE ~SameRevision
  BY <1>2, <1>3, <1>4 DEF SameRevision
<1>5. CASE SameRevision /\ StartsNewGeneration
  BY <1>1, <1>3, <1>5 DEF AcquiredDelivery, SameRevision
<1>6. CASE SameRevision /\ ~StartsNewGeneration
  <2>1. Key(delivery)' = Key(delivery)
    BY <1>1, <1>3, <1>6 DEF AcquiredDelivery, SameRevision, Key
  <2>2. delivery.window # "closed"
    <3>1. CASE delivery.state \in {"none", "reconciled_not_sent"}
      BY <3>1 DEF KeyInv, RecordCoversKey
    <3>2. CASE delivery.state \in UnresolvedStates
      BY <1>6, <3>2 DEF Claim, ClaimAcquires, Locked, Unresolved, NeedsReview
    <3>3. CASE delivery.state \in {"failed", "provider_accepted"}
      BY <1>6, <3>3 DEF Claim, ClaimAcquires, AlreadyAccepted, StartsNewGeneration
    <3> QED BY <1>2, <3>1, <3>2, <3>3 DEF DeliveryStates
  <2>3. delivery.payload \in {NoPayload, quote.payload}
    BY <1>6 DEF Claim, ClaimAcquires, PayloadChanged
  <2> QED BY <1>3, <2>1, <2>2, <2>3
<1> QED BY <1>4, <1>5, <1>6

\* A claim starts a key nobody used, or goes on with the text of the key.
LEMMA ClaimKeys ==
  ASSUME TypeInv, TypeInv', KeyInv, NEW i \in Invocations, Claim(i)
  PROVE  KeyInv'
<1>1. /\ delivery'.rev = quote.rev /\ delivery'.payload = quote.payload
      /\ delivery'.state = "sending" /\ delivery'.window # "none"
      /\ \/ delivery.rev < quote.rev
         \/ delivery.rev = quote.rev /\ delivery'.gen = delivery.gen + 1
         \/ /\ Key(delivery)' = Key(delivery)
            /\ delivery.window # "closed"
            /\ delivery.payload \in {NoPayload, quote.payload}
  BY ClaimForms
<1>2. /\ UNCHANGED <<quote, mail, remembered>>
      /\ \A j \in Invocations \ {i} : call'[j] = call[j]
      /\ call'[i].pc = "send" /\ call'[i].rev = delivery'.rev
      /\ call'[i].gen = delivery'.gen /\ call'[i].payload = delivery'.payload
  BY <1>1 DEF Claim, TypeInv, TypeOK
<1>3. /\ delivery.rev \in Nat /\ quote.rev \in Nat
      /\ delivery.gen \in Nat /\ delivery'.gen \in Nat
      /\ quote.payload \in Payloads
  BY DEF TypeInv, TypeOK, Records, Quotes
<1>4. /\ \A m \in mail : m.rev \in Nat /\ m.gen \in Nat /\ m.payload \in Payloads
      /\ \A j \in Invocations : call[j].rev \in Nat /\ call[j].gen \in Nat
      /\ \A j \in Invocations : Sending(j) => call[j].payload \in Payloads
  BY DEF TypeInv, TypeOK, Mails, Calls, OutcomeKnown
<1>5. \A r, g, r2, g2 : [rev |-> r, gen |-> g] = [rev |-> r2, gen |-> g2] => r = r2 /\ g = g2
  OBVIOUS
<1>6. \A m \in mail :
        Key(m) = Key(delivery)' => /\ Key(m) = Key(delivery)
                                   /\ m.payload = quote.payload
                                   /\ Key(m) \in remembered
  <2> SUFFICES ASSUME NEW m \in mail, Key(m) = Key(delivery)'
               PROVE  /\ Key(m) = Key(delivery)
                      /\ m.payload = quote.payload
                      /\ Key(m) \in remembered
    OBVIOUS
  <2>1. m.rev = delivery'.rev /\ m.gen = delivery'.gen
    BY <1>5 DEF Key
  <2>2. /\ Key(delivery)' = Key(delivery) /\ delivery.window # "closed"
        /\ delivery.payload \in {NoPayload, quote.payload}
    BY <1>1, <1>3, <1>4, <2>1 DEF KeyInv, KeysAreOld
  <2>3. m.payload = delivery.payload /\ Key(m) \in remembered
    BY <2>2 DEF KeyInv, RecordCoversKey
  <2> QED BY <1>4, <2>2, <2>3, NoPayloadAssumption
<1>7. \A j \in Invocations :
        Sending(j) /\ Key(call[j]) = Key(delivery)' => call[j].payload = quote.payload
  <2> SUFFICES ASSUME NEW j \in Invocations, Sending(j), Key(call[j]) = Key(delivery)'
               PROVE  call[j].payload = quote.payload
    OBVIOUS
  <2>1. call[j].rev = delivery'.rev /\ call[j].gen = delivery'.gen
    BY <1>5 DEF Key
  <2>2. /\ Key(delivery)' = Key(delivery)
        /\ delivery.payload \in {NoPayload, quote.payload}
    BY <1>1, <1>3, <1>4, <2>1 DEF KeyInv, KeysAreOld
  <2>3. call[j].payload = delivery.payload
    BY <2>2 DEF KeyInv, RecordCoversKey
  <2> QED BY <1>4, <2>2, <2>3, NoPayloadAssumption
<1>8. Key(call[i])' = Key(delivery)'
  BY <1>2 DEF Key
<1>9. OneMailPerKey'
  BY <1>1, <1>2, <1>6, <1>8 DEF KeyInv, OneMailPerKey, Key
<1>10. KeysAreOld'
  <2>1. delivery'.rev <= quote'.rev
    BY <1>1, <1>2, <1>3
  <2>2. \A r, g \in Nat : r <= delivery.rev /\ (r = delivery.rev => g <= delivery.gen)
          => r <= delivery'.rev /\ (r = delivery'.rev => g <= delivery'.gen)
    BY <1>1, <1>3 DEF Key
  <2>3. \A m \in mail : m.rev <= delivery'.rev /\ (m.rev = delivery'.rev => m.gen <= delivery'.gen)
    BY <1>4, <2>2 DEF KeyInv, KeysAreOld
  <2>4. \A j \in Invocations : Sending(j)' =>
          /\ call'[j].rev <= delivery'.rev
          /\ call'[j].rev = delivery'.rev => call'[j].gen <= delivery'.gen
    BY <1>1, <1>2, <1>3, <1>4, <2>2 DEF KeyInv, KeysAreOld, Sending
  <2> QED BY <1>2, <2>1, <2>3, <2>4 DEF KeysAreOld
<1>11. RecordCoversKey'
  <2>1. delivery'.state \notin {"none", "reconciled_not_sent"}
    BY <1>1
  <2>2. \A j \in Invocations :
          Sending(j)' /\ Key(call[j])' = Key(delivery)' => call'[j].payload = delivery'.payload
    BY <1>1, <1>2, <1>7 DEF Key, Sending
  <2> QED BY <1>1, <1>2, <1>6, <2>1, <2>2 DEF RecordCoversKey, Key
<1>12. RequestsAgree'
  <2>1. \A j \in Invocations :
          Sending(j)' /\ Key(call[j])' = Key(call[i])' => call'[j].payload = call'[i].payload
    BY <1>1, <1>2, <1>7, <1>8 DEF Key, Sending
  <2>2. \A j, k \in Invocations :
          Sending(j)' /\ Sending(k)' /\ Key(call[j])' = Key(call[k])'
            => call'[j].payload = call'[k].payload
    BY <1>2, <2>1 DEF Key, Sending, KeyInv, RequestsAgree
  <2>3. \A m \in mail, j \in Invocations :
          Sending(j)' /\ Key(call[j])' = Key(m) => Key(m) \in remembered
    BY <1>2, <1>6, <1>8 DEF Key, Sending, KeyInv, RequestsAgree
  <2> QED BY <1>2, <2>2, <2>3 DEF RequestsAgree, Key
<1> QED BY <1>9, <1>10, <1>11, <1>12 DEF KeyInv

\* A request that the provider takes is the first of its key, or no new mail.
LEMMA SendKeys ==
  ASSUME TypeInv, TypeInv', KeyInv, NEW i \in Invocations, Send(i)
  PROVE  KeyInv'
<1>1. /\ UNCHANGED <<quote, delivery>> /\ Sending(i) /\ ~Sending(i)'
      /\ \A j \in Invocations \ {i} : call'[j] = call[j]
  <2>1. Leaves(i)
    BY CallLeaves DEF Send
  <2> QED BY <2>1 DEF Leaves, Send, Sending
<1>2. CASE UNCHANGED <<mail, remembered>>
  <2>1. RecordFields
    BY <1>1 DEF RecordFields
  <2>2. NoNewRequest
    BY <1>1 DEF NoNewRequest, Sending
  <2>3. quote.rev <= quote'.rev
    BY <1>1 DEF TypeInv, TypeOK, Quotes
  <2> QED BY <1>2, <2>1, <2>2, <2>3, KeyKept
<1>3. CASE ProviderAccepts(i) /\ ~UNCHANGED <<mail, remembered>>
  <2> DEFINE k == Key(call[i])
             n == [rev |-> k.rev, gen |-> k.gen, payload |-> call[i].payload, by |-> i]
  <2>1. k \notin remembered \/ mail' = mail
    BY <1>3 DEF ProviderAccepts
  <2>2. k \notin remembered /\ mail' = mail \cup {n} /\ remembered' = remembered \cup {k}
    BY <1>3 DEF ProviderAccepts
  <2>3. Key(n) = k /\ n.payload = call[i].payload /\ n.rev = call[i].rev /\ n.gen = call[i].gen
    BY DEF Key
  <2>4. \A m \in mail : Key(m) # k
    BY <1>1, <2>2 DEF KeyInv, RequestsAgree
  <2>5. OneMailPerKey'
    BY <1>1, <2>2, <2>3, <2>4 DEF KeyInv, OneMailPerKey, RequestsAgree, Sending, Key
  <2>6. KeysAreOld'
    BY <1>1, <2>2, <2>3 DEF KeyInv, KeysAreOld, Sending
  <2>7. RecordCoversKey'
    BY <1>1, <2>2, <2>3 DEF KeyInv, RecordCoversKey, Sending, Key
  <2>8. RequestsAgree'
    BY <1>1, <2>2, <2>3 DEF KeyInv, RequestsAgree, Sending, Key
  <2> QED BY <2>5, <2>6, <2>7, <2>8 DEF KeyInv
<1> QED BY <1>2, <1>3 DEF Send

\* A generation confirmed as not sent is followed by a key nobody used.
LEMMA NotSentKeys ==
  ASSUME TypeInv, KeyInv, ConfirmNotSent
  PROVE  KeyInv'
<1>1. /\ UNCHANGED <<quote, mail, remembered, call>>
      /\ delivery'.rev = delivery.rev /\ delivery'.gen = delivery.gen + 1
      /\ delivery'.state = "reconciled_not_sent" /\ delivery'.window = "none"
      /\ delivery'.payload = NoPayload
  BY DEF ConfirmNotSent, ReconciledNotSent, MayConfirmNotSent, MayReconcile, Locked,
         SameRevision
<1>2. delivery.rev \in Nat /\ delivery.gen \in Nat /\ delivery'.gen > delivery.gen
  BY <1>1 DEF TypeInv, TypeOK, Records
<1>3. /\ \A m \in mail : m.gen \in Nat
      /\ \A i \in Invocations : call[i].gen \in Nat
  BY DEF TypeInv, TypeOK, Mails, Calls
<1>4. KeysAreOld'
  BY <1>1, <1>2, <1>3 DEF KeyInv, KeysAreOld, Sending
<1>5. \A m \in mail : ~(m.rev = delivery'.rev /\ m.gen = delivery'.gen)
  BY <1>1, <1>2, <1>3 DEF KeyInv, KeysAreOld
<1>6. \A i \in Invocations :
        Sending(i) => ~(call[i].rev = delivery'.rev /\ call[i].gen = delivery'.gen)
  BY <1>1, <1>2, <1>3 DEF KeyInv, KeysAreOld
<1>7. RecordCoversKey'
  BY <1>1, <1>5, <1>6 DEF RecordCoversKey, Key, Sending
<1>8. OneMailPerKey' /\ RequestsAgree'
  BY <1>1 DEF KeyInv, OneMailPerKey, RequestsAgree, Key, Sending
<1> QED BY <1>4, <1>7, <1>8 DEF KeyInv

\* The provider forgets a key when no request of it is under way.
LEMMA ForgottenKeys ==
  ASSUME KeyInv, KeyForgotten
  PROVE  KeyInv'
<1>1. /\ UNCHANGED <<quote, delivery, mail, call>>
      /\ delivery.window = "closed" /\ remembered' = remembered \ {Key(delivery)}
      /\ \A i \in Invocations : Sending(i) => Key(call[i]) # Key(delivery)
  BY DEF KeyForgotten, Sending
<1>2. OneMailPerKey' /\ KeysAreOld'
  BY <1>1 DEF KeyInv, OneMailPerKey, KeysAreOld, Key, Sending
<1>3. RecordCoversKey'
  BY <1>1 DEF KeyInv, RecordCoversKey, Key, Sending
<1>4. RequestsAgree'
  BY <1>1 DEF KeyInv, RequestsAgree, Key, Sending
<1> QED BY <1>2, <1>3, <1>4 DEF KeyInv

\* The steps that use no new key.
LEMMA OtherKeys ==
  ASSUME TypeInv, TypeInv', KeyInv,
         \/ \E i \in Invocations : Complete(i) \/ RecordOutcome(i) \/ Die(i)
         \/ ClaimForReview \/ ConfirmAccepted \/ Editing \/ Paying
         \/ PortalLapses \/ LeaseEnds \/ WindowCloses
         \/ UNCHANGED vars
  PROVE  KeyInv'
<1>1. quote \in Quotes /\ quote.rev \in Nat /\ delivery \in Records
      /\ call \in [Invocations -> Calls]
  BY DEF TypeInv, TypeOK, Quotes
<1>2. CASE \E i \in Invocations : Complete(i) \/ RecordOutcome(i) \/ Die(i)
  <2>1. PICK i \in Invocations : Complete(i) \/ RecordOutcome(i) \/ Die(i)
    BY <1>2
  <2>2. UNCHANGED <<mail, remembered>>
    BY <2>1 DEF Complete, RecordOutcome, Die
  <2>3. NoNewRequest
    <3>1. Leaves(i)
      BY <2>1, CallLeaves DEF Complete, CompleteFails, RecordOutcome, Die
    <3> QED BY <3>1 DEF NoNewRequest, Leaves, Sending
  <2>4. quote.rev <= quote'.rev
    BY <1>1, <2>1 DEF Complete, RecordOutcome, Die, Quotes
  <2>5. RecordFields
    <3>1. CASE delivery' = delivery
      BY <3>1 DEF RecordFields
    <3>2. CASE delivery' = DeliverySuccess(call[i].msg) /\ OwnsRecord(i)
      BY <1>1, <3>2 DEF RecordFields, DeliverySuccess, OwnsRecord, Records
    <3>3. CASE delivery' = AttemptFailure(call[i].err, call[i].msg) /\ OwnsRecord(i)
               /\ call[i].pc = "record"
      <4>1. call[i].err \in {"definite", "ambiguous", "manual_review"}
        BY <1>1, <3>3 DEF TypeInv, OutcomeKnown, Calls, Errors
      <4>2. delivery'.state \in {"failed", "outcome_ambiguous", "outcome_unknown"}
        BY <1>1, <3>3, <4>1 DEF AttemptFailure, Records
      <4>3. /\ UNCHANGED <<delivery.rev, delivery.gen, delivery.payload, delivery.window>>
            /\ delivery.state = "sending"
        BY <1>1, <3>3 DEF AttemptFailure, OwnsRecord, Records
      <4> QED BY <4>2, <4>3 DEF RecordFields
    <3> QED BY <2>1, <3>1, <3>2, <3>3 DEF Complete, RecordOutcome, Die
  <2> QED BY <2>2, <2>3, <2>4, <2>5, KeyKept
<1>3. CASE ClaimForReview
  <2>1. UNCHANGED <<quote, mail, remembered, call>> /\ delivery' = ManualReview
    BY <1>3 DEF ClaimForReview
  <2>2. delivery.state \notin {"none", "reconciled_not_sent"}
    <3>1. CASE Unresolved(delivery)
      BY <3>1 DEF Unresolved, UnresolvedStates
    <3>2. CASE PayloadChanged(quote.payload) \/ PayloadChanged(delivery.payload)
      BY <3>2 DEF PayloadChanged, KeyInv, RecordCoversKey
    <3> QED BY <1>3, <3>1, <3>2 DEF ClaimForReview, ClaimReviews, Locked
  <2>3. RecordFields
    BY <1>1, <2>1, <2>2 DEF RecordFields, ManualReview, Records
  <2>4. NoNewRequest /\ quote.rev <= quote'.rev
    BY <1>1, <2>1 DEF NoNewRequest, Sending
  <2> QED BY <2>1, <2>3, <2>4, KeyKept
<1>4. CASE ConfirmAccepted
  <2>1. PICK m \in mail : delivery' = [DeliverySuccess(m.by) EXCEPT !.active = portal.valid]
    BY <1>4 DEF ConfirmAccepted, MailsUnder
  <2>2. Unresolved(delivery)
    BY <1>4 DEF ConfirmAccepted, MayConfirmAccepted, MayReconcile, Locked
  <2>3. RecordFields
    BY <1>1, <2>1, <2>2 DEF RecordFields, DeliverySuccess, Records, Unresolved,
                            UnresolvedStates
  <2>4. NoNewRequest /\ quote.rev <= quote'.rev /\ UNCHANGED <<mail, remembered>>
    BY <1>1, <1>4 DEF ConfirmAccepted, NoNewRequest, Sending, Quotes
  <2> QED BY <2>3, <2>4, KeyKept
<1>5. CASE Editing
  <2>1. UNCHANGED <<delivery, mail, remembered, call>> /\ quote.rev <= quote'.rev
    BY <1>1, <1>5, EditingForms, ReissueRevision, StatusRevision DEF Reissue, SetStatus
  <2>2. RecordFields /\ NoNewRequest
    BY <2>1 DEF RecordFields, NoNewRequest, Sending
  <2> QED BY <2>1, <2>2, KeyKept
<1>6. CASE Paying \/ PortalLapses \/ UNCHANGED vars
  <2>1. UNCHANGED <<delivery, mail, remembered, call>> /\ quote.rev <= quote'.rev
    <3>1. UNCHANGED <<delivery, mail, remembered, call>>
      BY <1>6 DEF Paying, BeginPayment, EndPayment, ChangePayload, PortalLapses, vars
    <3>2. quote'.rev = quote.rev
      BY <1>6, OtherRevision DEF Ticking, vars
    <3> QED BY <1>1, <3>1, <3>2
  <2>2. RecordFields /\ NoNewRequest
    BY <2>1 DEF RecordFields, NoNewRequest, Sending
  <2> QED BY <2>1, <2>2, KeyKept
<1>7. CASE LeaseEnds \/ WindowCloses
  <2>1. UNCHANGED <<quote, mail, remembered, call>>
    BY <1>7 DEF LeaseEnds, WindowCloses
  <2>2. RecordFields
    BY <1>1, <1>7 DEF RecordFields, LeaseEnds, WindowCloses, Records
  <2>3. NoNewRequest /\ quote.rev <= quote'.rev
    BY <1>1, <2>1 DEF NoNewRequest, Sending
  <2> QED BY <2>1, <2>2, <2>3, KeyKept
<1> QED BY <1>2, <1>3, <1>4, <1>5, <1>6, <1>7

\* Every step keeps one mail per key.
LEMMA StepKeys == TypeInv /\ KeyInv /\ [Next]_vars => KeyInv'
<1> SUFFICES ASSUME TypeInv, KeyInv, [Next]_vars PROVE KeyInv'
  OBVIOUS
<1>1. TypeInv'
  BY StepType
<1> QED BY <1>1, StepCases, ClaimKeys, SendKeys, NotSentKeys, ForgottenKeys, OtherKeys
        DEF Working, Ticking

-----------------------------------------------------------------------------
(* The portal.                                                              *)

LEMMA InitPortal == Init => PortalInv
<1> SUFFICES ASSUME Init PROVE PortalInv
  OBVIOUS
<1>1. quote.rev = 1 /\ quote.paying = FALSE
  BY DEF Init
<1>2. portal.shows = 0 /\ \A i \in Invocations : call[i].pc = "idle"
  BY DEF Init, NotCalled
<1> QED BY <1>1, <1>2 DEF PortalInv, PortalShowsWhatWasSent, PaymentFollowsDelivery,
                          CompletionHasMail

\* Once its acceptance is recorded, a delivery is rewritten only by a claim of
\* another revision.
LEMMA FinalStep ==
  ASSUME TypeInv, delivery.state = "provider_accepted", [Next]_vars
  PROVE  \/ delivery' = [delivery EXCEPT !.window = delivery'.window]
         \/ ~SameRevision /\ delivery'.rev = quote.rev
<1> DEFINE Goal == \/ delivery' = [delivery EXCEPT !.window = delivery'.window]
                   \/ ~SameRevision /\ delivery'.rev = quote.rev
<1>1. delivery \in Records
  BY DEF TypeInv, TypeOK
<1>2. delivery' = delivery => Goal
  BY <1>1 DEF Records
<1>3. ~Unresolved(delivery) /\ ~Locked /\ ~LeaseActive(delivery)
      /\ (\A p : ~ClaimReviews(p)) /\ ~MayReconcile
  <2>1. ~Unresolved(delivery) /\ ~LeaseActive(delivery)
    BY DEF Unresolved, UnresolvedStates, LeaseActive
  <2>2. \A p : ~PayloadChanged(p)
    BY DEF PayloadChanged, AlreadyAccepted
  <2> QED BY <2>1, <2>2 DEF Locked, ClaimReviews, MayReconcile
<1>4. ASSUME NEW i \in Invocations, Working(i) PROVE Goal
  <2>1. CASE Claim(i)
    BY <2>1 DEF Claim, ClaimAcquires, AcquiredDelivery, AlreadyAccepted
  <2>2. CASE Send(i) \/ Die(i)
    BY <1>2, <2>2 DEF Send, Die
  <2>3. CASE Complete(i) \/ RecordOutcome(i)
    BY <1>2, <2>3 DEF Complete, RecordOutcome, OwnsRecord
  <2> QED BY <1>4, <2>1, <2>2, <2>3 DEF Working
<1>5. ~ClaimForReview /\ ~ConfirmNotSent /\ ~ConfirmAccepted
  BY <1>3 DEF ClaimForReview, ConfirmNotSent, ConfirmAccepted, MayConfirmNotSent,
              MayConfirmAccepted
<1>6. CASE Editing
  BY <1>2, <1>6, EditingForms, ReissueRevision, StatusRevision
<1>7. CASE Paying \/ Ticking
  <2>1. CASE WindowCloses
    BY <1>1, <2>1 DEF WindowCloses, Records
  <2>2. CASE ~WindowCloses
    BY <1>2, <1>3, <1>7, <2>2 DEF Paying, Ticking, BeginPayment, EndPayment,
                ChangePayload, PortalLapses, LeaseEnds, KeyForgotten
  <2> QED BY <2>1, <2>2
<1>8. CASE UNCHANGED vars
  BY <1>2, <1>8 DEF vars
<1> QED BY <1>4, <1>5, <1>6, <1>7, <1>8, StepCases

\* An invocation completes what the provider answered.
LEMMA CompletionStep ==
  ASSUME TypeInv, CompletionHasMail, [Next]_vars
  PROVE  CompletionHasMail'
<1>1. mail \subseteq mail'
  <2>1. CASE \E i \in Invocations : Working(i)
    BY <2>1 DEF Working, Claim, Send, ProviderAccepts, Complete, RecordOutcome, Die
  <2>2. CASE ClaimForReview \/ ConfirmNotSent \/ ConfirmAccepted \/ UNCHANGED vars
    BY <2>2 DEF ClaimForReview, ConfirmNotSent, ConfirmAccepted, vars
  <2>3. CASE Editing
    BY <2>3, EditingForms, ReissueRevision, StatusRevision
  <2>4. CASE Paying \/ Ticking
    BY <2>4, OtherRevision
  <2> QED BY <2>1, <2>2, <2>3, <2>4, StepCases
<1>2. ASSUME NEW i \in Invocations, call'[i] = call[i] \/ call'[i].pc # "complete"
      PROVE  call'[i].pc = "complete" => \E m \in mail' : m.rev = call'[i].rev
  BY <1>1, <1>2 DEF CompletionHasMail
<1>3. CASE \E i \in Invocations : Working(i)
  <2>1. PICK i \in Invocations : Working(i)
    BY <1>3
  <2>2. call \in [Invocations -> Calls] /\ call[i] \in Calls
    BY DEF TypeInv, TypeOK
  <2>3. \A j \in Invocations \ {i} : call'[j] = call[j]
    <3>1. CASE Claim(i)
      BY <2>2, <3>1 DEF Claim
    <3>2. CASE ~Claim(i)
      BY <2>1, <3>2, CallLeaves DEF Working, Send, Complete, CompleteFails, RecordOutcome,
                                    Die, Leaves
    <3> QED BY <3>1, <3>2
  <2>4. call'[i].pc = "complete" => \E m \in mail' : m.rev = call'[i].rev
    <3>1. CASE \E m \in mail' : /\ Key(m) = Key(call[i])
                                /\ call' = [call EXCEPT ![i].pc = "complete", ![i].msg = m.by]
      <4>1. PICK m \in mail' : /\ Key(m) = Key(call[i])
                               /\ call' = [call EXCEPT ![i].pc = "complete", ![i].msg = m.by]
        BY <3>1
      <4>2. m.rev = call[i].rev
        BY <4>1 DEF Key
      <4>3. call'[i].rev = call[i].rev
        BY <2>2, <4>1 DEF Calls
      <4> QED BY <4>2, <4>3
    <3>2. CASE /\ \A m \in mail' : ~ /\ Key(m) = Key(call[i])
                                     /\ call' = [call EXCEPT ![i].pc = "complete",
                                                             ![i].msg = m.by]
      <4>1. CASE Claim(i)
        BY <2>2, <4>1 DEF Claim
      <4>2. CASE call' = [call EXCEPT ![i].pc = "done"]
        BY <2>2, <4>2 DEF Calls
      <4>3. ASSUME NEW err, call' = [call EXCEPT ![i].pc = "record", ![i].err = err]
            PROVE  call'[i].pc # "complete"
        BY <2>2, <4>3 DEF Calls
      <4> QED BY <2>1, <3>2, <4>1, <4>2, <4>3
              DEF Working, Send, Complete, CompleteFails, RecordOutcome, Die
    <3> QED BY <3>1, <3>2
  <2> QED BY <1>2, <2>3, <2>4 DEF CompletionHasMail
<1>4. CASE ClaimForReview \/ ConfirmNotSent \/ ConfirmAccepted \/ UNCHANGED vars
  BY <1>2, <1>4 DEF ClaimForReview, ConfirmNotSent, ConfirmAccepted, vars, CompletionHasMail
<1>5. CASE Editing
  BY <1>2, <1>5, EditingForms, ReissueRevision, StatusRevision DEF CompletionHasMail
<1>6. CASE Paying \/ Ticking
  BY <1>2, <1>6, OtherRevision DEF CompletionHasMail
<1> QED BY <1>3, <1>4, <1>5, <1>6, StepCases

\* While the acceptance of the current issuance stands, no step shows another
\* one, and a payment request can only begin.
LEMMA AcceptedStep ==
  ASSUME IInv, AlreadyAccepted, [Next]_vars
  PROVE  PortalShowsWhatWasSent' /\ PaymentFollowsDelivery' /\ quote'.rev # 0
<1>1. /\ TypeInv /\ delivery.state = "provider_accepted" /\ SameRevision
      /\ PortalShowsWhatWasSent /\ PaymentFollowsDelivery /\ quote.rev # 0
  BY DEF IInv, PortalInv, AlreadyAccepted
<1>2. delivery' = [delivery EXCEPT !.window = delivery'.window]
  BY <1>1, FinalStep
<1>3. delivery \in Records /\ portal \in Portals /\ quote \in Quotes
  BY <1>1 DEF TypeInv, TypeOK
<1>4. /\ delivery'.state = delivery.state /\ delivery'.rev = delivery.rev
      /\ delivery'.active = delivery.active
  BY <1>2, <1>3 DEF Records
<1>5. ASSUME quote'.rev = quote.rev, portal'.shows = portal.shows, mail \subseteq mail',
             quote'.paying => quote.paying \/ PortalActivated
      PROVE  PortalShowsWhatWasSent' /\ PaymentFollowsDelivery' /\ quote'.rev # 0
  <2>1. AlreadyAccepted'
    BY <1>1, <1>4, <1>5 DEF AlreadyAccepted, SameRevision
  <2>2. PortalShowsWhatWasSent'
    BY <1>1, <1>4, <1>5 DEF PortalShowsWhatWasSent, SameRevision
  <2>3. PaymentFollowsDelivery'
    BY <1>1, <1>5, <2>1 DEF PaymentFollowsDelivery, PortalActivated
  <2> QED BY <1>1, <1>5, <2>2, <2>3
<1>6. ASSUME UNCHANGED <<quote, portal>>, mail \subseteq mail'
      PROVE  PortalShowsWhatWasSent' /\ PaymentFollowsDelivery' /\ quote'.rev # 0
  BY <1>5, <1>6
<1>7. CASE \E i \in Invocations : Working(i)
  <2>1. PICK i \in Invocations : Working(i)
    BY <1>7
  <2>2. UNCHANGED <<quote, portal>>
    BY <1>1, <2>1 DEF Working, Claim, Send, Complete, OwnsRecord, RecordOutcome, Die
  <2>3. mail \subseteq mail'
    BY <2>1 DEF Working, Claim, Send, ProviderAccepts, Complete, RecordOutcome, Die
  <2> QED BY <1>6, <2>2, <2>3
<1>8. CASE ClaimForReview \/ UNCHANGED vars
  BY <1>6, <1>8 DEF ClaimForReview, vars
<1>9. ~ConfirmNotSent /\ ~ConfirmAccepted
  BY <1>1 DEF ConfirmNotSent, ConfirmAccepted, MayConfirmNotSent, MayConfirmAccepted,
              MayReconcile, Locked, Unresolved, UnresolvedStates
<1>10. CASE Editing
  <2>1. CASE \E status \in Statuses, p \in Payloads : Reissue(status, p)
    BY <1>1, <2>1, ReissueRevision DEF PortalShowsWhatWasSent, PaymentFollowsDelivery
  <2>2. CASE \E status \in Statuses : SetStatus(status)
    BY <1>1, <1>5, <2>2, StatusRevision
  <2> QED BY <1>1, <1>10, <2>1, <2>2, EditingForms
<1>11. CASE Paying \/ Ticking
  BY <1>1, <1>5, <1>11, OtherRevision
<1> QED BY <1>7, <1>8, <1>9, <1>10, <1>11, StepCases

\* Without an acceptance the portal shows nothing, until the step that records
\* one.
LEMMA NotAcceptedStep ==
  ASSUME IInv, ~AlreadyAccepted, [Next]_vars
  PROVE  PortalShowsWhatWasSent' /\ PaymentFollowsDelivery' /\ quote'.rev # 0
<1>1. TypeInv /\ portal.shows = 0 /\ ~quote.paying /\ quote.rev # 0
  BY DEF IInv, PortalInv, AlreadyAccepted, PortalShowsWhatWasSent, PaymentFollowsDelivery
<1>2. delivery \in Records /\ portal \in Portals /\ quote \in Quotes
  BY <1>1 DEF TypeInv, TypeOK
<1>3. ASSUME portal'.shows = 0, ~quote'.paying, quote'.rev # 0
      PROVE  PortalShowsWhatWasSent' /\ PaymentFollowsDelivery' /\ quote'.rev # 0
  BY <1>3 DEF PortalShowsWhatWasSent, PaymentFollowsDelivery
<1>4. ASSUME quote' = [quote EXCEPT !.status = SentStatus(@)], SameRevision,
             delivery'.rev = delivery.rev, delivery'.state = "provider_accepted",
             portal'.shows # 0 => portal'.shows = quote.rev /\ delivery'.active,
             \E m \in mail' : m.rev = quote.rev
      PROVE  PortalShowsWhatWasSent' /\ PaymentFollowsDelivery' /\ quote'.rev # 0
  <2>1. quote'.rev = quote.rev /\ ~quote'.paying
    BY <1>1, <1>2, <1>4 DEF Quotes
  <2>2. PortalShowsWhatWasSent'
    BY <1>4, <2>1 DEF PortalShowsWhatWasSent, SameRevision
  <2> QED BY <1>1, <2>1, <2>2 DEF PaymentFollowsDelivery
<1>5. CASE \E i \in Invocations : Working(i)
  <2>1. PICK i \in Invocations : Working(i)
    BY <1>5
  <2>2. CASE UNCHANGED <<quote, portal>>
    BY <1>1, <1>3, <2>2
  <2>3. CASE /\ call[i].pc = "complete" /\ quote.rev = call[i].rev /\ OwnsRecord(i)
             /\ delivery' = DeliverySuccess(call[i].msg)
             /\ quote' = [quote EXCEPT !.status = SentStatus(@)]
             /\ portal' = [portal EXCEPT !.shows = quote.rev]
             /\ mail' = mail
    <3>1. SameRevision
      BY <2>3 DEF OwnsRecord, SameRevision
    <3>2. /\ delivery'.rev = delivery.rev /\ delivery'.state = "provider_accepted"
          /\ delivery'.active
      BY <1>2, <2>3 DEF DeliverySuccess, Records
    <3>3. portal'.shows = quote.rev
      BY <1>2, <2>3 DEF Portals
    <3>4. \E m \in mail' : m.rev = quote.rev
      BY <2>3 DEF IInv, PortalInv, CompletionHasMail
    <3> QED BY <1>4, <2>3, <3>1, <3>2, <3>3, <3>4
  <2> QED BY <2>1, <2>2, <2>3 DEF Working, Claim, Send, Complete, RecordOutcome, Die
<1>6. CASE ClaimForReview \/ ConfirmNotSent \/ UNCHANGED vars
  BY <1>1, <1>3, <1>6 DEF ClaimForReview, ConfirmNotSent, vars
<1>7. CASE ConfirmAccepted
  <2>1. PICK m \in MailsUnder(Key(delivery)) :
          /\ MayConfirmAccepted(m.by)
          /\ delivery' = [DeliverySuccess(m.by) EXCEPT !.active = portal.valid]
    BY <1>7 DEF ConfirmAccepted
  <2>2. SameRevision
    BY <2>1 DEF MayConfirmAccepted, MayReconcile, Locked
  <2>3. /\ delivery'.rev = delivery.rev /\ delivery'.state = "provider_accepted"
        /\ delivery'.active = portal.valid
    BY <1>2, <2>1 DEF DeliverySuccess, Records
  <2>4. portal'.shows # 0 => portal'.shows = quote.rev /\ portal.valid
    BY <1>1, <1>2, <1>7 DEF ConfirmAccepted, Portals
  <2>5. m \in mail' /\ m.rev = quote.rev
    BY <1>7, <2>1, <2>2 DEF ConfirmAccepted, MailsUnder, Key, SameRevision
  <2>6. quote' = [quote EXCEPT !.status = SentStatus(@)]
    BY <1>7 DEF ConfirmAccepted
  <2> QED BY <1>4, <2>2, <2>3, <2>4, <2>5, <2>6
<1>8. CASE Editing
  <2>1. CASE \E status \in Statuses, p \in Payloads : Reissue(status, p)
    BY <1>1, <1>3, <2>1, ReissueRevision
  <2>2. CASE \E status \in Statuses : SetStatus(status)
    BY <1>1, <1>3, <2>2, StatusRevision
  <2> QED BY <1>1, <1>8, <2>1, <2>2, EditingForms
<1>9. CASE Paying \/ Ticking
  <2>1. ~PortalActivated
    BY DEF PortalActivated, AlreadyAccepted
  <2> QED BY <1>1, <1>3, <1>9, <2>1, OtherRevision
<1> QED BY <1>5, <1>6, <1>7, <1>8, <1>9, StepCases

-----------------------------------------------------------------------------
(* Theorems.                                                                *)

LEMMA DeliveryInduction == Spec => []IInv
<1>1. Init => IInv
  BY InitType, InitKeys, InitPortal DEF IInv
<1>2. IInv /\ [Next]_vars => IInv'
  <2> SUFFICES ASSUME IInv, [Next]_vars PROVE IInv'
    OBVIOUS
  <2>1. TypeInv' /\ KeyInv'
    BY StepType, StepKeys DEF IInv
  <2>2. CompletionHasMail'
    BY CompletionStep DEF IInv, PortalInv
  <2>3. PortalShowsWhatWasSent' /\ PaymentFollowsDelivery' /\ quote'.rev # 0
    BY AcceptedStep, NotAcceptedStep
  <2> QED BY <2>1, <2>2, <2>3 DEF IInv, PortalInv
<1> QED BY <1>1, <1>2, PTL DEF Spec

\* The quote, its portal, the delivery record, the provider and the
\* invocations of sendQuoteToCustomer keep their types.
THEOREM DeliveryTypeCorrect == Spec => []TypeOK
<1>1. IInv => TypeOK
  BY DEF IInv, TypeInv
<1> QED BY <1>1, DeliveryInduction, PTL

\* However many invocations of sendQuoteToCustomer overlap, die and are
\* retried, the provider accepts one e-mail for each idempotency key.
THEOREM DeliveryOneMail == Spec => []OneMailPerKey
<1>1. IInv => OneMailPerKey
  BY DEF IInv, KeyInv
<1> QED BY <1>1, DeliveryInduction, PTL

\* The portal shows a quote only after the provider accepted the e-mail of
\* that very issuance.
THEOREM DeliveryPortal == Spec => []PortalShowsWhatWasSent
<1>1. IInv => PortalShowsWhatWasSent
  BY DEF IInv, PortalInv
<1> QED BY <1>1, DeliveryInduction, PTL

\* No edit, rotation or resend replaces the delivered issuance while a payment
\* request of the quote runs.
THEOREM DeliveryPayment == Spec => []PaymentFollowsDelivery
<1>1. IInv => PaymentFollowsDelivery
  BY DEF IInv, PortalInv
<1> QED BY <1>1, DeliveryInduction, PTL

\* A recorded acceptance is never rewritten for its revision.
THEOREM DeliveryAcceptance == Spec => AcceptanceIsFinal
<1>1. IInv /\ [Next]_vars =>
        [delivery.state = "provider_accepted" /\ delivery'.rev = delivery.rev
           => delivery' = [delivery EXCEPT !.window = delivery'.window]]_vars
  BY FinalStep DEF IInv, SameRevision
<1> QED BY <1>1, DeliveryInduction, PTL DEF Spec, AcceptanceIsFinal

=============================================================================
