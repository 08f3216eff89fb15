----------------------------- MODULE DepositOnce -----------------------------
(***************************************************************************)
(* What everything that writes a payment record promises together: a       *)
(* deposit is on offer on one Stripe session at a time, a session that was *)
(* closed is never offered again, the deposit is taken at most once, on    *)
(* the session on offer, and the record is settled by that session.        *)
(* functions/index.js has no such component: PaymentRails is shown to      *)
(* implement this specification.                                           *)
(***************************************************************************)
CONSTANTS Sessions, NoSession

VARIABLES offer,     \* the session that is to take, or took, the deposit
          closed,    \* the sessions that can take nothing any more
          taken,     \* the sessions that took the deposit
          recorded   \* the session the settled deposit is recorded for

vars == <<offer, closed, taken, recorded>>

Init == offer = NoSession /\ closed = {} /\ taken = {} /\ recorded = NoSession

Offer(s) ==
  /\ offer = NoSession /\ s \notin closed
  /\ taken = {} /\ recorded = NoSession
  /\ offer' = s
  /\ UNCHANGED <<closed, taken, recorded>>

\* A session that took nothing is closed; if it was on offer, nothing is.
Close(s) ==
  /\ s \notin closed /\ s \notin taken
  /\ closed' = closed \cup {s}
  /\ offer' = IF offer = s THEN NoSession ELSE offer
  /\ UNCHANGED <<taken, recorded>>

Take ==
  /\ offer # NoSession /\ taken = {}
  /\ taken' = {offer}
  /\ UNCHANGED <<offer, closed, recorded>>

Record ==
  /\ recorded = NoSession /\ taken = {offer}
  /\ recorded' = offer
  /\ UNCHANGED <<offer, closed, taken>>

Next == (\E s \in Sessions : Offer(s) \/ Close(s)) \/ Take \/ Record

Spec == Init /\ [][Next]_vars

=============================================================================
