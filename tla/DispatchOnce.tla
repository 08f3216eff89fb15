---------------------------- MODULE DispatchOnce ----------------------------
(***************************************************************************)
(* What a durable dispatch promises, whatever happens to the workers that  *)
(* carry it out: an item reaches the provider at most once, it is recorded *)
(* as accepted only if the provider has it and as failed only if it never  *)
(* will, and an outcome that is neither stays unknown until evidence       *)
(* settles it.                                                             *)
(***************************************************************************)

EXTENDS Naturals

CONSTANT Items

VARIABLES phase,  \* what the record of an item says
          sent    \* how many times the provider took an item

vars == <<phase, sent>>

Phases == {"none", "waiting", "claimed", "accepted", "failed", "unknown"}

Init == phase = [i \in Items |-> "none"] /\ sent = [i \in Items |-> 0]

Move(i, from, to) == phase[i] \in from /\ phase' = [phase EXCEPT ![i] = to]

Reserve(i) == Move(i, {"none"}, "waiting") /\ UNCHANGED sent

Claim(i) == Move(i, {"waiting"}, "claimed") /\ UNCHANGED sent

Send(i) ==
  /\ phase[i] \in {"claimed", "unknown"} /\ sent[i] = 0
  /\ sent' = [sent EXCEPT ![i] = 1]
  /\ UNCHANGED phase

Accept(i) == sent[i] = 1 /\ Move(i, {"claimed", "unknown"}, "accepted") /\ UNCHANGED sent

Fail(i) == sent[i] = 0 /\ Move(i, {"waiting", "claimed"}, "failed") /\ UNCHANGED sent

Lose(i) == Move(i, {"claimed"}, "unknown") /\ UNCHANGED sent

Next == \E i \in Items :
          Reserve(i) \/ Claim(i) \/ Send(i) \/ Accept(i) \/ Fail(i) \/ Lose(i)

Spec == Init /\ [][Next]_vars

=============================================================================
