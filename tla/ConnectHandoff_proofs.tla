----------------------- MODULE ConnectHandoff_proofs -----------------------
(***************************************************************************)
(* Proofs about ConnectHandoff.  An attempt on which no clock has passed   *)
(* and that may hold a link is the one the organization names as active.   *)
(***************************************************************************)
EXTENDS ConnectHandoff, TLAPS

\* A replaced attempt has run out, an attempt about to be shown was issued, and
\* a link belongs to an attempt that was prepared.
Replaced ==
  \A h \in Requests :
    /\ handoff[h].state = "expired" => passed[h] # {}
    /\ visit[h] = "disclose" => handoff[h].state \in {"provider_issued", "expired"}
    /\ h \in link \/ visit[h] # "none" => handoff[h].state # "none"

\* No clock of the attempt has passed, and it has or may obtain a link.
Fresh(h) ==
  passed[h] = {} /\ handoff[h].state \in {"prepared", "consumed", "provider_issued"}

FreshIsActive == \A h \in Requests : Fresh(h) => org.active = h

IInv == TypeOK /\ ShownWasIssued /\ Replaced /\ FreshIsActive

LEMMA HandoffInit == Init => IInv
<1> SUFFICES ASSUME Init PROVE IInv
  OBVIOUS
<1> USE DEF Init, NoHandoff
<1>1. TypeOK
  BY DEF TypeOK, HandoffStates
<1>2. ShownWasIssued /\ Replaced
  BY DEF ShownWasIssued, Replaced
<1>3. FreshIsActive
  BY DEF FreshIsActive, Fresh
<1> QED BY <1>1, <1>2, <1>3 DEF IInv

\* The steps that leave every attempt as it was.
LEMMA EnvironmentStep ==
  ASSUME IInv,
         \/ \E usable \in BOOLEAN : StatusChanges(usable)
         \/ AuthorityChanges
         \/ \E h \in Requests, clock \in Clocks : ClockPasses(h, clock)
         \/ UNCHANGED vars
  PROVE  IInv'
<1>1. TypeOK
  BY DEF IInv
<1>2. CASE \E usable \in BOOLEAN : StatusChanges(usable)
  <2>0. PICK usable \in BOOLEAN : StatusChanges(usable)
    BY <1>2
  <2>1. org.revision \in Nat /\ org.revision + 1 \in Nat
    BY <1>1 DEF TypeOK
  <2>2. org' \in [revision : Nat, usable : BOOLEAN, active : Requests \cup {NoOne},
                  latest : Requests \cup {NoOne}]
    BY <1>1, <2>0, <2>1, Zenon DEF TypeOK, StatusChanges
  <2>3. TypeOK'
    BY <1>1, <2>0, <2>2 DEF TypeOK, StatusChanges
  <2>4. org'.active = org.active /\ org'.latest = org.latest
    BY <1>1, <2>0 DEF TypeOK, StatusChanges
  <2> QED BY <2>0, <2>3, <2>4 DEF IInv, StatusChanges, ShownWasIssued, Replaced, FreshIsActive, Fresh
<1>3. CASE AuthorityChanges
  <2>0. authority.rev \in Nat /\ authority.rev + 1 \in Nat
    BY <1>1 DEF TypeOK
  <2>1. authority' \in [rev : Nat, fresh : BOOLEAN]
    <3>1. CASE authority' = [rev |-> authority.rev + 1, fresh |-> TRUE]
      BY <2>0, <3>1
    <3>2. CASE authority' = [authority EXCEPT !.fresh = FALSE]
      BY <1>1, <3>2, Zenon DEF TypeOK
    <3> QED BY <1>3, <3>1, <3>2, Zenon DEF AuthorityChanges
  <2>2. TypeOK'
    BY <1>1, <1>3, <2>1 DEF TypeOK, AuthorityChanges
  <2> QED BY <1>3, <2>2 DEF IInv, AuthorityChanges, ShownWasIssued, Replaced, FreshIsActive, Fresh
<1>4. CASE \E h \in Requests, clock \in Clocks : ClockPasses(h, clock)
  <2>1. PICK h \in Requests, clock \in Clocks : ClockPasses(h, clock)
    BY <1>4
  <2>2. TypeOK' /\ passed' = [passed EXCEPT ![h] = @ \cup {clock}]
    BY <1>1, <2>1 DEF TypeOK, ClockPasses
  <2>3. \A k \in Requests : passed[k] \subseteq passed'[k]
    BY <1>1, <2>2 DEF TypeOK
  <2>4. ShownWasIssued' /\ Replaced'
    BY <2>1, <2>3 DEF IInv, ClockPasses, ShownWasIssued, Replaced
  <2>5. FreshIsActive'
    BY <2>1, <2>3 DEF IInv, ClockPasses, FreshIsActive, Fresh
  <2> QED BY <2>2, <2>4, <2>5 DEF IInv
<1>5. CASE UNCHANGED vars
  BY <1>5 DEF IInv, vars, TypeOK, ShownWasIssued, Replaced, FreshIsActive, Fresh
<1> QED BY <1>2, <1>3, <1>4, <1>5

\* A new attempt: the one it replaces is not live any more.
LEMMA PrepareStep ==
  ASSUME IInv, NEW h \in Requests, Prepare(h)
  PROVE  IInv'
<1> DEFINE active == org.active
           new == [state |-> "prepared", revision |-> org.revision, authority |-> authority.rev]
           replaced == IF active # NoOne /\ ~Settled(active)
                       THEN [handoff EXCEPT ![active].state = "expired"] ELSE handoff
<1>1. TypeOK /\ active \in Requests \cup {NoOne}
  BY DEF IInv, TypeOK
<1>2. /\ handoff[h].state = "none"
      /\ active # NoOne => Settled(active) \/ Over(active)
      /\ handoff' = [replaced EXCEPT ![h] = new]
      /\ org' = [org EXCEPT !.active = h]
      /\ UNCHANGED <<authority, link, visit, disclosed, passed>>
  BY DEF Prepare
<1>3. replaced \in [Requests -> [state : HandoffStates, revision : Nat, authority : Nat]]
  BY <1>1 DEF TypeOK, HandoffStates
<1>4. new \in [state : HandoffStates, revision : Nat, authority : Nat]
  BY <1>1 DEF TypeOK, HandoffStates
<1>5. TypeOK'
  BY <1>1, <1>2, <1>3, <1>4 DEF TypeOK
<1>6. /\ handoff'[h].state = "prepared"
      /\ \A k \in Requests \ {h} : \/ handoff'[k] = handoff[k] /\ (k = active => Settled(k))
                                   \/ /\ k = active /\ ~Settled(k) /\ Over(k)
                                      /\ handoff'[k].state = "expired"
  <2>1. handoff'[h].state = "prepared"
    BY <1>2, <1>3
  <2>2. \A k \in Requests \ {h} : handoff'[k] = replaced[k]
    BY <1>2, <1>3
  <2>3. \A k \in Requests : k # active \/ Settled(active) => replaced[k] = handoff[k]
    BY <1>1 DEF TypeOK
  <2>4. active \in Requests /\ ~Settled(active) => replaced[active].state = "expired"
    BY <1>1, NoOneAssumption DEF TypeOK
  <2>5. active \in Requests /\ ~Settled(active) => Over(active)
    BY <1>2, NoOneAssumption
  <2> HIDE DEF replaced
  <2> QED BY <2>1, <2>2, <2>3, <2>4, <2>5
<1>7. \A k \in Requests : Over(k) => passed[k] # {}
  BY DEF Over
<1>8. h \notin disclosed /\ visit[h] # "disclose" /\ org.latest # h
  BY <1>1, <1>2, NoOneAssumption DEF IInv, TypeOK, ShownWasIssued, Replaced
<1>9. org'.latest = org.latest /\ org'.active = h
  BY <1>1, <1>2 DEF TypeOK
<1>10. ShownWasIssued'
  BY <1>1, <1>2, <1>6, <1>8, <1>9 DEF IInv, TypeOK, ShownWasIssued
<1>11. Replaced'
  BY <1>2, <1>6, <1>7, <1>8 DEF IInv, Replaced
<1>12. FreshIsActive'
  <2> SUFFICES ASSUME NEW k \in Requests, k # h PROVE ~Fresh(k)'
    BY <1>9 DEF FreshIsActive
  <2>1. CASE handoff'[k] = handoff[k] /\ (k = active => Settled(k))
    <3>1. Fresh(k)' => Fresh(k)
      BY <1>2, <2>1 DEF Fresh
    <3>2. Fresh(k) => k = active
      BY DEF IInv, FreshIsActive
    <3>3. Fresh(k) => ~Settled(k)
      BY DEF IInv, Fresh, Settled, ShownWasIssued, Replaced
    <3> QED BY <2>1, <3>1, <3>2, <3>3
  <2>2. CASE Over(k)
    BY <1>2, <1>7, <2>2 DEF Fresh
  <2> QED BY <1>6, <2>1, <2>2
<1> QED BY <1>5, <1>10, <1>11, <1>12 DEF IInv

\* The steps of the request that consumed an attempt.
LEMMA VisitStep ==
  ASSUME IInv, NEW h \in Requests,
         Consume(h) \/ CreateLink(h) \/ Record(h) \/ Disclose(h) \/ Recover(h)
  PROVE  IInv'
<1>1. TypeOK
  BY DEF IInv
<1>2. CASE Consume(h)
  <2>1. TypeOK'
    BY <1>1, <1>2 DEF TypeOK, Consume, HandoffStates
  <2>2. \A k \in Requests : handoff'[k].state = IF k = h THEN "consumed" ELSE handoff[k].state
    BY <1>1, <1>2 DEF TypeOK, Consume
  <2>3. \A k \in Requests : visit'[k] = IF k = h THEN "call" ELSE visit[k]
    BY <1>1, <1>2 DEF TypeOK, Consume
  <2>4. ShownWasIssued' /\ Replaced'
    <3>1. handoff[h].state = "prepared" /\ UNCHANGED <<org, link, disclosed, passed>>
      BY <1>2 DEF Consume
    <3>2. ShownWasIssued'
      BY <1>1, <2>2, <3>1 DEF IInv, TypeOK, ShownWasIssued
    <3>3. Replaced'
      BY <2>2, <2>3, <3>1 DEF IInv, Replaced
    <3> QED BY <3>2, <3>3
  <2>5. FreshIsActive'
    BY <1>2, <2>2, <2>3 DEF IInv, Consume, FreshIsActive, Fresh
  <2> QED BY <2>1, <2>4, <2>5 DEF IInv
<1>3. CASE CreateLink(h) \/ Recover(h)
  <2>1. TypeOK' /\ UNCHANGED <<org, handoff, disclosed, passed>>
    BY <1>1, <1>3 DEF TypeOK, CreateLink, Recover
  <2>2. \A k \in Requests : visit'[k] = "disclose" => visit[k] = "disclose"
    BY <1>1, <1>3 DEF TypeOK, CreateLink, Recover
  <2>3. visit[h] # "none" /\ link' \subseteq link \cup {h}
        /\ \A k \in Requests \ {h} : visit'[k] = visit[k]
    BY <1>1, <1>3 DEF TypeOK, CreateLink, Recover
  <2>4. Replaced'
    BY <2>1, <2>2, <2>3 DEF IInv, Replaced
  <2> QED BY <2>1, <2>4 DEF IInv, ShownWasIssued, FreshIsActive, Fresh
<1>4. CASE Record(h)
  <2>1. Outcome(h) \in {"provider_issued", "provider_withheld"}
        /\ After(Outcome(h)) \in {"disclose", "done"}
    BY DEF Outcome, After
  <2>2. /\ handoff[h].state = "consumed"
        /\ handoff' = [handoff EXCEPT ![h].state = Outcome(h)]
        /\ visit' = [visit EXCEPT ![h] = After(Outcome(h))]
        /\ org' = IF Issuable(h) THEN [org EXCEPT !.latest = h] ELSE org
        /\ UNCHANGED <<authority, link, disclosed, passed>>
    BY <1>4 DEF Record
  <2>3. TypeOK'
    BY <1>1, <2>1, <2>2 DEF TypeOK, HandoffStates
  <2>4. \A k \in Requests : handoff'[k].state = IF k = h THEN Outcome(h) ELSE handoff[k].state
    BY <1>1, <2>2 DEF TypeOK
  <2>5. \A k \in Requests : visit'[k] = IF k = h THEN After(Outcome(h)) ELSE visit[k]
    BY <1>1, <2>2 DEF TypeOK
  <2>6. org'.active = org.active
        /\ org'.latest = IF Issuable(h) THEN h ELSE org.latest
    BY <1>1, <2>2 DEF TypeOK
  <2>7. Outcome(h) = "provider_issued" \/ ~Issuable(h)
    BY DEF Outcome
  <2>8. ShownWasIssued'
    BY <1>1, <2>2, <2>4, <2>6, <2>7, NoOneAssumption DEF IInv, TypeOK, ShownWasIssued
  <2>9. Replaced'
    BY <2>1, <2>2, <2>4, <2>5 DEF IInv, Replaced, After
  <2>10. FreshIsActive'
    BY <2>2, <2>4, <2>5, <2>6 DEF IInv, FreshIsActive, Fresh
  <2> QED BY <2>3, <2>8, <2>9, <2>10 DEF IInv
<1>5. CASE Disclose(h)
  <2>1. TypeOK'
    BY <1>1, <1>5 DEF TypeOK, Disclose
  <2>2. /\ visit[h] = "disclose"
        /\ disclosed' = disclosed \/ (disclosed' = disclosed \cup {h} /\ passed[h] = {})
        /\ UNCHANGED <<org, handoff, link, passed>>
    BY <1>5 DEF Disclose
  <2>3. \A k \in Requests : visit'[k] = IF k = h THEN "done" ELSE visit[k]
    BY <1>1, <1>5 DEF TypeOK, Disclose
  <2>4. handoff[h].state \in {"provider_issued", "expired"}
    BY <2>2 DEF IInv, Replaced
  <2>5. ShownWasIssued' /\ Replaced'
    BY <2>2, <2>3, <2>4 DEF IInv, ShownWasIssued, Replaced
  <2>6. FreshIsActive'
    BY <2>2, <2>3, <2>4 DEF IInv, FreshIsActive, Fresh, Replaced
  <2> QED BY <2>1, <2>5, <2>6 DEF IInv
<1> QED BY <1>2, <1>3, <1>4, <1>5

LEMMA HandoffStep == IInv /\ [Next]_vars => IInv'
  BY EnvironmentStep, PrepareStep, VisitStep DEF Next

(* The records of the hand-off keep their types.                            *)
THEOREM HandoffTypeCorrect == Spec => []TypeOK
<1>1. IInv => TypeOK
  BY DEF IInv
<1> QED BY <1>1, HandoffInit, HandoffStep, PTL DEF Spec

(* However requests, clocks, status and authority interleave, a link that    *)
(* Stripe honours is the active attempt's until its ten minutes have passed: *)
(* no second attempt is begun beside it (onboardingHandoff.js:275,           *)
(* connectControlRepository.js:1079, 1128, 1172).                            *)
THEOREM HandoffUsableIsActive == Spec => []UsableIsActive
<1>1. IInv => UsableIsActive
  <2> SUFFICES ASSUME IInv, NEW h \in Requests, Usable(h), "local" \notin passed[h]
               PROVE  org.active = h
    BY DEF UsableIsActive
  <2>1. passed[h] = {}
    BY DEF IInv, TypeOK, Usable, Clocks
  <2>2. handoff[h].state \in {"prepared", "consumed", "provider_issued"}
    BY <2>1 DEF IInv, TypeOK, HandoffStates, Replaced, Usable
  <2> QED BY <2>1, <2>2 DEF IInv, FreshIsActive, Fresh
<1> QED BY <1>1, HandoffInit, HandoffStep, PTL DEF Spec

(* A link that was withheld is never shown.                                 *)
THEOREM HandoffShown == Spec => []ShownWasIssued
<1>1. IInv => ShownWasIssued
  BY DEF IInv
<1> QED BY <1>1, HandoffInit, HandoffStep, PTL DEF Spec

=============================================================================
