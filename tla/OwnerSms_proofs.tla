--------------------------- MODULE OwnerSms_proofs ---------------------------
(***************************************************************************)
(* Proofs about OwnerSms, for any number of alerts, diagnostics, triggers  *)
(* and configurations.  Two arguments carry them.  The documents that      *)
(* follow the attempts are right because a write either reserves a new     *)
(* attempt or changes one that is unresolved.  A message leaves once       *)
(* because the invocation about to send holds the lease of an attempt that *)
(* no evidence can settle before it answers.                               *)
(***************************************************************************)
EXTENDS OwnerSms, TLAPS

-----------------------------------------------------------------------------
(* What every step does to the attempts and the documents that follow them. *)

\* A new reservation; a diagnostic finds the lock free.
Reserves(n) ==
  /\ ~Exists(n)
  /\ n \in Diagnostics => (testLock # NoOne => ~Unresolved(testLock))
  /\ \E c \in Configs : Reserve(n, c)

\* A change of an attempt that is open.
Changes(n) ==
  /\ Unresolved(n)
  /\ \E a \in Attempts : /\ a.state # "none" /\ a.reserved = attempt[n].reserved
                         /\ WriteAttempt(n, a)

Recorded ==
  \/ UNCHANGED <<attempt, summary, testLock>>
  \/ \E n \in Notifications : Reserves(n) \/ Changes(n)

LockFollows == \A d \in Diagnostics : Unresolved(d) => testLock = d

AttemptsTyped ==
  /\ attempt \in [Notifications -> Attempts]
  /\ summary \in [of : Notifications \cup {NoOne}, state : AttemptStates]
  /\ testLock \in Diagnostics \cup {NoOne}

RecordInv == AttemptsTyped /\ SummaryIsLatest /\ LockFollows

LEMMA NoOneElse == NoOne \notin Notifications /\ NoOne \notin Diagnostics
  BY NoOneAssumption DEF Notifications

LEMMA OpenExists == \A n \in Notifications : Unresolved(n) => Exists(n)
  BY DEF Unresolved, Exists

\* The state document after a write of an attempt that is new or keeps its
\* place in the order of reservations.
LEMMA SummaryWrite ==
  ASSUME AttemptsTyped, SummaryIsLatest, NEW n \in Notifications, NEW a \in Attempts,
         a.state # "none", Exists(n) => a.reserved = attempt[n].reserved,
         WriteAttempt(n, a)
  PROVE  SummaryIsLatest'
<1>1. /\ \A m \in Notifications : attempt'[m] = IF m = n THEN a ELSE attempt[m]
      /\ summary' = IF Replaces(n, a.reserved) THEN [of |-> n, state |-> a.state] ELSE summary
  BY DEF WriteAttempt, AttemptsTyped
<1>2. \A m \in Notifications : Exists(m)' <=> (m = n \/ Exists(m))
  BY <1>1 DEF Exists
<1>3. a.reserved \in Nat /\ \A m \in Notifications : attempt[m].reserved \in Nat
  BY DEF AttemptsTyped, Attempts
<1>4. CASE \A m \in Notifications : ~Exists(m)
  <2>1. summary.of = NoOne
    BY <1>4 DEF SummaryIsLatest
  <2>2. summary' = [of |-> n, state |-> a.state]
    BY <1>1, <2>1 DEF Replaces
  <2>3. \A m \in Notifications : Exists(m)' => m = n
    BY <1>2, <1>4
  <2> QED BY <1>1, <1>2, <1>3, <2>2, <2>3 DEF SummaryIsLatest
<1>5. CASE \E m \in Notifications : Exists(m)
  <2> DEFINE s == summary.of
  <2>1. /\ s \in Notifications /\ Exists(s) /\ summary.state = attempt[s].state
        /\ \A m \in Notifications : Exists(m) => attempt[m].reserved <= attempt[s].reserved
    BY <1>5 DEF SummaryIsLatest
  <2>2. CASE s = n
    <3>1. summary' = [of |-> n, state |-> a.state]
      BY <1>1, <2>2 DEF Replaces
    <3>2. a.reserved = attempt[n].reserved
      BY <2>1, <2>2
    <3> QED BY <1>1, <1>2, <1>3, <2>1, <2>2, <3>1, <3>2 DEF SummaryIsLatest
  <2>3. CASE s # n /\ a.reserved > attempt[s].reserved
    <3>1. summary' = [of |-> n, state |-> a.state]
      BY <1>1, <2>3 DEF Replaces
    <3>2. \A m \in Notifications : Exists(m) => attempt[m].reserved <= a.reserved
      BY <1>3, <2>1, <2>3
    <3> QED BY <1>1, <1>2, <1>3, <3>1, <3>2 DEF SummaryIsLatest
  <2>4. CASE s # n /\ ~(a.reserved > attempt[s].reserved)
    <3>1. summary' = summary
      BY <1>1, <2>1, <2>4, NoOneElse DEF Replaces
    <3> QED BY <1>1, <1>2, <1>3, <2>1, <2>4, <3>1 DEF SummaryIsLatest
  <2> QED BY <2>2, <2>3, <2>4
<1> QED BY <1>4, <1>5

LEMMA WriteTypes ==
  ASSUME AttemptsTyped, NEW n \in Notifications, NEW a \in Attempts, WriteAttempt(n, a)
  PROVE  AttemptsTyped'
<1>1. attempt' \in [Notifications -> Attempts]
  BY DEF AttemptsTyped, WriteAttempt
<1>2. summary' \in [of : Notifications \cup {NoOne}, state : AttemptStates]
  BY DEF AttemptsTyped, WriteAttempt, Attempts
<1>3. testLock' \in Diagnostics \cup {NoOne}
  BY DEF AttemptsTyped, WriteAttempt
<1> QED BY <1>1, <1>2, <1>3 DEF AttemptsTyped

\* What a reservation writes.
LEMMA ReservedAttempt ==
  ASSUME NEW c \in Configs, NEW t \in 1 .. MaxTime
  PROVE  [NoAttempt EXCEPT !.state = "queued", !.phone = c.phone, !.reserved = t] \in Attempts
<1>1. NoAttempt \in Attempts
  BY DEF NoAttempt, Attempts, AttemptStates
<1>2. c.phone \in Phones /\ t \in Nat /\ "queued" \in AttemptStates
  BY TimeAssumption DEF Configs, AttemptStates
<1> QED BY <1>1, <1>2 DEF Attempts

LEMMA RecordedStep ==
  ASSUME RecordInv, Recorded
  PROVE  RecordInv'
<1>1. AttemptsTyped /\ SummaryIsLatest /\ LockFollows
  BY DEF RecordInv
<1>2. CASE UNCHANGED <<attempt, summary, testLock>>
  BY <1>1, <1>2 DEF RecordInv, AttemptsTyped, SummaryIsLatest, Exists, LockFollows, Unresolved
<1>3. ASSUME NEW n \in Notifications, Reserves(n) PROVE RecordInv'
  <2>1. PICK c \in Configs, t \in 1 .. MaxTime :
          WriteAttempt(n, [NoAttempt EXCEPT !.state = "queued", !.phone = c.phone,
                                            !.reserved = t])
    BY <1>3 DEF Reserves, Reserve
  <2> DEFINE a == [NoAttempt EXCEPT !.state = "queued", !.phone = c.phone, !.reserved = t]
  <2>2. a \in Attempts /\ a.state = "queued"
    BY ReservedAttempt DEF NoAttempt
  <2> HIDE DEF a
  <2>3. WriteAttempt(n, a)
    BY <2>1 DEF a
  <2>4. AttemptsTyped' /\ SummaryIsLatest'
    BY <1>1, <1>3, <2>2, <2>3, WriteTypes, SummaryWrite DEF Reserves
  <2>5. LockFollows'
    <3>1. \A m \in Notifications : attempt'[m] = IF m = n THEN a ELSE attempt[m]
      BY <1>1, <2>3 DEF WriteAttempt, AttemptsTyped
    <3>2. testLock' = IF n \in Diagnostics THEN n ELSE testLock
      BY <2>3 DEF WriteAttempt
    <3>3. n \in Diagnostics => \A d \in Diagnostics : ~Unresolved(d)
      BY <1>1, <1>3, NoOneElse DEF Reserves, LockFollows
    <3> QED BY <1>1, <3>1, <3>2, <3>3 DEF LockFollows, Unresolved, Notifications
  <2> QED BY <2>4, <2>5 DEF RecordInv
<1>4. ASSUME NEW n \in Notifications, Changes(n) PROVE RecordInv'
  <2>1. PICK a \in Attempts : /\ a.state # "none" /\ a.reserved = attempt[n].reserved
                              /\ WriteAttempt(n, a)
    BY <1>4 DEF Changes
  <2>2. AttemptsTyped' /\ SummaryIsLatest'
    BY <1>1, <2>1, WriteTypes, SummaryWrite
  <2>3. LockFollows'
    <3>1. \A m \in Notifications : attempt'[m] = IF m = n THEN a ELSE attempt[m]
      BY <1>1, <2>1 DEF WriteAttempt, AttemptsTyped
    <3>2. testLock' = IF n \in Diagnostics THEN n ELSE testLock
      BY <2>1 DEF WriteAttempt
    <3>3. n \in Diagnostics => \A d \in Diagnostics : Unresolved(d) => d = n
      BY <1>1, <1>4 DEF Changes, LockFollows
    <3> QED BY <1>1, <3>1, <3>2, <3>3 DEF LockFollows, Unresolved, Notifications
  <2> QED BY <2>2, <2>3 DEF RecordInv
<1> QED BY <1>2, <1>3, <1>4 DEF Recorded

-----------------------------------------------------------------------------
(* The dispatch.                                                            *)

\* The provider has a message at most once, and an outcome is recorded only
\* when it is true.
SentOnce ==
  \A n \in Notifications :
    /\ sms[n] \in {0, 1}
    /\ attempt[n].state \in {"none", "queued", "definite_failure"} => sms[n] = 0
    /\ attempt[n].state \in {"provider_accepted", "delivered", "failed"} => sms[n] = 1
    /\ attempt[n].state \in {"queued", "dispatching"} => ~attempt[n].tracked
    /\ \A f \in Fates : receipt[n][f] # "none" => sms[n] = 1

\* The attempt an invocation has claimed: dispatching, or given up as uncertain
\* without the tracking id that evidence would need.
OnDispatch(n, w) ==
  /\ attempt[n].lease = w
  /\ \/ attempt[n].state = "dispatching"
     \/ attempt[n].state = "uncertain" /\ ~attempt[n].tracked

Holder(w) ==
  LET n == worker[w].item
  IN  /\ worker[w].pc \in {"reserve", "close"} => n \in Alerts
      /\ worker[w].pc = "reserve" => worker[w].config \in Configs
      /\ worker[w].pc = "send" => n \in Notifications /\ OnDispatch(n, w) /\ sms[n] = 0
      /\ worker[w].pc = "finish" =>
           /\ n \in Notifications /\ OnDispatch(n, w)
           /\ worker[w].result = "accepted" => sms[n] = 1
           /\ worker[w].result = "rejected" => sms[n] = 0

Holders == \A w \in Workers : Holder(w)

\* A configuration that a delivered diagnostic was sent with.
Proven(c) ==
  \E d \in Diagnostics :
    attempt[d].state = "delivered" /\ sms[d] > 0 /\ attempt[d].config = c

Leaving == {"dispatching", "provider_accepted", "uncertain", "delivered", "failed"}

Proofs ==
  /\ ready # NoOne => Proven(ready)
  /\ \A a \in Alerts : attempt[a].state \in Leaving => Proven(attempt[a].config)

IInv == TypeOK /\ RecordInv /\ SentOnce /\ Holders /\ Proofs

LEMMA SmsInit == Init => IInv
<1> SUFFICES ASSUME Init PROVE IInv
  OBVIOUS
<1>1. NoAttempt \in Attempts /\ NoAttempt.state = "none" /\ ~NoAttempt.tracked
  BY DEF NoAttempt, Attempts, AttemptStates
<1>2. Idle \in Memories /\ Idle.pc = "idle"
  BY DEF Idle, Memories, Outcomes
<1>3. /\ attempt = [n \in Notifications |-> NoAttempt]
      /\ sms = [n \in Notifications |-> 0]
      /\ worker = [w \in Workers |-> Idle]
      /\ outbox = [a \in Alerts |-> [state |-> "none", lease |-> NoOne]]
      /\ receipt = [n \in Notifications |-> [f \in Fates |-> "none"]]
      /\ summary = [of |-> NoOne, state |-> "none"]
      /\ testLock = NoOne /\ suppressed = FALSE /\ ready = NoOne /\ bound = {}
  BY DEF Init
<1> HIDE DEF Init
<1>4. AttemptsTyped
  BY <1>1, <1>3 DEF AttemptsTyped, AttemptStates
<1>5. TypeOK
  BY <1>2, <1>3, <1>4 DEF TypeOK, AttemptsTyped, OutboxStates, ReceiptStates
<1>6. \A n \in Notifications : attempt[n].state = "none" /\ ~Exists(n) /\ ~Unresolved(n)
  BY <1>1, <1>3 DEF Exists, Unresolved
<1>7. SummaryIsLatest
  BY <1>3, <1>6 DEF SummaryIsLatest
<1>8. LockFollows
  BY <1>6 DEF LockFollows, Notifications
<1>9. SentOnce
  BY <1>3, <1>6 DEF SentOnce
<1>10. Holders
  BY <1>2, <1>3 DEF Holders, Holder
<1>11. Proofs
  BY <1>3, <1>6 DEF Proofs, Leaving, Notifications
<1> QED BY <1>4, <1>5, <1>7, <1>8, <1>9, <1>10, <1>11 DEF IInv, RecordInv

LEMMA IInvTypes ==
  ASSUME IInv
  PROVE  /\ attempt \in [Notifications -> Attempts]
         /\ outbox \in [Alerts -> [state : OutboxStates, lease : Workers \cup {NoOne}]]
         /\ suppressed \in BOOLEAN /\ ready \in Configs \cup {NoOne}
         /\ bound \subseteq Notifications
         /\ receipt \in [Notifications -> [Fates -> ReceiptStates]]
         /\ sms \in [Notifications -> Nat]
         /\ worker \in [Workers -> Memories]
         /\ Alerts \subseteq Notifications /\ Diagnostics \subseteq Notifications
  BY DEF IInv, TypeOK, Notifications

\* The types of the step, given those of the attempts from RecordedStep.
LEMMA TypesFrom ==
  ASSUME RecordInv',
         outbox' \in [Alerts -> [state : OutboxStates, lease : Workers \cup {NoOne}]],
         suppressed' \in BOOLEAN, ready' \in Configs \cup {NoOne},
         bound' \subseteq Notifications,
         receipt' \in [Notifications -> [Fates -> ReceiptStates]],
         sms' \in [Notifications -> Nat],
         worker' \in [Workers -> Memories]
  PROVE  TypeOK'
  BY DEF TypeOK, RecordInv, AttemptsTyped

\* Invocations remember what their type allows.
LEMMA MemoryUpdate ==
  ASSUME NEW m \in Memories, NEW pc \in {"close", "finish"}, NEW result \in Outcomes
  PROVE  /\ [m EXCEPT !.pc = pc, !.result = result] \in Memories
         /\ [m EXCEPT !.pc = pc, !.result = result].pc = pc
         /\ [m EXCEPT !.pc = pc, !.result = result].item = m.item
  BY DEF Memories

\* An invocation that does not act keeps the attempt it holds.
LEMMA HolderKept ==
  ASSUME IInv, NEW v \in Workers, worker'[v] = worker[v],
         \A m \in Notifications : OnDispatch(m, v) => OnDispatch(m, v)' /\ sms'[m] = sms[m]
  PROVE  Holder(v)'
<1>1. Holder(v)
  BY DEF IInv, Holders
<1> QED BY <1>1 DEF Holder

LEMMA ProofsKept ==
  ASSUME IInv,
         \A d \in Diagnostics : attempt[d].state = "delivered" => attempt'[d] = attempt[d],
         \A d \in Diagnostics : sms[d] > 0 => sms'[d] > 0,
         \/ ready' = ready
         \/ \E d \in Diagnostics : /\ attempt'[d].state = "delivered" /\ sms'[d] > 0
                                 /\ attempt'[d].config = ready',
         \A a \in Alerts : attempt'[a].state \in Leaving =>
            \/ attempt[a].state \in Leaving /\ attempt'[a].config = attempt[a].config
            \/ attempt'[a].config = ready /\ ready # NoOne
  PROVE  Proofs'
<1>1. Proofs
  BY DEF IInv
<1>2. \A c : Proven(c) => \E d \in Diagnostics : /\ attempt'[d].state = "delivered"
                                                /\ sms'[d] > 0 /\ attempt'[d].config = c
  BY DEF Proven
<1>3. ready' # NoOne =>
        \E d \in Diagnostics : /\ attempt'[d].state = "delivered" /\ sms'[d] > 0
                              /\ attempt'[d].config = ready'
  BY <1>1, <1>2 DEF Proofs
<1>4. \A a \in Alerts : attempt'[a].state \in Leaving =>
        \E d \in Diagnostics : /\ attempt'[d].state = "delivered" /\ sms'[d] > 0
                              /\ attempt'[d].config = attempt'[a].config
  BY <1>1, <1>2 DEF Proofs
<1> QED BY <1>3, <1>4 DEF Proofs, Proven

\* The steps that write no attempt.
LEMMA QuietStep ==
  ASSUME IInv, UNCHANGED <<attempt, summary, testLock, ready, bound, sms>>,
         outbox' \in [Alerts -> [state : OutboxStates, lease : Workers \cup {NoOne}]],
         suppressed' \in BOOLEAN,
         receipt' \in [Notifications -> [Fates -> ReceiptStates]],
         \A n \in Notifications, f \in Fates :
           receipt'[n][f] # "none" => receipt[n][f] # "none" \/ sms[n] > 0,
         worker' \in [Workers -> Memories],
         \A w \in Workers : worker'[w] = worker[w] \/ Holder(w)'
  PROVE  IInv'
<1>1. RecordInv'
  BY RecordedStep DEF IInv, Recorded
<1>2. SentOnce'
  BY DEF IInv, SentOnce
<1>3. Holders'
  BY HolderKept DEF Holders, OnDispatch
<1>4. Proofs'
  BY ProofsKept
<1>5. TypeOK'
  BY <1>1, IInvTypes, TypesFrom
<1> QED BY <1>1, <1>2, <1>3, <1>4, <1>5 DEF IInv

LEMMA IdleMemory ==
  /\ Idle \in Memories /\ Idle.pc = "idle"
  /\ \A n \in Notifications, c \in Configs, pc \in {"reserve", "send"} :
       [Idle EXCEPT !.pc = pc, !.item = n, !.config = c] \in Memories
<1>1. Idle \in Memories /\ Idle.pc = "idle"
  BY DEF Idle, Memories, Outcomes
<1> QED BY <1>1 DEF Memories

LEMMA SetOutboxTypes ==
  ASSUME IInv, NEW a \in Alerts, NEW state \in OutboxStates,
         NEW lease \in Workers \cup {NoOne}, SetOutbox(a, state, lease)
  PROVE  outbox' \in [Alerts -> [state : OutboxStates, lease : Workers \cup {NoOne}]]
  BY IInvTypes DEF SetOutbox

LEMMA OutboxStep ==
  ASSUME IInv,
         \/ \E a \in Alerts : WriteAlert(a) \/ RecoverOutbox(a)
         \/ \E w \in Workers, c \in Configs, a \in Alerts : ClaimOutbox(w, a, c)
         \/ \E w \in Workers : CloseOutbox(w) \/ Die(w)
  PROVE  IInv'
<1>1. ASSUME NEW a \in Alerts, WriteAlert(a) \/ RecoverOutbox(a) PROVE IInv'
  <2>1. /\ "pending" \in OutboxStates
        /\ (IF Exists(a) THEN "attempt_reserved" ELSE "pending") \in OutboxStates
    BY DEF OutboxStates
  <2>2. outbox' \in [Alerts -> [state : OutboxStates, lease : Workers \cup {NoOne}]]
    BY <1>1, <2>1, SetOutboxTypes DEF WriteAlert, RecoverOutbox
  <2> QED BY <1>1, <2>2, IInvTypes, QuietStep DEF WriteAlert, RecoverOutbox
<1>2. ASSUME NEW w \in Workers, NEW c \in Configs, NEW a \in Alerts, ClaimOutbox(w, a, c)
      PROVE IInv'
  <2>1. outbox' \in [Alerts -> [state : OutboxStates, lease : Workers \cup {NoOne}]]
    BY <1>2, SetOutboxTypes DEF ClaimOutbox, OutboxStates
  <2> DEFINE r == [Idle EXCEPT !.pc = "reserve", !.item = a, !.config = c]
  <2>2. r \in Memories /\ r.pc = "reserve" /\ r.item = a /\ r.config = c
    BY IInvTypes, IdleMemory DEF Idle
  <2> HIDE DEF r
  <2>3. worker' = [worker EXCEPT ![w] = r]
    BY <1>2 DEF ClaimOutbox, r
  <2>4. worker' \in [Workers -> Memories]
        /\ \A v \in Workers : worker'[v] = IF v = w THEN r ELSE worker[v]
    BY <2>2, <2>3, IInvTypes
  <2>5. Holder(w)'
    BY <2>2, <2>4 DEF Holder
  <2> QED BY <1>2, <2>1, <2>4, <2>5, IInvTypes, QuietStep DEF ClaimOutbox
<1>3. ASSUME NEW w \in Workers, CloseOutbox(w) \/ Die(w) PROVE IInv'
  <2>1. worker' \in [Workers -> Memories]
        /\ \A v \in Workers : worker'[v] = IF v = w THEN Idle ELSE worker[v]
    BY <1>3, IInvTypes, IdleMemory DEF CloseOutbox, Die
  <2>2. Holder(w)'
    BY <2>1, IdleMemory DEF Holder
  <2>3. CASE CloseOutbox(w)
    <3>1. worker[w].item \in Alerts
      BY <2>3 DEF CloseOutbox, IInv, Holders, Holder
    <3>2. (IF worker[w].result = "queued" THEN "attempt_reserved" ELSE "not_queued")
            \in OutboxStates
      BY DEF OutboxStates
    <3>3. outbox' \in [Alerts -> [state : OutboxStates, lease : Workers \cup {NoOne}]]
      BY <2>3, <3>1, <3>2, SetOutboxTypes, IInvTypes DEF CloseOutbox
    <3> QED BY <2>1, <2>2, <2>3, <3>3, IInvTypes, QuietStep DEF CloseOutbox
  <2>4. CASE Die(w)
    BY <2>1, <2>2, <2>4, IInvTypes, QuietStep DEF Die
  <2> QED BY <1>3, <2>3, <2>4
<1> QED BY <1>1, <1>2, <1>3

\* A webhook that arrives.
LEMMA ReportStep ==
  ASSUME IInv, OptOut \/ \E n \in Notifications, f \in Fates : Report(n, f)
  PROVE  IInv'
<1>1. CASE OptOut
  BY <1>1, IInvTypes, QuietStep DEF OptOut
<1>2. ASSUME NEW n \in Notifications, NEW f \in Fates, Report(n, f) PROVE IInv'
  <2>1. sms[n] > 0 /\ UNCHANGED <<outbox, attempt, summary, testLock, ready, bound, sms, worker>>
    BY <1>2 DEF Report
  <2>2. suppressed' \in BOOLEAN
    BY <1>2, IInvTypes DEF Report, Conflict
  <2>3. receipt' \in [Notifications -> [Fates -> ReceiptStates]]
        /\ \A m \in Notifications : m # n => receipt'[m] = receipt[m]
    BY <1>2, IInvTypes DEF Report, Conflict, ReceiptStates
  <2> QED BY <2>1, <2>2, <2>3, IInvTypes, QuietStep
<1> QED BY <1>1, <1>2

\* The steps that write one attempt.
LEMMA WrittenStep ==
  ASSUME IInv, Recorded, NEW n \in Notifications,
         \A m \in Notifications : m # n => attempt'[m] = attempt[m],
         attempt[n].state # "delivered",
         UNCHANGED sms,
         outbox' \in [Alerts -> [state : OutboxStates, lease : Workers \cup {NoOne}]],
         suppressed' \in BOOLEAN, ready' \in Configs \cup {NoOne},
         bound' \subseteq Notifications,
         receipt' \in [Notifications -> [Fates -> ReceiptStates]],
         \A m \in Notifications, f \in Fates :
           receipt'[m][f] # "none" => receipt[m][f] # "none",
         \/ ready' = ready
         \/ \E d \in Diagnostics : /\ attempt'[d].state = "delivered" /\ sms'[d] > 0
                                 /\ attempt'[d].config = ready',
         attempt'[n].state \in {"none", "queued", "definite_failure"} => sms[n] = 0,
         attempt'[n].state \in {"provider_accepted", "delivered", "failed"} => sms[n] = 1,
         attempt'[n].state \in {"queued", "dispatching"} => ~attempt'[n].tracked,
         n \in Alerts /\ attempt'[n].state \in Leaving =>
            \/ attempt[n].state \in Leaving /\ attempt'[n].config = attempt[n].config
            \/ attempt'[n].config = ready /\ ready # NoOne,
         worker' \in [Workers -> Memories],
         \A v \in Workers : \/ worker'[v] = worker[v] /\ (OnDispatch(n, v) => OnDispatch(n, v)')
                            \/ Holder(v)'
  PROVE  IInv'
<1>1. RecordInv'
  BY RecordedStep DEF IInv
<1>2. TypeOK'
  BY <1>1, IInvTypes, TypesFrom
<1>3. SentOnce'
  BY DEF IInv, SentOnce
<1>4. Proofs'
  <2>1. \A d \in Diagnostics : attempt[d].state = "delivered" => attempt'[d] = attempt[d]
    BY IInvTypes
  <2>2. \A a \in Alerts : attempt'[a].state \in Leaving =>
            \/ attempt[a].state \in Leaving /\ attempt'[a].config = attempt[a].config
            \/ attempt'[a].config = ready /\ ready # NoOne
    BY IInvTypes
  <2> QED BY <2>1, <2>2, ProofsKept
<1>5. Holders'
  <2> SUFFICES ASSUME NEW v \in Workers, worker'[v] = worker[v],
                      OnDispatch(n, v) => OnDispatch(n, v)'
               PROVE  Holder(v)'
    BY DEF Holders
  <2>1. \A m \in Notifications : OnDispatch(m, v) => OnDispatch(m, v)'
    BY DEF OnDispatch
  <2> QED BY <2>1, HolderKept
<1> QED BY <1>1, <1>2, <1>3, <1>4, <1>5 DEF IInv

\* What the invariant says of one attempt.
LEMMA AttemptFacts ==
  ASSUME IInv, NEW n \in Notifications
  PROVE  /\ attempt[n] \in Attempts
         /\ sms[n] \in {0, 1}
         /\ attempt[n].state \in {"none", "queued", "definite_failure"} => sms[n] = 0
         /\ attempt[n].state \in {"provider_accepted", "delivered", "failed"} => sms[n] = 1
         /\ attempt[n].state \in {"queued", "dispatching"} => ~attempt[n].tracked
         /\ \A f \in Fates : receipt[n][f] # "none" => sms[n] = 1
  BY IInvTypes DEF IInv, SentOnce

LEMMA ReserveEffect ==
  ASSUME IInv, NEW n \in Notifications, Reserves(n)
  PROVE  /\ attempt[n].state = "none" /\ attempt'[n].state = "queued"
         /\ ~attempt'[n].tracked
         /\ \A m \in Notifications : m # n => attempt'[m] = attempt[m]
         /\ Recorded
<1>1. PICK c \in Configs, t \in 1 .. MaxTime :
        WriteAttempt(n, [NoAttempt EXCEPT !.state = "queued", !.phone = c.phone,
                                          !.reserved = t])
  BY DEF Reserves, Reserve
<1> DEFINE a == [NoAttempt EXCEPT !.state = "queued", !.phone = c.phone, !.reserved = t]
<1>2. a.state = "queued" /\ ~a.tracked
  BY DEF NoAttempt
<1> HIDE DEF a
<1>3. attempt' = [attempt EXCEPT ![n] = a]
  BY <1>1 DEF a, WriteAttempt
<1>4. attempt[n].state = "none"
  BY DEF Reserves, Exists
<1> QED BY <1>2, <1>3, <1>4, IInvTypes DEF Recorded

LEMMA ReserveStep ==
  ASSUME IInv,
         \/ \E w \in Workers : ReserveAlert(w)
         \/ \E d \in Diagnostics, c \in Configs : SendTest(d, c)
  PROVE  IInv'
<1>1. ASSUME NEW d \in Diagnostics, NEW c \in Configs, SendTest(d, c) PROVE IInv'
  <2>1. d \in Notifications /\ Reserves(d)
    BY <1>1, IInvTypes DEF SendTest, Reserves
  <2> HIDE DEF Leaving
  <2>2. "queued" \notin Leaving
    BY DEF Leaving
  <2>3. \A v \in Workers : ~OnDispatch(d, v)
    BY <2>1, ReserveEffect DEF OnDispatch
  <2> QED BY <1>1, <2>1, <2>2, <2>3, IInvTypes, ReserveEffect, AttemptFacts, WrittenStep
          DEF SendTest
<1>2. ASSUME NEW w \in Workers, ReserveAlert(w) PROVE IInv'
  <2> DEFINE n == worker[w].item
             c == worker[w].config
  <2>1. n \in Alerts /\ n \in Notifications /\ c \in Configs /\ n \notin Diagnostics
    BY <1>2, IInvTypes, NotificationsAssumption DEF ReserveAlert, IInv, Holders, Holder
  <2>2. PICK result \in {"queued", "refused"} :
          worker' = [worker EXCEPT ![w].pc = "close", ![w].result = result]
    BY <1>2 DEF ReserveAlert
  <2> DEFINE r == [worker[w] EXCEPT !.pc = "close", !.result = result]
  <2>3. r \in Memories /\ r.pc = "close" /\ r.item = n
    <3>1. worker[w] \in Memories /\ result \in Outcomes
      BY IInvTypes DEF Outcomes
    <3> QED BY <3>1, MemoryUpdate
  <2>4. worker' = [worker EXCEPT ![w] = r]
    BY <2>2, IInvTypes
  <2> HIDE DEF r, n, c
  <2>5. worker' \in [Workers -> Memories]
        /\ \A v \in Workers : worker'[v] = IF v = w THEN r ELSE worker[v]
    BY <2>3, <2>4, IInvTypes
  <2>6. Holder(w)'
    BY <2>1, <2>3, <2>5 DEF Holder
  <2>7. CASE UNCHANGED <<attempt, summary, testLock>>
    BY <1>2, <2>5, <2>6, <2>7, IInvTypes, QuietStep DEF ReserveAlert
  <2>8. CASE ~Exists(n) /\ Reserve(n, c)
    <3>1. Reserves(n)
      BY <2>1, <2>8 DEF Reserves
    <3>2. "queued" \notin Leaving
      BY DEF Leaving
    <3>3. \A v \in Workers : ~OnDispatch(n, v)
      BY <2>1, <3>1, ReserveEffect DEF OnDispatch
    <3> QED BY <1>2, <2>1, <2>5, <2>6, <3>1, <3>2, <3>3, IInvTypes, ReserveEffect,
               AttemptFacts, WrittenStep DEF ReserveAlert
  <2> QED BY <1>2, <2>7, <2>8 DEF ReserveAlert, n, c
<1> QED BY <1>1, <1>2

\* The forms of a changed attempt.
LEMMA ChangedForms ==
  ASSUME NEW a \in Attempts, NEW state \in AttemptStates
  PROVE  /\ [a EXCEPT !.state = state] \in Attempts
         /\ [a EXCEPT !.state = state].state = state
         /\ [a EXCEPT !.state = state].lease = a.lease
         /\ [a EXCEPT !.state = state].config = a.config
         /\ [a EXCEPT !.state = state].reserved = a.reserved
         /\ [a EXCEPT !.state = state].tracked = a.tracked
  BY DEF Attempts

LEMMA FailedForm ==
  ASSUME IInv, NEW n \in Notifications
  PROVE  LET a == [attempt[n] EXCEPT !.state = "definite_failure"]
         IN  a \in Attempts /\ a.state = "definite_failure" /\ a.reserved = attempt[n].reserved
<1>1. attempt[n] \in Attempts
  BY IInvTypes
<1>2. "definite_failure" \in AttemptStates
  BY DEF AttemptStates
<1> QED BY <1>1, <1>2, ChangedForms

LEMMA ChangeEffect ==
  ASSUME IInv, NEW n \in Notifications, Unresolved(n), NEW a \in Attempts,
         a.state # "none", a.reserved = attempt[n].reserved, WriteAttempt(n, a)
  PROVE  /\ Recorded
         /\ attempt'[n] = a
         /\ \A m \in Notifications : m # n => attempt'[m] = attempt[m]
<1>1. Changes(n)
  BY DEF Changes
<1> QED BY <1>1, IInvTypes DEF Recorded, WriteAttempt

\* Nobody is sending an attempt that waits or is settled.
LEMMA NotSending ==
  ASSUME NEW n, attempt[n].state \notin {"dispatching", "uncertain"}
  PROVE  \A v \in Workers : ~OnDispatch(n, v)
  BY DEF OnDispatch

LEMMA PreflightStep ==
  ASSUME IInv, NEW n \in Notifications, PreflightFails(n)
  PROVE  IInv'
<1> DEFINE a == [attempt[n] EXCEPT !.state = "definite_failure"]
<1>1. attempt[n].state = "queued" /\ Unresolved(n)
  BY DEF PreflightFails, Unresolved
<1>2. a \in Attempts /\ a.state = "definite_failure" /\ a.reserved = attempt[n].reserved
  BY FailedForm
<1>3. WriteAttempt(n, a) /\ UNCHANGED <<outbox, suppressed, ready, bound, receipt, sms, worker>>
  BY DEF PreflightFails
<1> HIDE DEF a
<1>4. "definite_failure" \notin Leaving
  BY DEF Leaving
<1> QED BY <1>1, <1>2, <1>3, <1>4, IInvTypes, ChangeEffect, NotSending, AttemptFacts, WrittenStep

LEMMA ClaimStep ==
  ASSUME IInv, NEW w \in Workers, NEW n \in Notifications, NEW c \in Configs,
         ClaimAttempt(w, n, c)
  PROVE  IInv'
<1> DEFINE a == [attempt[n] EXCEPT !.state = "dispatching", !.config = c, !.lease = w]
           r == [Idle EXCEPT !.pc = "send", !.item = n, !.config = c]
<1>1. attempt[n].state = "queued" /\ Unresolved(n)
  BY DEF ClaimAttempt, Claimable, Unresolved
<1>2. /\ a \in Attempts /\ a.state = "dispatching" /\ a.reserved = attempt[n].reserved
      /\ a.config = c /\ a.lease = w /\ a.tracked = attempt[n].tracked
  <2>1. attempt[n] \in Attempts
    BY IInvTypes
  <2>2. a \in Attempts
    BY <2>1 DEF AttemptStates, Attempts
  <2>3. a.state = "dispatching" /\ a.config = c /\ a.lease = w
    BY <2>1 DEF Attempts
  <2>4. a.reserved = attempt[n].reserved /\ a.tracked = attempt[n].tracked
    BY <2>1 DEF Attempts
  <2> QED BY <2>2, <2>3, <2>4
<1>3. r \in Memories /\ r.pc = "send" /\ r.item = n
  BY IdleMemory DEF Idle
<1>4. /\ WriteAttempt(n, a) /\ worker' = [worker EXCEPT ![w] = r] /\ worker[w].pc = "idle"
      /\ UNCHANGED <<outbox, suppressed, ready, bound, receipt, sms>>
  BY DEF ClaimAttempt
<1> HIDE DEF a, r
<1>5. worker' \in [Workers -> Memories]
      /\ \A v \in Workers : worker'[v] = IF v = w THEN r ELSE worker[v]
  BY <1>3, <1>4, IInvTypes
<1>6. Recorded /\ attempt'[n] = a /\ \A m \in Notifications : m # n => attempt'[m] = attempt[m]
  BY <1>1, <1>2, <1>4, ChangeEffect
<1>7. Holder(w)'
  BY <1>1, <1>2, <1>3, <1>4, <1>5, <1>6, AttemptFacts DEF Holder, OnDispatch
<1>8. n \in Alerts => ready = c /\ ready # NoOne
  BY NoOneAssumption DEF ClaimAttempt, Forbidden, ProvedExactly
<1> QED BY <1>1, <1>2, <1>4, <1>5, <1>6, <1>7, <1>8, IInvTypes, NotSending, AttemptFacts,
           WrittenStep

\* Pingram takes the message, or does not.
LEMMA SendStep ==
  ASSUME IInv, NEW w \in Workers, Send(w)
  PROVE  IInv'
<1>0. PICK n \in Notifications : n = worker[w].item
  BY DEF Send, IInv, Holders, Holder
<1>1. /\ OnDispatch(n, w) /\ sms[n] = 0 /\ worker[w].pc = "send"
      /\ UNCHANGED <<outbox, attempt, summary, testLock, suppressed, ready, bound, receipt>>
  BY <1>0 DEF Send, IInv, Holders, Holder
<1>2. PICK result \in Outcomes, tracked \in BOOLEAN :
        /\ worker' = [worker EXCEPT ![w].pc = "finish", ![w].result = result,
                                    ![w].tracked = tracked]
        /\ \/ sms' = [sms EXCEPT ![n] = 1] /\ result # "rejected"
           \/ sms' = sms /\ result # "accepted"
  <2>1. sms[n] + 1 = 1
    BY <1>1
  <2>2. TRUE \in BOOLEAN /\ FALSE \in BOOLEAN /\ {"accepted", "rejected", "indeterminate"} \subseteq Outcomes
    BY DEF Outcomes
  <2> QED BY <1>0, <2>1, <2>2, Zenon DEF Send
<1> DEFINE r == [worker[w] EXCEPT !.pc = "finish", !.result = result, !.tracked = tracked]
<1>3. r \in Memories /\ r.pc = "finish" /\ r.result = result /\ r.item = n
  <2>1. worker[w] \in Memories
    BY IInvTypes
  <2>2. CASE tracked = TRUE
    BY <1>0, <2>1, <2>2 DEF Memories
  <2>3. CASE tracked = FALSE
    BY <1>0, <2>1, <2>3 DEF Memories
  <2> QED BY <2>2, <2>3
<1>4. worker' = [worker EXCEPT ![w] = r]
  BY <1>2, IInvTypes
<1> HIDE DEF r
<1>5. worker' \in [Workers -> Memories]
      /\ \A v \in Workers : worker'[v] = IF v = w THEN r ELSE worker[v]
  BY <1>3, <1>4, IInvTypes
<1>6. sms' \in [Notifications -> Nat]
      /\ \A m \in Notifications : sms'[m] = sms[m] \/ (m = n /\ sms'[m] = 1)
  BY <1>1, <1>2, IInvTypes
<1>7. RecordInv'
  BY <1>1, RecordedStep DEF IInv, Recorded
<1>8. TypeOK'
  BY <1>1, <1>5, <1>6, <1>7, IInvTypes, TypesFrom
<1>9. SentOnce'
  <2>1. \A f \in Fates : receipt[n][f] = "none"
    BY <1>1, AttemptFacts
  <2> QED BY <1>1, <1>6, <2>1 DEF IInv, SentOnce, OnDispatch
<1>10. Proofs'
  BY <1>1, <1>6, IInvTypes, AttemptFacts, ProofsKept
<1>11. Holder(w)'
  <2>1. result = "accepted" => sms'[n] = 1
    BY <1>1, <1>2, IInvTypes
  <2>2. result = "rejected" => sms'[n] = 0
    BY <1>1, <1>2
  <2>3. OnDispatch(n, w)'
    BY <1>1 DEF OnDispatch
  <2> QED BY <1>1, <1>3, <1>5, <2>1, <2>2, <2>3 DEF Holder
<1>12. ASSUME NEW v \in Workers, v # w PROVE Holder(v)'
  <2>1. \A m \in Notifications : OnDispatch(m, v) => OnDispatch(m, v)' /\ m # n
    BY <1>1, <1>12 DEF OnDispatch
  <2> QED BY <1>5, <1>6, <1>12, <2>1, HolderKept
<1> QED BY <1>7, <1>8, <1>9, <1>10, <1>11, <1>12 DEF IInv, Holders

\* The end of a dispatch: what the lease's own worker, or the reconciler,
\* writes of an attempt that is dispatching.
LEMMA FinalizeEffect ==
  ASSUME IInv, NEW n \in Notifications, NEW lease, NEW result, NEW tracked \in BOOLEAN,
         attempt[n].state = "dispatching", attempt[n].lease = lease,
         Finalize(n, lease, result, tracked)
  PROVE  /\ Recorded
         /\ \A m \in Notifications : m # n => attempt'[m] = attempt[m]
         /\ attempt'[n].state = OutcomeState(result) /\ attempt'[n].tracked = tracked
         /\ attempt'[n].lease = lease /\ attempt'[n].config = attempt[n].config
         /\ bound' \subseteq Notifications
<1> DEFINE a == [attempt[n] EXCEPT !.state = OutcomeState(result), !.tracked = tracked]
<1>1. WriteAttempt(n, a) /\ bound' = IF tracked THEN bound \cup {n} ELSE bound
  BY DEF Finalize
<1>2. OutcomeState(result) \in AttemptStates /\ OutcomeState(result) # "none"
  BY DEF OutcomeState, AttemptStates
<1>3. attempt[n] \in Attempts
  BY IInvTypes
<1>4. /\ a \in Attempts /\ a.state = OutcomeState(result) /\ a.tracked = tracked
      /\ a.lease = attempt[n].lease /\ a.config = attempt[n].config
      /\ a.reserved = attempt[n].reserved
  <2>1. CASE tracked = TRUE
    BY <1>2, <1>3, <2>1 DEF Attempts
  <2>2. CASE tracked = FALSE
    BY <1>2, <1>3, <2>2 DEF Attempts
  <2> QED BY <2>1, <2>2
<1>5. Unresolved(n)
  BY DEF Unresolved
<1> HIDE DEF a
<1> QED BY <1>1, <1>2, <1>4, <1>5, IInvTypes, ChangeEffect

LEMMA FinishStep ==
  ASSUME IInv, NEW w \in Workers, Finish(w)
  PROVE  IInv'
<1> DEFINE n == worker[w].item
           result == worker[w].result
           tracked == worker[w].tracked
<1>1. /\ n \in Notifications /\ OnDispatch(n, w) /\ worker[w].pc = "finish"
      /\ result = "accepted" => sms[n] = 1
      /\ result = "rejected" => sms[n] = 0
  BY DEF Finish, IInv, Holders, Holder
<1>2. /\ Finalize(n, w, result, tracked)
      /\ worker' = [worker EXCEPT ![w] = Idle]
      /\ UNCHANGED <<outbox, suppressed, ready, receipt, sms>>
  BY DEF Finish
<1>3. tracked \in BOOLEAN
  BY IInvTypes DEF Memories
<1> HIDE DEF n, result, tracked
<1>4. worker' \in [Workers -> Memories]
      /\ \A v \in Workers : worker'[v] = IF v = w THEN Idle ELSE worker[v]
  BY <1>2, IInvTypes, IdleMemory
<1>5. Holder(w)'
  BY <1>4, IdleMemory DEF Holder
<1>6. CASE attempt[n].state # "dispatching"
  <2>1. UNCHANGED <<attempt, summary, testLock, bound>>
    BY <1>2, <1>6 DEF Finalize
  <2> QED BY <1>2, <1>4, <1>5, <2>1, IInvTypes, QuietStep
<1>7. CASE attempt[n].state = "dispatching"
  <2>1. attempt[n].lease = w /\ \A v \in Workers : v # w => ~OnDispatch(n, v)
    BY <1>1 DEF OnDispatch
  <2>2. /\ Recorded
        /\ \A m \in Notifications : m # n => attempt'[m] = attempt[m]
        /\ attempt'[n].state = OutcomeState(result)
        /\ attempt'[n].config = attempt[n].config
        /\ bound' \subseteq Notifications
    BY <1>1, <1>2, <1>3, <1>7, <2>1, FinalizeEffect
  <2>3. /\ OutcomeState(result) \in {"definite_failure", "provider_accepted", "uncertain"}
        /\ OutcomeState(result) = "definite_failure" => result = "rejected"
        /\ OutcomeState(result) = "provider_accepted" => result = "accepted"
    BY DEF OutcomeState
  <2>4. attempt[n].state \in Leaving
    BY <1>7 DEF Leaving
  <2> QED BY <1>1, <1>2, <1>4, <1>5, <1>7, <2>1, <2>2, <2>3, <2>4, IInvTypes, WrittenStep
<1> QED BY <1>6, <1>7

\* A stale dispatch is given up: its worker, if it lives, keeps its lease.
LEMMA RecoverStep ==
  ASSUME IInv, NEW n \in Notifications, RecoverDispatch(n)
  PROVE  IInv'
<1>1. /\ attempt[n].state = "dispatching" /\ ~attempt[n].tracked
      /\ Finalize(n, attempt[n].lease, "indeterminate", attempt[n].tracked)
      /\ UNCHANGED <<outbox, suppressed, ready, receipt, sms, worker>>
  BY AttemptFacts DEF RecoverDispatch
<1>2. attempt[n].tracked \in BOOLEAN
  BY IInvTypes DEF Attempts
<1>3. OutcomeState("indeterminate") = "uncertain"
  BY DEF OutcomeState
<1>4. /\ Recorded
      /\ \A m \in Notifications : m # n => attempt'[m] = attempt[m]
      /\ attempt'[n].state = "uncertain" /\ attempt'[n].tracked = attempt[n].tracked
      /\ attempt'[n].lease = attempt[n].lease /\ attempt'[n].config = attempt[n].config
      /\ bound' \subseteq Notifications
  BY <1>1, <1>2, <1>3, FinalizeEffect
<1>5. \A v \in Workers : OnDispatch(n, v) => OnDispatch(n, v)'
  BY <1>1, <1>4 DEF OnDispatch
<1>6. attempt[n].state \in Leaving
  BY <1>1 DEF Leaving
<1> QED BY <1>1, <1>4, <1>5, <1>6, IInvTypes, WrittenStep

\* A webhook that is processed.
LEMMA ProcessStep ==
  ASSUME IInv, NEW n \in Notifications, NEW fate \in Fates, ProcessSome(n, fate)
  PROVE  IInv'
<1>1. PICK c \in Configs : Process(n, fate, c)
  BY DEF ProcessSome
<1>2. /\ receipt[n][fate] # "none" /\ sms[n] = 1
      /\ UNCHANGED <<outbox, suppressed, bound, sms, worker>>
  BY <1>1, AttemptFacts DEF Process
<1>3. PICK state \in {"pending_binding", "requires_operator_review", "processed"} :
        SetReceipt(n, fate, state)
  BY <1>1 DEF Process
<1>4. /\ receipt' \in [Notifications -> [Fates -> ReceiptStates]]
      /\ \A m \in Notifications, f \in Fates :
           receipt'[m][f] # "none" => receipt[m][f] # "none"
  BY <1>2, <1>3, IInvTypes DEF SetReceipt, ReceiptStates
<1>5. CASE UNCHANGED <<attempt, summary, testLock, ready>>
  BY <1>2, <1>4, <1>5, IInvTypes, QuietStep
<1>6. CASE /\ TakesEvidence(n) /\ WriteAttempt(n, [attempt[n] EXCEPT !.state = fate])
           /\ ready' = IF n \in Diagnostics /\ fate = "delivered" /\ c.gen = attempt[n].config.gen
                       THEN Proof(n, c) ELSE ready
  <2> DEFINE a == [attempt[n] EXCEPT !.state = fate]
  <2>1. fate \in {"delivered", "failed"} /\ fate \in AttemptStates
    BY DEF Fates, AttemptStates
  <2>2. /\ a \in Attempts /\ a.state = fate /\ a.config = attempt[n].config
        /\ a.reserved = attempt[n].reserved
    BY <2>1, IInvTypes, ChangedForms
  <2> HIDE DEF a
  <2>3. /\ attempt[n].state \in {"provider_accepted", "uncertain"} /\ Unresolved(n)
        /\ \A v \in Workers : ~OnDispatch(n, v)
    BY <1>6 DEF TakesEvidence, Unresolved, OnDispatch
  <2>4. WriteAttempt(n, a)
    BY <1>6 DEF a
  <2>5. Recorded /\ attempt'[n] = a /\ \A m \in Notifications : m # n => attempt'[m] = attempt[m]
    BY <2>1, <2>2, <2>3, <2>4, ChangeEffect
  <2>6. /\ ready' \in Configs \cup {NoOne}
        /\ \/ ready' = ready
           \/ \E d \in Diagnostics : /\ attempt'[d].state = "delivered" /\ sms'[d] > 0
                                   /\ attempt'[d].config = ready'
    <3>1. CASE ready' = ready
      BY <3>1, IInvTypes
    <3>2. CASE n \in Diagnostics /\ fate = "delivered" /\ ready' = attempt[n].config
      <4>1. attempt[n].config \in Configs \cup {NoOne}
        BY IInvTypes DEF Attempts
      <4> QED BY <1>2, <2>2, <2>5, <3>2, <4>1
    <3> QED BY <1>6, <3>1, <3>2 DEF Proof
  <2>7. attempt[n].state \in Leaving
    BY <2>3 DEF Leaving
  <2> QED BY <1>2, <1>4, <2>1, <2>2, <2>3, <2>5, <2>6, <2>7, IInvTypes, WrittenStep
<1> QED BY <1>1, <1>5, <1>6 DEF Process

LEMMA SmsStep == IInv /\ [Next]_vars => IInv'
<1> SUFFICES ASSUME IInv, [Next]_vars PROVE IInv'
  OBVIOUS
<1>1. CASE UNCHANGED vars
  <2>1. UNCHANGED <<outbox, attempt, summary, testLock, suppressed, ready, bound, receipt, sms,
                    worker>>
    BY <1>1 DEF vars
  <2> QED BY <2>1, IInvTypes, QuietStep
<1>2. CASE \E w \in Workers : WorkerStep(w)
  BY <1>2, OutboxStep, ReserveStep, SendStep, FinishStep DEF WorkerStep
<1>3. CASE \E w \in Workers, c \in Configs :
             \/ \E a \in Alerts : ClaimOutbox(w, a, c)
             \/ \E n \in Notifications : ClaimAttempt(w, n, c)
  BY <1>3, OutboxStep, ClaimStep
<1>4. CASE \E n \in Notifications : PreflightFails(n) \/ RecoverDispatch(n)
  BY <1>4, PreflightStep, RecoverStep
<1>5. CASE \E n \in Notifications, f \in Fates : Report(n, f) \/ ProcessSome(n, f)
  BY <1>5, ReportStep, ProcessStep
<1> QED BY <1>1, <1>2, <1>3, <1>4, <1>5, OutboxStep, ReserveStep, ReportStep DEF Next

-----------------------------------------------------------------------------
(* Theorems.                                                                *)

(* The documents, the provider and the invocations keep their types.        *)
THEOREM SmsTypeCorrect == Spec => []TypeOK
<1>1. IInv => TypeOK
  BY DEF IInv
<1> QED BY <1>1, SmsInit, SmsStep, PTL DEF Spec

(* An alert leaves only with a configuration that a delivered diagnostic    *)
(* proved, for any number of deployments and invocations side by side       *)
(* (index.js claimOwnerSmsAttempt).                                         *)
THEOREM SmsAlertsAreProved == Spec => []AlertsAreProved
<1>1. IInv => AlertsAreProved
  <2> SUFFICES ASSUME IInv, NEW a \in Alerts, sms[a] > 0
               PROVE  Proven(attempt[a].config)
    BY DEF AlertsAreProved, Proven
  <2>1. attempt[a].state \in AttemptStates
    BY IInvTypes DEF Attempts
  <2>2. attempt[a].state \in Leaving
    BY <2>1, IInvTypes, AttemptFacts DEF Leaving, AttemptStates
  <2> QED BY <2>2 DEF IInv, Proofs
<1> QED BY <1>1, SmsInit, SmsStep, PTL DEF Spec

(* At most one diagnostic is open, for any number of them: the lock names   *)
(* every attempt that is unresolved (index.js sendIntegrationTestSms).      *)
THEOREM SmsOneOpenDiagnostic == Spec => []OneOpenDiagnostic
<1>1. IInv => OneOpenDiagnostic
  BY DEF IInv, RecordInv, LockFollows, OneOpenDiagnostic
<1> QED BY <1>1, SmsInit, SmsStep, PTL DEF Spec

(* The state document shows the latest reservation in whatever order        *)
(* attempts change (ownerSmsAttempts.js                                     *)
(* shouldReplaceOwnerSmsOrganizationState).                                 *)
THEOREM SmsSummaryIsLatest == Spec => []SummaryIsLatest
<1>1. IInv => SummaryIsLatest
  BY DEF IInv, RecordInv
<1> QED BY <1>1, SmsInit, SmsStep, PTL DEF Spec

-----------------------------------------------------------------------------
(* The refinement: every step of OwnerSms is a step of DispatchOnce or      *)
(* changes neither the phase of an attempt nor what the provider has.       *)

Promised == Dispatch!Next \/ UNCHANGED Dispatch!vars

LEMMA PhaseUnchanged ==
  ASSUME UNCHANGED sms, \A n \in Notifications : Phase(n)' = Phase(n)
  PROVE  Promised
<1>1. [n \in Notifications |-> Phase(n)]' = [n \in Notifications |-> Phase(n)]
  OBVIOUS
<1> QED BY <1>1 DEF Promised, Dispatch!vars

LEMMA PhaseMoves ==
  ASSUME NEW n \in Notifications, NEW from, NEW to, Phase(n) \in from, Phase(n)' = to,
         \A m \in Notifications : m # n => attempt'[m] = attempt[m]
  PROVE  Dispatch!Move(n, from, to)
<1>1. \A m \in Notifications : m # n => Phase(m)' = Phase(m)
  BY DEF Phase
<1>2. [m \in Notifications |-> Phase(m)]' = [[m \in Notifications |-> Phase(m)] EXCEPT ![n] = to]
  BY <1>1
<1> QED BY <1>2 DEF Dispatch!Move

LEMMA PhaseOf ==
  ASSUME NEW n
  PROVE  /\ attempt[n].state = "none" => Phase(n) = "none"
         /\ attempt[n].state = "queued" => Phase(n) = "waiting"
         /\ attempt[n].state = "dispatching" => Phase(n) = "claimed"
         /\ attempt[n].state = "definite_failure" => Phase(n) = "failed"
         /\ attempt[n].state = "uncertain" => Phase(n) = "unknown"
         /\ attempt[n].state \in {"provider_accepted", "delivered", "failed"}
              => Phase(n) = "accepted"
  BY DEF Phase

LEMMA PhaseNext ==
  ASSUME NEW n \in Notifications
  PROVE  /\ attempt'[n].state = "queued" => Phase(n)' = "waiting"
         /\ attempt'[n].state = "dispatching" => Phase(n)' = "claimed"
         /\ attempt'[n].state = "definite_failure" => Phase(n)' = "failed"
         /\ attempt'[n].state = "uncertain" => Phase(n)' = "unknown"
         /\ attempt'[n].state \in {"provider_accepted", "delivered", "failed"}
              => Phase(n)' = "accepted"
  BY DEF Phase

LEMMA QuietPromise ==
  ASSUME UNCHANGED <<attempt, sms>>
  PROVE  Promised
  BY PhaseUnchanged DEF Phase

LEMMA ReservePromise ==
  ASSUME IInv, NEW n \in Notifications, Reserves(n), UNCHANGED sms
  PROVE  Promised
<1>1. Dispatch!Move(n, {"none"}, "waiting")
  BY ReserveEffect, PhaseOf, PhaseNext, PhaseMoves
<1> QED BY <1>1 DEF Promised, Dispatch!Next, Dispatch!Reserve

LEMMA PreflightPromise ==
  ASSUME IInv, NEW n \in Notifications, PreflightFails(n)
  PROVE  Promised
<1> DEFINE a == [attempt[n] EXCEPT !.state = "definite_failure"]
<1>1. attempt[n].state = "queued" /\ Unresolved(n) /\ sms[n] = 0
  BY AttemptFacts DEF PreflightFails, Unresolved
<1>2. a \in Attempts /\ a.state = "definite_failure" /\ a.reserved = attempt[n].reserved
  BY FailedForm
<1>3. WriteAttempt(n, a) /\ UNCHANGED sms
  BY DEF PreflightFails
<1> HIDE DEF a
<1>4. attempt'[n] = a /\ \A m \in Notifications : m # n => attempt'[m] = attempt[m]
  BY <1>1, <1>2, <1>3, ChangeEffect
<1>5. Dispatch!Move(n, {"waiting", "claimed"}, "failed")
  BY <1>1, <1>2, <1>4, PhaseOf, PhaseNext, PhaseMoves
<1> QED BY <1>1, <1>3, <1>5 DEF Promised, Dispatch!Next, Dispatch!Fail

LEMMA ClaimPromise ==
  ASSUME IInv, NEW w \in Workers, NEW n \in Notifications, NEW c \in Configs,
         ClaimAttempt(w, n, c)
  PROVE  Promised
<1> DEFINE a == [attempt[n] EXCEPT !.state = "dispatching", !.config = c, !.lease = w]
<1>1. attempt[n].state = "queued" /\ Unresolved(n)
  BY DEF ClaimAttempt, Claimable, Unresolved
<1>2. a \in Attempts /\ a.state = "dispatching" /\ a.reserved = attempt[n].reserved
  <2>1. attempt[n] \in Attempts
    BY IInvTypes
  <2>2. a \in Attempts
    BY <2>1 DEF AttemptStates, Attempts
  <2>3. a.state = "dispatching" /\ a.config = c /\ a.lease = w
    BY <2>1 DEF Attempts
  <2>4. a.reserved = attempt[n].reserved /\ a.tracked = attempt[n].tracked
    BY <2>1 DEF Attempts
  <2> QED BY <2>2, <2>3, <2>4
<1>3. WriteAttempt(n, a) /\ UNCHANGED sms
  BY DEF ClaimAttempt
<1> HIDE DEF a
<1>4. attempt'[n] = a /\ \A m \in Notifications : m # n => attempt'[m] = attempt[m]
  BY <1>1, <1>2, <1>3, ChangeEffect
<1>5. Dispatch!Move(n, {"waiting"}, "claimed")
  BY <1>1, <1>2, <1>4, PhaseOf, PhaseNext, PhaseMoves
<1> QED BY <1>3, <1>5 DEF Promised, Dispatch!Next, Dispatch!Claim

LEMMA SendPromise ==
  ASSUME IInv, NEW w \in Workers, Send(w)
  PROVE  Promised
<1>1. PICK n \in Notifications : n = worker[w].item /\ OnDispatch(n, w) /\ sms[n] = 0
  BY DEF Send, IInv, Holders, Holder
<1>2. UNCHANGED attempt /\ (UNCHANGED sms \/ sms' = [sms EXCEPT ![n] = 1])
  BY <1>1 DEF Send
<1>3. CASE sms' = [sms EXCEPT ![n] = 1]
  <2>1. Phase(n) \in {"claimed", "unknown"}
    BY <1>1, PhaseOf DEF OnDispatch
  <2>2. UNCHANGED [m \in Notifications |-> Phase(m)]
    BY <1>2 DEF Phase
  <2>3. Dispatch!Send(n)
    BY <1>1, <1>3, <2>1, <2>2 DEF Dispatch!Send
  <2> QED BY <2>3 DEF Promised, Dispatch!Next
<1> QED BY <1>2, <1>3, QuietPromise

\* A dispatch that ends, by its worker or by the reconciler.
LEMMA FinalizePromise ==
  ASSUME IInv, NEW n \in Notifications, NEW lease, NEW result, NEW tracked \in BOOLEAN,
         Finalize(n, lease, result, tracked), UNCHANGED sms,
         result = "accepted" => sms[n] = 1, result = "rejected" => sms[n] = 0
  PROVE  Promised
<1>1. CASE ~(attempt[n].state = "dispatching" /\ attempt[n].lease = lease)
  BY <1>1, QuietPromise DEF Finalize
<1>2. CASE attempt[n].state = "dispatching" /\ attempt[n].lease = lease
  <2>1. /\ attempt'[n].state = OutcomeState(result)
        /\ \A m \in Notifications : m # n => attempt'[m] = attempt[m]
    BY <1>2, FinalizeEffect
  <2>2. Phase(n) = "claimed"
    BY <1>2, PhaseOf
  <2>3. CASE result = "accepted"
    <3>1. Dispatch!Move(n, {"claimed", "unknown"}, "accepted")
      BY <2>1, <2>2, <2>3, PhaseNext, PhaseMoves DEF OutcomeState
    <3> QED BY <2>3, <3>1 DEF Promised, Dispatch!Next, Dispatch!Accept
  <2>4. CASE result = "rejected"
    <3>1. Dispatch!Move(n, {"waiting", "claimed"}, "failed")
      BY <2>1, <2>2, <2>4, PhaseNext, PhaseMoves DEF OutcomeState
    <3> QED BY <2>4, <3>1 DEF Promised, Dispatch!Next, Dispatch!Fail
  <2>5. CASE result \notin {"accepted", "rejected"}
    <3>1. Dispatch!Move(n, {"claimed"}, "unknown")
      BY <2>1, <2>2, <2>5, PhaseNext, PhaseMoves DEF OutcomeState
    <3> QED BY <3>1 DEF Promised, Dispatch!Next, Dispatch!Lose
  <2> QED BY <2>3, <2>4, <2>5
<1> QED BY <1>1, <1>2

LEMMA EndPromise ==
  ASSUME IInv,
         \/ \E w \in Workers : Finish(w)
         \/ \E n \in Notifications : RecoverDispatch(n)
  PROVE  Promised
<1>1. ASSUME NEW w \in Workers, Finish(w) PROVE Promised
  <2>1. PICK n \in Notifications :
          /\ n = worker[w].item
          /\ worker[w].result = "accepted" => sms[n] = 1
          /\ worker[w].result = "rejected" => sms[n] = 0
    BY <1>1 DEF Finish, IInv, Holders, Holder
  <2>2. worker[w].tracked \in BOOLEAN
    BY IInvTypes DEF Memories
  <2> QED BY <1>1, <2>1, <2>2, FinalizePromise DEF Finish
<1>2. ASSUME NEW n \in Notifications, RecoverDispatch(n) PROVE Promised
  <2>1. attempt[n].tracked \in BOOLEAN
    BY IInvTypes DEF Attempts
  <2> QED BY <1>2, <2>1, FinalizePromise DEF RecoverDispatch
<1> QED BY <1>1, <1>2

LEMMA ProcessPromise ==
  ASSUME IInv, NEW n \in Notifications, NEW fate \in Fates, ProcessSome(n, fate)
  PROVE  Promised
<1>1. PICK c \in Configs : Process(n, fate, c)
  BY DEF ProcessSome
<1>2. sms[n] = 1 /\ UNCHANGED sms
  BY <1>1, AttemptFacts DEF Process
<1>3. CASE UNCHANGED attempt
  BY <1>2, <1>3, QuietPromise
<1>4. CASE TakesEvidence(n) /\ WriteAttempt(n, [attempt[n] EXCEPT !.state = fate])
  <2> DEFINE a == [attempt[n] EXCEPT !.state = fate]
  <2>1. fate \in {"delivered", "failed"} /\ fate \in AttemptStates
    BY DEF Fates, AttemptStates
  <2>2. a \in Attempts /\ a.state = fate /\ a.reserved = attempt[n].reserved
    BY <2>1, IInvTypes, ChangedForms
  <2> HIDE DEF a
  <2>3. attempt[n].state \in {"provider_accepted", "uncertain"} /\ Unresolved(n)
    BY <1>4 DEF TakesEvidence, Unresolved
  <2>4. WriteAttempt(n, a)
    BY <1>4 DEF a
  <2>5. attempt'[n] = a /\ \A m \in Notifications : m # n => attempt'[m] = attempt[m]
    BY <2>1, <2>2, <2>3, <2>4, ChangeEffect
  <2>6. Phase(n)' = "accepted"
    BY <2>1, <2>2, <2>5, PhaseNext
  <2>7. CASE attempt[n].state = "uncertain"
    <3>1. Dispatch!Move(n, {"claimed", "unknown"}, "accepted")
      BY <2>5, <2>6, <2>7, PhaseOf, PhaseMoves
    <3> QED BY <1>2, <3>1 DEF Promised, Dispatch!Next, Dispatch!Accept
  <2>8. CASE attempt[n].state = "provider_accepted"
    <3>1. Phase(n)' = Phase(n)
      BY <2>6, <2>8, PhaseOf
    <3>2. \A m \in Notifications : Phase(m)' = Phase(m)
      BY <2>5, <3>1 DEF Phase
    <3> QED BY <1>2, <3>2, PhaseUnchanged
  <2> QED BY <2>3, <2>7, <2>8
<1> QED BY <1>1, <1>3, <1>4 DEF Process

LEMMA PromiseStep == IInv /\ [Next]_vars => Promised
<1> SUFFICES ASSUME IInv, [Next]_vars PROVE Promised
  OBVIOUS
<1>1. CASE UNCHANGED <<attempt, sms>>
  BY <1>1, QuietPromise
<1>2. ASSUME NEW w \in Workers, ReserveAlert(w) PROVE Promised
  <2>1. PICK n \in Notifications : n = worker[w].item /\ n \in Alerts /\ worker[w].config \in Configs
    BY <1>2, IInvTypes DEF ReserveAlert, IInv, Holders, Holder
  <2>2. CASE ~Exists(n) /\ Reserve(n, worker[w].config)
    <3>1. Reserves(n)
      BY <2>1, <2>2, NotificationsAssumption DEF Reserves
    <3> QED BY <1>2, <3>1, ReservePromise DEF ReserveAlert
  <2> QED BY <1>2, <2>1, <2>2, QuietPromise DEF ReserveAlert
<1>3. ASSUME NEW d \in Diagnostics, NEW c \in Configs, SendTest(d, c) PROVE Promised
  BY <1>3, IInvTypes, ReservePromise DEF SendTest, Reserves
<1>4. ASSUME NEW w \in Workers, WorkerStep(w) PROVE Promised
  BY <1>2, <1>4, SendPromise, EndPromise, QuietPromise DEF WorkerStep, CloseOutbox, Die
<1>5. ASSUME NEW a \in Alerts, WriteAlert(a) \/ RecoverOutbox(a) PROVE Promised
  BY <1>5, QuietPromise DEF WriteAlert, RecoverOutbox
<1>6. ASSUME NEW w \in Workers, NEW c \in Configs, NEW a \in Alerts, ClaimOutbox(w, a, c)
      PROVE  Promised
  BY <1>6, QuietPromise DEF ClaimOutbox
<1>7. ASSUME NEW n \in Notifications, PreflightFails(n) \/ RecoverDispatch(n) PROVE Promised
  BY <1>7, PreflightPromise, EndPromise
<1>8. ASSUME NEW n \in Notifications, NEW f \in Fates, Report(n, f) \/ ProcessSome(n, f)
      PROVE  Promised
  BY <1>8, ProcessPromise, QuietPromise DEF Report
<1>9. CASE OptOut
  BY <1>9, QuietPromise DEF OptOut
<1> QED BY <1>1, <1>3, <1>4, <1>5, <1>6, <1>7, <1>8, <1>9, ClaimPromise DEF Next, vars

(* The detailed protocol implements DispatchOnce, for any number of alerts, *)
(* diagnostics, triggers and configurations: a message leaves at most once  *)
(* and every recorded outcome is true (index.js claimOwnerSmsAttempt,       *)
(* finalizeOwnerSmsDispatch, processOwnerSmsWebhookReceipt).                *)
THEOREM SmsDispatchesOnce == Spec => DispatchesOnce
<1>1. Init => Dispatch!Init
  <2> SUFFICES ASSUME Init PROVE Dispatch!Init
    OBVIOUS
  <2>1. \A n \in Notifications : attempt[n].state = "none"
    BY DEF Init, NoAttempt
  <2>2. \A n \in Notifications : Phase(n) = "none"
    BY <2>1, PhaseOf
  <2>3. sms = [n \in Notifications |-> 0]
    BY DEF Init
  <2> QED BY <2>2, <2>3 DEF Dispatch!Init
<1>2. IInv /\ [Next]_vars => [Dispatch!Next]_(Dispatch!vars)
  BY PromiseStep DEF Promised
<1> QED BY <1>1, <1>2, SmsInit, SmsStep, PTL DEF Spec, DispatchesOnce, Dispatch!Spec

=============================================================================
