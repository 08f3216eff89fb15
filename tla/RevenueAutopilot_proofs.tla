----------------------- MODULE RevenueAutopilot_proofs -----------------------
(***************************************************************************)
(* Proofs about RevenueAutopilot, for any number of jobs, runs of the      *)
(* schedule, reconciliations and e-mails.  The state of a job tells who    *)
(* may talk to Resend about it: a job whose sender is still at work is     *)
(* sending or was stopped under it, one that is being reconciled has left  *)
(* that state for good, so that the two never meet.                        *)
(***************************************************************************)
EXTENDS RevenueAutopilot, TLAPS

-----------------------------------------------------------------------------
(* The inductive invariant.                                                 *)

RunInv(r) ==
  /\ run[r].pc # "idle" => run[r].job \in Jobs
  /\ Sender(r) =>
       /\ job[run[r].job].state \in {"sending", "stopped"}
       /\ run[r].seen.count = claims[run[r].job]
       /\ run[r].pc = "record" /\ run[r].result = "accepted"
            => run[r].message \in 1 .. mail[run[r].job]

Reconcilable == {"outcome_ambiguous"} \cup Accepted \cup Terminal

RequestInv(q) ==
  request[q].pc # "idle" =>
    /\ request[q].job \in Jobs
    /\ job[request[q].job].state \in Reconcilable
    /\ request[q].seen.state = "outcome_ambiguous"
    /\ request[q].seen.count = claims[request[q].job]
    /\ request[q].pc = "complete" => request[q].message \in 1 .. mail[request[q].job]

Evidence(j) ==
  job[j].state \in Accepted =>
    /\ job[j].message \in 1 .. mail[j]
    /\ <<j, job[j].message>> \in indexed
    /\ job[j].state \in EventTypes => <<j, job[j].message, job[j].state>> \in handled
    /\ job[j].state \in {"bounced", "complained"} => suppressed

\* A stop may write back a record that is behind; a stopped job is not claimed.
JobInv(j) ==
  /\ claims[j] <= MaxAttempts
  /\ job[j].state # "stopped" => job[j].count = claims[j]
  /\ j \in remembered => mail[j] >= 1
  /\ Evidence(j)

IInv ==
  /\ TypeOK
  /\ \A r \in Runs : RunInv(r)
  /\ \A q \in Requests : RequestInv(q)
  /\ \A j \in Jobs : JobInv(j)
  /\ OneSender

LEMMA AutopilotInit == Init => IInv
<1> SUFFICES ASSUME Init PROVE IInv
  OBVIOUS
<1>1. /\ NoJob \in JobRecords /\ NoJob.state = "none" /\ NoJob.count = 0
  BY LimitsAssumption DEF NoJob, JobRecords, JobStates
<1>2. /\ Idle.pc = "idle" /\ Idle.job = NoOne /\ Idle.seen = NoJob
      /\ NoRequest.pc = "idle"
  BY DEF Idle, NoRequest
<1>3. /\ Idle \in [pc : {"idle", "materialize", "decide", "recheck", "send", "record"},
                   job : Jobs \cup {NoOne}, seen : JobRecords,
                   result : {"none", "accepted", "rejected", "unknown"}, message : Nat]
      /\ NoRequest \in [pc : {"idle", "recheck", "withhold", "send", "complete"},
                        job : Jobs \cup {NoOne}, seen : JobRecords, message : Nat]
  BY <1>1 DEF Idle, NoRequest
<1>4. /\ job = [j \in Jobs |-> NoJob]
      /\ claims = [j \in Jobs |-> 0]
      /\ authority = "clear" /\ suppressed = FALSE
      /\ run = [r \in Runs |-> Idle]
      /\ request = [q \in Requests |-> NoRequest]
      /\ receipt = [q \in Requests |-> "none"]
      /\ mail = [j \in Jobs |-> 0]
      /\ remembered = {} /\ indexed = {} /\ handled = {}
  BY DEF Init
<1> HIDE DEF Init
<1>5. TypeOK
  BY <1>1, <1>3, <1>4 DEF TypeOK, Authorities
<1>6. \A r \in Runs : run[r].pc = "idle"
  BY <1>2, <1>4
<1>7. (\A r \in Runs : RunInv(r)) /\ OneSender
  BY <1>6 DEF RunInv, Sender, OneSender
<1>8. \A q \in Requests : RequestInv(q)
  BY <1>2, <1>4 DEF RequestInv
<1>9. \A j \in Jobs : JobInv(j)
  <2> SUFFICES ASSUME NEW j \in Jobs PROVE JobInv(j)
    OBVIOUS
  <2>1. job[j].state = "none" /\ job[j].count = 0 /\ claims[j] = 0
    BY <1>1, <1>4
  <2>2. Evidence(j)
    BY <2>1 DEF Evidence, Accepted, EventTypes
  <2>3. claims[j] <= MaxAttempts
    BY <2>1, LimitsAssumption
  <2> QED BY <1>4, <2>1, <2>2, <2>3 DEF JobInv
<1> QED BY <1>5, <1>7, <1>8, <1>9 DEF IInv

-----------------------------------------------------------------------------
(* What a step may do to a job.                                             *)

\* Everything that judges a record but its claim and its stamp is as it was.
Same(j) ==
  /\ job'[j].state = job[j].state
  /\ job'[j].count = job[j].count
  /\ job[j].state \in Accepted => job'[j].message = job[j].message

\* The outcome of a sending job is recorded by its sender, which is done.
Recorded(j) ==
  /\ job[j].state = "sending"
  /\ job'[j].state \in {"provider_accepted", "definite_failure", "outcome_ambiguous", "retry_wait"}
  /\ \A r \in Runs : Sender(r) /\ run[r].job = j => run'[r].pc = "idle"

Moved(j) ==
  /\ job'[j].count = claims[j]
  /\ Evidence(j)'
  /\ \/ Recorded(j)
     \/ job[j].state = "none" /\ job'[j].state = "scheduled"
     \/ job[j].state = "outcome_ambiguous" /\ job'[j].state = "provider_accepted"
     \/ job[j].state \in Accepted /\ job'[j].state \in EventTypes

JobStep(j) == Same(j) \/ job'[j].state = "stopped" \/ Moved(j)

\* What it may do to a run, short of claiming, and to a reconciliation.
RunMoves(r) ==
  \/ run'[r] = run[r]
  \/ run'[r].pc = "idle"
  \/ /\ RunInv(r)'
     /\ Sender(r)' => Sender(r) /\ run'[r].job = run[r].job

RequestMoves(q) ==
  \/ request'[q] = request[q]
  \/ request'[q].pc = "idle"
  \/ /\ RequestInv(q)'
     /\ \/ request[q].pc # "idle" /\ request'[q].job = request[q].job
        \/ job[request'[q].job].state = "outcome_ambiguous"

LEMMA Types ==
  ASSUME IInv
  PROVE  /\ job \in [Jobs -> JobRecords] /\ claims \in [Jobs -> Nat]
         /\ authority \in Authorities /\ suppressed \in BOOLEAN
         /\ run \in [Runs -> [pc : {"idle", "materialize", "decide", "recheck", "send", "record"},
                       job : Jobs \cup {NoOne}, seen : JobRecords,
                       result : {"none", "accepted", "rejected", "unknown"}, message : Nat]]
         /\ request \in [Requests -> [pc : {"idle", "recheck", "withhold", "send", "complete"},
                               job : Jobs \cup {NoOne}, seen : JobRecords, message : Nat]]
         /\ receipt \in [Requests -> {"none", "withheld", "accepted"}]
         /\ mail \in [Jobs -> Nat]
         /\ remembered \subseteq Jobs
         /\ indexed \subseteq Jobs \X Nat
         /\ handled \subseteq Jobs \X Nat \X EventTypes
  BY DEF IInv, TypeOK

\* Every step but a claim is made of such moves, and they keep the invariant.
LEMMA MovesStep ==
  ASSUME IInv, TypeOK', UNCHANGED claims,
         \A j \in Jobs : mail'[j] >= mail[j] /\ (j \in remembered' => mail'[j] >= 1),
         indexed \subseteq indexed', handled \subseteq handled', suppressed => suppressed',
         \A j \in Jobs : JobStep(j),
         \A r \in Runs : RunMoves(r),
         \A q \in Requests : RequestMoves(q)
  PROVE  IInv'
<1>1. \A r \in Runs : RunInv(r)'
  <2> SUFFICES ASSUME NEW r \in Runs, run'[r] = run[r] PROVE RunInv(r)'
    BY DEF RunMoves, RunInv, Sender
  <2>1. RunInv(r)
    BY DEF IInv
  <2>2. CASE ~Sender(r)
    BY <2>1, <2>2 DEF RunInv, Sender
  <2>3. CASE Sender(r)
    <3> DEFINE j == run[r].job
    <3>1. j \in Jobs /\ job[j].state \in {"sending", "stopped"}
      BY <2>1, <2>3 DEF RunInv, Sender
    <3>2. run'[r].pc # "idle" /\ ~Recorded(j)
      BY <2>3 DEF Sender, Recorded
    <3>3. job'[j].state \in {"sending", "stopped"}
      BY <3>1, <3>2 DEF JobStep, Same, Moved, Accepted, EventTypes
    <3>4. mail'[j] >= mail[j] /\ mail'[j] \in Nat /\ mail[j] \in Nat
      BY <3>1 DEF IInv, TypeOK
    <3>5. run[r].message \in 1 .. mail[j] => run[r].message \in 1 .. mail'[j]
      BY <3>4
    <3> QED BY <2>1, <2>3, <3>1, <3>3, <3>5 DEF RunInv, Sender
  <2> QED BY <2>2, <2>3
<1>2. \A q \in Requests : RequestInv(q)'
  <2> SUFFICES ASSUME NEW q \in Requests, request'[q] = request[q], request[q].pc # "idle"
               PROVE  RequestInv(q)'
    BY DEF RequestMoves, RequestInv
  <2> DEFINE j == request[q].job
  <2>1. RequestInv(q) /\ j \in Jobs /\ job[j].state \in Reconcilable
    BY DEF IInv, RequestInv
  <2>2. job'[j].state \in Reconcilable
    BY <2>1 DEF JobStep, Same, Moved, Recorded, Reconcilable, Accepted, Terminal, EventTypes
  <2>3. mail'[j] >= mail[j] /\ mail'[j] \in Nat /\ mail[j] \in Nat
    BY <2>1 DEF IInv, TypeOK
  <2>4. request[q].message \in 1 .. mail[j] => request[q].message \in 1 .. mail'[j]
    BY <2>3
  <2> QED BY <2>1, <2>2, <2>4 DEF RequestInv
<1>3. \A j \in Jobs : JobInv(j)'
  <2> SUFFICES ASSUME NEW j \in Jobs PROVE JobInv(j)'
    OBVIOUS
  <2>1. JobInv(j) /\ JobStep(j) /\ mail'[j] >= mail[j] /\ mail'[j] \in Nat /\ mail[j] \in Nat
    BY DEF IInv, TypeOK
  <2>2. CASE Same(j)
    <3>1. job[j].message \in 1 .. mail[j] => job[j].message \in 1 .. mail'[j]
      BY <2>1
    <3>2. Evidence(j)'
      BY <2>1, <2>2, <3>1 DEF JobInv, Evidence, Same
    <3> QED BY <2>1, <2>2, <3>2 DEF JobInv, Same
  <2>3. CASE job'[j].state = "stopped"
    BY <2>1, <2>3 DEF JobInv, Evidence, Accepted, EventTypes
  <2>4. CASE Moved(j)
    BY <2>1, <2>4 DEF JobInv, Moved
  <2> QED BY <2>1, <2>2, <2>3, <2>4 DEF JobStep
<1>4. OneSender'
  <2>1. \A r \in Runs : Sender(r)' => Sender(r) /\ run'[r].job = run[r].job
    BY DEF RunMoves, Sender
  <2> SUFFICES ASSUME NEW r \in Runs, Sender(r), run'[r].job = run[r].job,
                      NEW q \in Requests, request'[q].pc # "idle"
               PROVE  request'[q].job # run[r].job
    BY <2>1 DEF IInv, OneSender
  <2>2. job[run[r].job].state \in {"sending", "stopped"}
    BY DEF IInv, RunInv
  <2> QED BY <2>2 DEF IInv, OneSender, RequestMoves
<1> QED BY <1>1, <1>2, <1>3, <1>4 DEF IInv

-----------------------------------------------------------------------------
(* Forms of the records.                                                    *)

RunRecords ==
  [pc : {"idle", "materialize", "decide", "recheck", "send", "record"},
   job : Jobs \cup {NoOne}, seen : JobRecords,
   result : {"none", "accepted", "rejected", "unknown"}, message : Nat]

RequestRecords ==
  [pc : {"idle", "recheck", "withhold", "send", "complete"},
   job : Jobs \cup {NoOne}, seen : JobRecords, message : Nat]

LEMMA IdleRecords ==
  Idle \in RunRecords /\ Idle.pc = "idle" /\ NoRequest \in RequestRecords /\ NoRequest.pc = "idle"
<1>1. NoJob \in JobRecords
  BY LimitsAssumption DEF NoJob, JobRecords, JobStates
<1> QED BY <1>1 DEF Idle, NoRequest, RunRecords, RequestRecords

LEMMA StateForm ==
  ASSUME NEW a \in JobRecords, NEW state \in JobStates
  PROVE  /\ [a EXCEPT !.state = state] \in JobRecords
         /\ [a EXCEPT !.state = state].state = state
         /\ [a EXCEPT !.state = state].count = a.count
         /\ [a EXCEPT !.state = state].message = a.message
  BY DEF JobRecords

LEMMA StopForm ==
  ASSUME NEW seen, NEW a \in JobRecords
  PROVE  /\ StopMerged(seen, a) \in JobRecords
         /\ \/ StopMerged(seen, a).state = "stopped"
            \/ /\ StopMerged(seen, a).state = a.state
               /\ StopMerged(seen, a).count = a.count
               /\ StopMerged(seen, a).message = a.message
<1>1. "stopped" \in JobStates
  BY DEF JobStates, Terminal
<1>2. /\ [a EXCEPT !.stamped = TRUE] \in JobRecords
      /\ [a EXCEPT !.stamped = TRUE].state = a.state
      /\ [a EXCEPT !.stamped = TRUE].count = a.count
      /\ [a EXCEPT !.stamped = TRUE].message = a.message
  BY DEF JobRecords
<1> QED BY <1>1, <1>2, StateForm DEF StopMerged

LEMMA RunWrite ==
  ASSUME IInv, NEW r \in Runs, NEW x \in RunRecords, run' = [run EXCEPT ![r] = x]
  PROVE  /\ run' \in [Runs -> RunRecords]
         /\ \A t \in Runs : run'[t] = IF t = r THEN x ELSE run[t]
  BY Types DEF RunRecords

LEMMA RequestWrite ==
  ASSUME IInv, NEW q \in Requests, NEW x \in RequestRecords, request' = [request EXCEPT ![q] = x]
  PROVE  /\ request' \in [Requests -> RequestRecords]
         /\ \A t \in Requests : request'[t] = IF t = q THEN x ELSE request[t]
  BY Types DEF RequestRecords

LEMMA JobWrite ==
  ASSUME IInv, NEW j \in Jobs, NEW a \in JobRecords, job' = [job EXCEPT ![j] = a]
  PROVE  /\ job' \in [Jobs -> JobRecords]
         /\ \A i \in Jobs : job'[i] = IF i = j THEN a ELSE job[i]
  BY Types

LEMMA MailFacts ==
  ASSUME IInv, NEW j \in Jobs
  PROVE  mail[j] \in Nat /\ mail[j] >= mail[j] /\ (j \in remembered => mail[j] >= 1)
<1>1. mail[j] \in Nat
  BY Types
<1> QED BY <1>1 DEF IInv, JobInv

\* A step that touches neither Resend nor its events.
LEMMA RecordsStep ==
  ASSUME IInv, job' \in [Jobs -> JobRecords], authority' \in Authorities,
         run' \in [Runs -> RunRecords], request' \in [Requests -> RequestRecords],
         receipt' \in [Requests -> {"none", "withheld", "accepted"}],
         indexed \subseteq indexed', indexed' \subseteq Jobs \X Nat,
         remembered' \subseteq remembered,
         UNCHANGED <<claims, suppressed, mail, handled>>,
         \A j \in Jobs : JobStep(j),
         \A r \in Runs : RunMoves(r),
         \A q \in Requests : RequestMoves(q)
  PROVE  IInv'
<1>1. TypeOK'
  BY Types DEF TypeOK, RunRecords, RequestRecords
<1> QED BY <1>1, MailFacts, MovesStep

-----------------------------------------------------------------------------
(* The environment, materialization and staff stops.                        *)

LEMMA EnvironmentStep ==
  ASSUME IInv, AuthorityChanges \/ \E j \in Jobs : KeyForgotten(j) \/ Create(j) \/ StaffStops(j)
  PROVE  IInv'
<1>1. /\ run' = run /\ request' = request /\ receipt' = receipt
      /\ UNCHANGED <<claims, suppressed, mail, indexed, handled>>
      /\ remembered' \subseteq remembered /\ authority' \in Authorities
  BY Types DEF AuthorityChanges, KeyForgotten, Create, StaffStops, staffVars, provider
<1>2. /\ run' \in [Runs -> RunRecords] /\ request' \in [Requests -> RequestRecords]
      /\ \A r \in Runs : RunMoves(r)
      /\ \A q \in Requests : RequestMoves(q)
  BY <1>1, Types DEF RunMoves, RequestMoves, RunRecords, RequestRecords
<1>3. job' \in [Jobs -> JobRecords] /\ \A j \in Jobs : JobStep(j)
  <2>1. CASE job' = job
    BY <2>1, Types DEF JobStep, Same
  <2>2. ASSUME NEW j \in Jobs, Create(j)
      PROVE  job' \in [Jobs -> JobRecords] /\ \A i \in Jobs : JobStep(i)
    <3> DEFINE a == [job[j] EXCEPT !.state = "scheduled"]
    <3>1. job[j].state = "none" /\ job' = [job EXCEPT ![j] = a]
      BY <2>2, Types DEF Create
    <3>2. a \in JobRecords /\ a.state = "scheduled" /\ a.count = job[j].count
      BY Types, StateForm DEF JobStates, Unsent
    <3> HIDE DEF a
    <3>3. /\ job' \in [Jobs -> JobRecords]
          /\ \A i \in Jobs : job'[i] = IF i = j THEN a ELSE job[i]
      BY <3>1, <3>2, JobWrite
    <3>4. job[j].count = claims[j]
      BY <3>1 DEF IInv, JobInv
    <3>5. Moved(j)
      BY <3>1, <3>2, <3>3, <3>4 DEF Moved, Evidence, Accepted, EventTypes
    <3> QED BY <3>3, <3>5 DEF JobStep, Same
  <2>3. ASSUME NEW j \in Jobs, StaffStops(j)
      PROVE  job' \in [Jobs -> JobRecords] /\ \A i \in Jobs : JobStep(i)
    <3> DEFINE a == StopMerged(job[j], job[j])
    <3>1. job' = [job EXCEPT ![j] = a]
      BY <2>3 DEF StaffStops
    <3>2. /\ a \in JobRecords
          /\ \/ a.state = "stopped"
             \/ a.state = job[j].state /\ a.count = job[j].count /\ a.message = job[j].message
      BY Types, StopForm
    <3> HIDE DEF a
    <3>3. /\ job' \in [Jobs -> JobRecords]
          /\ \A i \in Jobs : job'[i] = IF i = j THEN a ELSE job[i]
      BY <3>1, <3>2, JobWrite
    <3> QED BY <3>2, <3>3 DEF JobStep, Same
  <2> QED BY <2>1, <2>2, <2>3 DEF AuthorityChanges, KeyForgotten
<1> QED BY <1>1, <1>2, <1>3, Types, RecordsStep

-----------------------------------------------------------------------------
(* The runs of the schedule.                                                *)

\* A run's own record, when nothing else but a job changes.
LEMMA RunStepFrom ==
  ASSUME IInv, NEW r \in Runs, NEW x \in RunRecords, run' = [run EXCEPT ![r] = x],
         \/ x.pc = "idle"
         \/ RunInv(r)' /\ (Sender(r)' => Sender(r) /\ x.job = run[r].job),
         job' \in [Jobs -> JobRecords], \A j \in Jobs : JobStep(j),
         indexed \subseteq indexed', indexed' \subseteq Jobs \X Nat,
         UNCHANGED <<claims, authority, suppressed, request, receipt, mail, remembered, handled>>
  PROVE  IInv'
<1>1. /\ run' \in [Runs -> RunRecords]
      /\ \A t \in Runs : run'[t] = IF t = r THEN x ELSE run[t]
  BY RunWrite
<1>2. \A t \in Runs : RunMoves(t)
  BY <1>1 DEF RunMoves
<1>3. request' \in [Requests -> RequestRecords] /\ \A q \in Requests : RequestMoves(q)
  BY Types DEF RequestMoves, RequestRecords
<1> QED BY <1>1, <1>2, <1>3, Types, RecordsStep

LEMMA SameJobs ==
  ASSUME IInv, UNCHANGED job
  PROVE  job' \in [Jobs -> JobRecords] /\ \A j \in Jobs : JobStep(j)
  BY Types DEF JobStep, Same

LEMMA StoppedJob ==
  ASSUME IInv, NEW j \in Jobs, NEW a \in JobRecords,
         \/ a.state = "stopped"
         \/ a.state = job[j].state /\ a.count = job[j].count /\ a.message = job[j].message,
         job' = [job EXCEPT ![j] = a]
  PROVE  job' \in [Jobs -> JobRecords] /\ \A i \in Jobs : JobStep(i)
<1>1. job' \in [Jobs -> JobRecords] /\ \A i \in Jobs : job'[i] = IF i = j THEN a ELSE job[i]
  BY JobWrite
<1> QED BY <1>1 DEF JobStep, Same

LEMMA RunFacts ==
  ASSUME IInv, NEW r \in Runs
  PROVE  /\ run[r] \in RunRecords /\ run[r].seen \in JobRecords
         /\ run[r].pc # "idle" => run[r].job \in Jobs
         /\ RunInv(r)
<1>1. run[r] \in RunRecords
  BY Types DEF RunRecords
<1>2. run[r].seen \in JobRecords
  BY <1>1 DEF RunRecords
<1>3. RunInv(r)
  BY DEF IInv
<1> QED BY <1>1, <1>2, <1>3 DEF RunInv

\* The steps that send nothing and claim nothing.
LEMMA RunReadStep ==
  ASSUME IInv, NEW r \in Runs, NEW j \in Jobs, NEW pc \in {"materialize", "decide"},
         RunReads(r, j, pc)
  PROVE  IInv'
<1> DEFINE x == [Idle EXCEPT !.pc = pc, !.job = j, !.seen = job[j]]
<1>1. x \in RunRecords /\ x.pc = pc /\ x.job = j
  BY IdleRecords, Types DEF RunRecords
<1>2. run' = [run EXCEPT ![r] = x] /\ UNCHANGED <<job, claims, authority, suppressed, staffVars, provider, indexed, handled>>
  BY DEF RunReads
<1> HIDE DEF x
<1>3. run'[r] = x
  BY <1>1, <1>2, RunWrite
<1>4. RunInv(r)' /\ ~Sender(r)'
  BY <1>1, <1>3 DEF RunInv, Sender
<1> QED BY <1>1, <1>2, <1>4, SameJobs, Types, RunStepFrom DEF staffVars, provider

LEMMA RunReturnStep ==
  ASSUME IInv, NEW r \in Runs, RunReturns(r),
         job' \in [Jobs -> JobRecords], \A j \in Jobs : JobStep(j),
         UNCHANGED <<claims, authority, suppressed, staffVars, provider, indexed, handled>>
  PROVE  IInv'
<1>1. run' = [run EXCEPT ![r] = Idle]
  BY DEF RunReturns
<1> QED BY <1>1, IdleRecords, Types, RunStepFrom DEF staffVars, provider

LEMMA RunStopStep ==
  ASSUME IInv, NEW r \in Runs,
         ScheduleStops(r) \/ DispatchStops(r) \/ DispatchPasses(r) \/ RecheckStops(r) \/ RunEnds(r)
  PROVE  IInv'
<1> DEFINE j == run[r].job
<1>1. CASE ScheduleStops(r)
  <2> DEFINE a == StopMerged(run[r].seen, job[j])
  <2>1. j \in Jobs /\ job' = [job EXCEPT ![j] = a]
    BY <1>1, RunFacts DEF ScheduleStops
  <2>2. /\ a \in JobRecords
        /\ \/ a.state = "stopped"
           \/ a.state = job[j].state /\ a.count = job[j].count /\ a.message = job[j].message
    BY <2>1, Types, StopForm
  <2> HIDE DEF a, j
  <2>3. job' \in [Jobs -> JobRecords] /\ \A i \in Jobs : JobStep(i)
    BY <2>1, <2>2, StoppedJob
  <2> QED BY <1>1, <2>3, RunReturnStep DEF ScheduleStops
<1>2. CASE DispatchStops(r) \/ RecheckStops(r)
  <2> DEFINE a == [run[r].seen EXCEPT !.state = "stopped"]
  <2>1. j \in Jobs /\ job' = [job EXCEPT ![j] = a]
    BY <1>2, RunFacts DEF DispatchStops, RecheckStops
  <2>2. a \in JobRecords /\ a.state = "stopped"
    BY RunFacts, StateForm DEF JobStates, Terminal
  <2> HIDE DEF a, j
  <2>3. job' \in [Jobs -> JobRecords] /\ \A i \in Jobs : JobStep(i)
    BY <2>1, <2>2, StoppedJob
  <2> QED BY <1>2, <2>3, RunReturnStep DEF DispatchStops, RecheckStops
<1>3. CASE DispatchPasses(r) \/ RunEnds(r)
  BY <1>3, SameJobs, RunReturnStep DEF DispatchPasses, RunEnds
<1> QED BY <1>1, <1>2, <1>3

\* The second look, when the run goes on.
LEMMA RecheckStep ==
  ASSUME IInv, NEW r \in Runs, RecheckFails(r) \/ RecheckClears(r)
  PROVE  IInv'
<1>1. /\ run[r].pc = "recheck"
      /\ UNCHANGED <<job, claims, authority, suppressed, staffVars, provider, indexed, handled>>
  BY DEF RecheckFails, RecheckClears
<1>2. PICK pc \in {"send", "record"}, result \in {"none", "accepted", "rejected", "unknown"} :
        /\ run' = [run EXCEPT ![r].pc = pc, ![r].result = result]
        /\ pc = "record" => result # "accepted"
  <2>1. CASE RecheckClears(r)
    <3>1. run' = [run EXCEPT ![r].pc = "send", ![r].result = run[r].result]
      BY <2>1, Types DEF RecheckClears
    <3>2. run[r].result \in {"none", "accepted", "rejected", "unknown"}
      BY RunFacts DEF RunRecords
    <3> QED BY <3>1, <3>2
  <2>2. CASE RecheckFails(r)
    BY <2>2 DEF RecheckFails
  <2> QED BY <2>1, <2>2
<1> DEFINE x == [run[r] EXCEPT !.pc = pc, !.result = result]
<1>3. run' = [run EXCEPT ![r] = x]
  BY <1>2, Types
<1>4. /\ x \in RunRecords /\ x.pc = pc /\ x.result = result /\ x.job = run[r].job
      /\ x.seen = run[r].seen
  BY RunFacts DEF RunRecords
<1> HIDE DEF x
<1>5. run'[r] = x
  BY <1>3, <1>4, RunWrite
<1>6. Sender(r) /\ RunInv(r)
  BY <1>1, RunFacts DEF Sender
<1>7. RunInv(r)'
  BY <1>1, <1>2, <1>4, <1>5, <1>6 DEF RunInv, Sender
<1> QED BY <1>1, <1>3, <1>4, <1>6, <1>7, SameJobs, Types, RunStepFrom DEF staffVars, provider

\* Resend takes an e-mail of a job, or answers with the one it remembers.
LEMMA ResendEffect ==
  ASSUME IInv, NEW j \in Jobs, ResendTakes(j)
  PROVE  /\ mail' \in [Jobs -> Nat] /\ remembered' \subseteq Jobs
         /\ \A i \in Jobs : mail'[i] >= mail[i] /\ (i \in remembered' => mail'[i] >= 1)
         /\ MailAfter(j) \in 1 .. mail'[j] /\ MailAfter(j) \in Nat
<1>1. mail[j] \in Nat /\ (j \in remembered => mail[j] >= 1)
  BY MailFacts
<1>2. MailAfter(j) \in Nat /\ MailAfter(j) >= mail[j] /\ MailAfter(j) >= 1
  BY <1>1 DEF MailAfter
<1>3. mail' = [mail EXCEPT ![j] = MailAfter(j)] /\ remembered' = remembered \cup {j}
  BY DEF ResendTakes
<1> HIDE DEF MailAfter
<1>4. \A i \in Jobs : mail'[i] = IF i = j THEN MailAfter(j) ELSE mail[i]
  BY <1>3, Types
<1>5. mail' \in [Jobs -> Nat] /\ remembered' \subseteq Jobs
  BY <1>2, <1>3, Types
<1>6. MailAfter(j) \in 1 .. mail'[j]
  BY <1>2, <1>4
<1>7. ASSUME NEW i \in Jobs
      PROVE  mail'[i] >= mail[i] /\ (i \in remembered' => mail'[i] >= 1)
  BY <1>2, <1>3, <1>4, MailFacts
<1> QED BY <1>2, <1>5, <1>6, <1>7

LEMMA DispatchSendStep ==
  ASSUME IInv, NEW r \in Runs, DispatchSends(r)
  PROVE  IInv'
<1>1. /\ run[r].pc = "send" /\ Sender(r) /\ RunInv(r) /\ run[r].job \in Jobs
      /\ UNCHANGED <<job, claims, authority, suppressed, request, receipt, indexed, handled>>
  BY RunFacts DEF DispatchSends, Sender, staffVars
<1>2. PICK j \in Jobs : j = run[r].job
  BY <1>1
<1>3. PICK result \in {"accepted", "rejected", "unknown"}, message \in Nat :
        /\ run' = [run EXCEPT ![r].pc = "record", ![r].result = result, ![r].message = message]
        /\ \/ ResendTakes(j) /\ message = MailAfter(j)
           \/ UNCHANGED provider /\ result # "accepted"
  <2>1. CASE ResendTakes(j) /\ \E result \in {"accepted", "unknown"} :
               run' = [run EXCEPT ![r].pc = "record", ![r].result = result,
                                  ![r].message = MailAfter(j)]
    <3>1. MailAfter(j) \in Nat
      BY <2>1, ResendEffect
    <3> QED BY <2>1, <3>1
  <2>2. ASSUME NEW result \in {"rejected", "unknown"}, UNCHANGED provider,
               run' = [run EXCEPT ![r].pc = "record", ![r].result = result]
        PROVE  \E message \in Nat :
                 run' = [run EXCEPT ![r].pc = "record", ![r].result = result,
                                    ![r].message = message]
    <3>1. run' = [run EXCEPT ![r].pc = "record", ![r].result = result,
                             ![r].message = run[r].message]
      BY <2>2, Types
    <3>2. run[r].message \in Nat
      BY RunFacts DEF RunRecords
    <3> QED BY <3>1, <3>2
  <2> QED BY <1>2, <2>1, <2>2 DEF DispatchSends
<1>4. /\ mail' \in [Jobs -> Nat] /\ remembered' \subseteq Jobs
      /\ \A i \in Jobs : mail'[i] >= mail[i] /\ (i \in remembered' => mail'[i] >= 1)
      /\ result = "accepted" => message \in 1 .. mail'[j]
  <2>1. CASE ResendTakes(j) /\ message = MailAfter(j)
    BY <2>1, ResendEffect
  <2>2. CASE UNCHANGED provider /\ result # "accepted"
    BY <2>2, Types, MailFacts DEF provider
  <2> QED BY <1>3, <2>1, <2>2
<1> DEFINE x == [run[r] EXCEPT !.pc = "record", !.result = result, !.message = message]
<1>5. run' = [run EXCEPT ![r] = x]
  BY <1>3, Types
<1>6. /\ x \in RunRecords /\ x.pc = "record" /\ x.result = result /\ x.job = j
      /\ x.seen = run[r].seen /\ x.message = message
  BY <1>2, RunFacts DEF RunRecords
<1> HIDE DEF x
<1>7. /\ run' \in [Runs -> RunRecords]
      /\ \A t \in Runs : run'[t] = IF t = r THEN x ELSE run[t]
  BY <1>5, <1>6, RunWrite
<1>8. RunInv(r)'
  BY <1>1, <1>2, <1>4, <1>6, <1>7 DEF RunInv, Sender
<1>9. \A t \in Runs : RunMoves(t)
  BY <1>1, <1>2, <1>6, <1>7, <1>8 DEF RunMoves
<1>10. TypeOK'
  BY <1>1, <1>4, <1>7, Types DEF TypeOK, RunRecords
<1>11. \A q \in Requests : RequestMoves(q)
  BY <1>1 DEF RequestMoves
<1> QED BY <1>1, <1>4, <1>9, <1>10, <1>11, SameJobs, MovesStep

\* The record of a job, when the run that owns its attempt writes it.
LEMMA OwnerFacts ==
  ASSUME IInv, NEW r \in Runs, run[r].pc = "record", Owns(r)
  PROVE  /\ run[r].job \in Jobs /\ job[run[r].job].state = "sending"
         /\ run[r].seen.count = claims[run[r].job]
         /\ run[r].result = "accepted" => run[r].message \in 1 .. mail[run[r].job]
         /\ \A t \in Runs : Sender(t) /\ run[t].job = run[r].job => t = r
<1>1. Sender(r) /\ RunInv(r)
  BY RunFacts DEF Sender
<1> QED BY <1>1 DEF RunInv, Owns, IInv, OneSender

LEMMA AcceptanceStep ==
  ASSUME IInv, NEW r \in Runs, RecordAcceptance(r)
  PROVE  IInv'
<1>1. PICK j \in Jobs : j = run[r].job
  BY OwnerFacts DEF RecordAcceptance
<1> DEFINE m == run[r].message
           a == [run[r].seen EXCEPT !.state = "provider_accepted", !.message = run[r].message]
<1>2. /\ job[j].state = "sending" /\ run[r].seen.count = claims[j]
      /\ m \in 1 .. mail[j] /\ m \in Nat
      /\ \A t \in Runs : Sender(t) /\ run[t].job = j => t = r
  BY <1>1, OwnerFacts, MailFacts DEF RecordAcceptance
<1>3. /\ job' = [job EXCEPT ![j] = a] /\ indexed' = indexed \cup {<<j, m>>}
      /\ RunReturns(r)
      /\ UNCHANGED <<claims, authority, suppressed, staffVars, provider, handled>>
  BY <1>1 DEF RecordAcceptance
<1>4. /\ a \in JobRecords /\ a.state = "provider_accepted" /\ a.message = m
      /\ a.count = claims[j]
  BY <1>2, RunFacts DEF JobRecords, JobStates, Accepted
<1>5. run' = [run EXCEPT ![r] = Idle] /\ run'[r].pc = "idle"
  BY <1>3, IdleRecords, RunWrite DEF RunReturns
<1> HIDE DEF a
<1>6. job' \in [Jobs -> JobRecords] /\ \A i \in Jobs : job'[i] = IF i = j THEN a ELSE job[i]
  BY <1>3, <1>4, JobWrite
<1>7. Evidence(j)'
  <2>1. mail' = mail /\ <<j, m>> \in indexed'
    BY <1>3 DEF provider
  <2> QED BY <1>2, <1>4, <1>6, <2>1 DEF Evidence, EventTypes
<1>8. Moved(j)
  BY <1>2, <1>4, <1>5, <1>6, <1>7 DEF Moved, Recorded
<1>9. \A i \in Jobs : JobStep(i)
  BY <1>6, <1>8 DEF JobStep, Same
<1>10. indexed \subseteq indexed' /\ indexed' \subseteq Jobs \X Nat
  BY <1>2, <1>3, Types
<1> QED BY <1>3, <1>5, <1>6, <1>9, <1>10, IdleRecords, RunStepFrom DEF staffVars, provider

LEMMA FailureStep ==
  ASSUME IInv, NEW r \in Runs, RecordFailure(r)
  PROVE  IInv'
<1>1. PICK j \in Jobs : j = run[r].job
  BY OwnerFacts DEF RecordFailure
<1>2. PICK state \in FailureStates(r) : job' = [job EXCEPT ![j] = [run[r].seen EXCEPT !.state = state]]
  BY <1>1 DEF RecordFailure
<1>3. state \in {"definite_failure", "outcome_ambiguous", "retry_wait"} /\ state \in JobStates
  BY DEF FailureStates, JobStates, Terminal, Unresolved, Unsent
<1>4. /\ job[j].state = "sending" /\ run[r].seen.count = claims[j]
      /\ \A t \in Runs : Sender(t) /\ run[t].job = j => t = r
  BY <1>1, OwnerFacts DEF RecordFailure
<1> DEFINE a == [run[r].seen EXCEPT !.state = state]
<1>5. a \in JobRecords /\ a.state = state /\ a.count = claims[j]
  BY <1>3, <1>4, RunFacts, StateForm
<1>6. RunReturns(r) /\ UNCHANGED <<claims, authority, suppressed, staffVars, provider, indexed, handled>>
  BY DEF RecordFailure
<1>7. run' = [run EXCEPT ![r] = Idle] /\ run'[r].pc = "idle"
  BY <1>6, IdleRecords, RunWrite DEF RunReturns
<1>8. job' = [job EXCEPT ![j] = a]
  BY <1>2
<1> HIDE DEF a
<1>9. job' \in [Jobs -> JobRecords] /\ \A i \in Jobs : job'[i] = IF i = j THEN a ELSE job[i]
  BY <1>5, <1>8, JobWrite
<1>10. Moved(j)
  BY <1>3, <1>4, <1>5, <1>7, <1>9 DEF Moved, Recorded, Evidence, Accepted, EventTypes
<1>11. \A i \in Jobs : JobStep(i)
  BY <1>9, <1>10 DEF JobStep, Same
<1> QED BY <1>6, <1>7, <1>9, <1>11, IdleRecords, Types, RunStepFrom DEF staffVars, provider

\* A claim: nobody was sending or reconciling the job, and it gets one attempt.
LEMMA ClaimStep ==
  ASSUME IInv, NEW r \in Runs, DispatchClaims(r)
  PROVE  IInv'
<1>1. PICK j \in Jobs : j = run[r].job
  BY RunFacts DEF DispatchClaims
<1> DEFINE a == [job[j] EXCEPT !.state = "sending", !.attempt = claims[j] + 1,
                               !.count = job[j].count + 1]
           x == [run[r] EXCEPT !.pc = "recheck", !.seen = a]
<1>2. /\ job[j].state \in Unsent /\ job[j].count < MaxAttempts /\ run[r].pc = "decide"
      /\ job' = [job EXCEPT ![j] = a]
      /\ claims' = [claims EXCEPT ![j] = claims[j] + 1]
      /\ run' = [run EXCEPT ![r].pc = "recheck", ![r].seen = a]
      /\ UNCHANGED <<authority, suppressed, staffVars, provider, indexed, handled>>
  BY <1>1 DEF DispatchClaims, Claimable, Counted
<1>3. job[j] \in JobRecords /\ claims[j] \in Nat /\ job[j].count \in 0 .. MaxAttempts
      /\ job[j].count = claims[j]
  BY <1>2, Types DEF JobRecords, IInv, JobInv, Unsent
<1>4. a \in JobRecords /\ a.state = "sending" /\ a.count = claims[j] + 1
  <2>1. /\ job[j].count + 1 \in 0 .. MaxAttempts /\ claims[j] + 1 \in Nat
        /\ "sending" \in JobStates
    BY <1>2, <1>3, LimitsAssumption DEF JobStates, Unresolved
  <2> DEFINE n == job[j].count + 1
             k == claims[j] + 1
  <2>2. n \in 0 .. MaxAttempts /\ k \in Nat /\ n = k
    BY <1>3, <2>1
  <2> HIDE DEF n, k
  <2>3. a = [job[j] EXCEPT !.state = "sending", !.attempt = k, !.count = n]
    BY DEF n, k
  <2>4. a \in JobRecords /\ a.state = "sending" /\ a.count = n
    BY <1>3, <2>1, <2>2, <2>3 DEF JobRecords
  <2> QED BY <2>2, <2>4 DEF k
<1>5. x \in RunRecords /\ x.pc = "recheck" /\ x.job = j /\ x.seen = a
  BY <1>1, <1>4, RunFacts DEF RunRecords
<1>6. run' = [run EXCEPT ![r] = x]
  BY <1>2, Types
<1> HIDE DEF a, x
<1>7. /\ job' \in [Jobs -> JobRecords] /\ \A i \in Jobs : job'[i] = IF i = j THEN a ELSE job[i]
      /\ run' \in [Runs -> RunRecords] /\ \A t \in Runs : run'[t] = IF t = r THEN x ELSE run[t]
  BY <1>2, <1>4, <1>5, <1>6, JobWrite, RunWrite, ZenonT(40)
<1>8. claims' \in [Jobs -> Nat]
      /\ \A i \in Jobs : claims'[i] = IF i = j THEN claims[j] + 1 ELSE claims[i]
  BY <1>2, <1>3, Types
<1>9. (\A t \in Runs : Sender(t) => run[t].job # j)
      /\ (\A q \in Requests : request[q].pc # "idle" => request[q].job # j)
  BY <1>2 DEF IInv, RunInv, RequestInv, Unsent, Reconcilable, Accepted, Terminal, EventTypes
<1>10. TypeOK'
  BY <1>2, <1>7, <1>8, Types DEF TypeOK, RunRecords, staffVars, provider
<1>11. \A t \in Runs : RunInv(t)'
  <2>1. RunInv(r)'
    BY <1>4, <1>5, <1>7, <1>8 DEF RunInv, Sender
  <2>2. ASSUME NEW t \in Runs, t # r PROVE RunInv(t)'
    BY <1>2, <1>7, <1>8, <1>9, <2>2 DEF IInv, RunInv, Sender, provider
  <2> QED BY <2>1, <2>2
<1>12. \A q \in Requests : RequestInv(q)'
  BY <1>2, <1>7, <1>8, <1>9 DEF IInv, RequestInv, provider, staffVars
<1>13. \A i \in Jobs : JobInv(i)'
  <2>1. JobInv(j)'
    <3>1. claims'[j] <= MaxAttempts
      BY <1>2, <1>3, <1>8, LimitsAssumption
    <3>2. Evidence(j)'
      BY <1>4, <1>7 DEF Evidence, Accepted, EventTypes
    <3> QED BY <1>2, <1>4, <1>7, <1>8, <3>1, <3>2 DEF IInv, JobInv, provider
  <2>2. ASSUME NEW i \in Jobs, i # j PROVE JobInv(i)'
    BY <1>2, <1>7, <1>8, <2>2 DEF IInv, JobInv, Evidence, provider
  <2> QED BY <2>1, <2>2
<1>14. OneSender'
  <2>1. \A t \in Runs : Sender(t)' => (t = r \/ (Sender(t) /\ run'[t].job = run[t].job))
    BY <1>7 DEF Sender
  <2>2. run'[r].job = j /\ request' = request
    BY <1>2, <1>5, <1>7 DEF staffVars
  <2> QED BY <1>9, <2>1, <2>2 DEF IInv, OneSender
<1> QED BY <1>10, <1>11, <1>12, <1>13, <1>14 DEF IInv

LEMMA RunStepInv ==
  ASSUME IInv, NEW r \in Runs, RunStep(r)
  PROVE  IInv'
  BY RunReadStep, RunStopStep, RecheckStep, DispatchSendStep, AcceptanceStep, FailureStep,
     ClaimStep DEF RunStep

-----------------------------------------------------------------------------
(* The reconciliations.                                                     *)

LEMMA RequestFacts ==
  ASSUME IInv, NEW q \in Requests
  PROVE  request[q] \in RequestRecords /\ request[q].seen \in JobRecords /\ RequestInv(q)
<1>1. request[q] \in RequestRecords
  BY Types DEF RequestRecords
<1>2. request[q].seen \in JobRecords
  BY <1>1 DEF RequestRecords
<1> QED BY <1>1, <1>2 DEF IInv

\* A request's own record, when nothing else but a job changes.
LEMMA RequestStepFrom ==
  ASSUME IInv, NEW q \in Requests, NEW x \in RequestRecords,
         request' = [request EXCEPT ![q] = x],
         \/ x.pc = "idle"
         \/ /\ RequestInv(q)'
            /\ \/ request[q].pc # "idle" /\ x.job = request[q].job
               \/ job[x.job].state = "outcome_ambiguous",
         job' \in [Jobs -> JobRecords], \A j \in Jobs : JobStep(j),
         receipt' \in [Requests -> {"none", "withheld", "accepted"}],
         indexed \subseteq indexed', indexed' \subseteq Jobs \X Nat,
         UNCHANGED <<claims, authority, suppressed, run, mail, remembered, handled>>
  PROVE  IInv'
<1>1. /\ request' \in [Requests -> RequestRecords]
      /\ \A t \in Requests : request'[t] = IF t = q THEN x ELSE request[t]
  BY RequestWrite
<1>2. \A t \in Requests : RequestMoves(t)
  BY <1>1 DEF RequestMoves
<1>3. run' \in [Runs -> RunRecords] /\ \A r \in Runs : RunMoves(r)
  BY Types DEF RunMoves, RunRecords
<1> QED BY <1>1, <1>2, <1>3, Types, RecordsStep

\* A job whose attempt is reconciled, with another claim or stamp.
LEMMA ClaimForm ==
  ASSUME NEW a \in JobRecords, NEW claim \in Requests \cup {NoOne}
  PROVE  /\ [a EXCEPT !.claim = claim] \in JobRecords
         /\ [a EXCEPT !.claim = claim].state = a.state
         /\ [a EXCEPT !.claim = claim].count = a.count
         /\ [a EXCEPT !.claim = claim].message = a.message
  BY DEF JobRecords

LEMMA ReconcileClaimStep ==
  ASSUME IInv, NEW q \in Requests, NEW j \in Jobs, ReconcileClaims(q, j)
  PROVE  IInv'
<1> DEFINE x == [pc |-> "recheck", job |-> j, seen |-> job[j], message |-> 0]
           a == [job[j] EXCEPT !.claim = q]
<1>1. job[j].state = "outcome_ambiguous" /\ job[j] \in JobRecords
  BY Types DEF ReconcileClaims
<1>2. x \in RequestRecords /\ x.pc = "recheck" /\ x.job = j /\ x.seen = job[j]
  BY <1>1 DEF RequestRecords
<1>3. /\ a \in JobRecords /\ a.state = job[j].state /\ a.count = job[j].count
      /\ a.message = job[j].message
  BY <1>1, ClaimForm
<1>4. /\ request' = [request EXCEPT ![q] = x] /\ job' = [job EXCEPT ![j] = a]
      /\ UNCHANGED <<claims, authority, suppressed, run, receipt, provider, indexed, handled>>
  BY Types DEF ReconcileClaims
<1> HIDE DEF x, a
<1>5. job' \in [Jobs -> JobRecords] /\ (\A i \in Jobs : JobStep(i)) /\ job'[j] = a
  BY <1>3, <1>4, StoppedJob, JobWrite
<1>6. job[j].count = claims[j]
  BY <1>1 DEF IInv, JobInv
<1>7. RequestInv(q)'
  BY <1>1, <1>2, <1>3, <1>4, <1>5, <1>6, RequestWrite DEF RequestInv, Reconcilable
<1> QED BY <1>1, <1>2, <1>4, <1>5, <1>7, Types, RequestStepFrom DEF provider

LEMMA RequestReturnStep ==
  ASSUME IInv, NEW q \in Requests, RequestReturns(q),
         job' \in [Jobs -> JobRecords], \A j \in Jobs : JobStep(j),
         receipt' \in [Requests -> {"none", "withheld", "accepted"}],
         indexed \subseteq indexed', indexed' \subseteq Jobs \X Nat,
         UNCHANGED <<claims, authority, suppressed, run, provider, handled>>
  PROVE  IInv'
<1>1. request' = [request EXCEPT ![q] = NoRequest]
  BY DEF RequestReturns
<1> QED BY <1>1, IdleRecords, RequestStepFrom DEF provider

\* The second look.
LEMMA ReconcileRecheckStep ==
  ASSUME IInv, NEW q \in Requests, ReconcileRechecks(q)
  PROVE  IInv'
<1>1. /\ request[q].pc = "recheck" /\ RequestInv(q)
      /\ UNCHANGED <<job, claims, authority, suppressed, run, receipt, provider, indexed, handled>>
  BY RequestFacts DEF ReconcileRechecks
<1>2. PICK pc \in {"send", "withhold"} : request' = [request EXCEPT ![q].pc = pc]
  BY DEF ReconcileRechecks
<1> DEFINE x == [request[q] EXCEPT !.pc = pc]
<1>3. request' = [request EXCEPT ![q] = x]
  BY <1>2, Types
<1>4. /\ x \in RequestRecords /\ x.pc = pc /\ x.job = request[q].job /\ x.seen = request[q].seen
  BY RequestFacts DEF RequestRecords
<1> HIDE DEF x
<1>5. request'[q] = x
  BY <1>3, <1>4, RequestWrite
<1>6. RequestInv(q)'
  BY <1>1, <1>4, <1>5 DEF RequestInv, provider
<1> QED BY <1>1, <1>3, <1>4, <1>6, SameJobs, Types, RequestStepFrom DEF provider

LEMMA ReconcileReleaseStep ==
  ASSUME IInv, NEW q \in Requests, ReconcileReleases(q) \/ RequestEnds(q)
  PROVE  IInv'
<1>1. /\ request[q].pc # "idle" /\ RequestReturns(q)
      /\ UNCHANGED <<claims, authority, suppressed, run, receipt, provider, indexed, handled>>
  BY DEF ReconcileReleases, RequestEnds
<1>2. PICK j \in Jobs : j = request[q].job
  BY <1>1, RequestFacts DEF RequestInv
<1>3. CASE job' = job
  BY <1>1, <1>3, SameJobs, Types, RequestReturnStep
<1>4. CASE job' = [job EXCEPT ![j].claim = NoOne]
  <2> DEFINE a == [job[j] EXCEPT !.claim = NoOne]
  <2>1. /\ a \in JobRecords /\ a.state = job[j].state /\ a.count = job[j].count
        /\ a.message = job[j].message
    BY Types, ClaimForm
  <2>2. job' = [job EXCEPT ![j] = a]
    BY <1>4
  <2> HIDE DEF a
  <2> QED BY <1>1, <2>1, <2>2, StoppedJob, Types, RequestReturnStep
<1> QED BY <1>2, <1>3, <1>4 DEF ReconcileReleases, RequestEnds

LEMMA ReconcileWithholdStep ==
  ASSUME IInv, NEW q \in Requests, ReconcileWithholds(q)
  PROVE  IInv'
<1>1. /\ request[q].pc = "withhold" /\ RequestInv(q) /\ Holds(q) /\ RequestReturns(q)
      /\ receipt' = [receipt EXCEPT ![q] = "withheld"]
      /\ UNCHANGED <<claims, authority, suppressed, run, provider, indexed, handled>>
  BY RequestFacts DEF ReconcileWithholds
<1>2. PICK j \in Jobs : j = request[q].job
  BY <1>1 DEF RequestInv
<1> DEFINE a == [request[q].seen EXCEPT !.stamped = TRUE, !.claim = NoOne]
<1>3. a \in JobRecords /\ a.state = "outcome_ambiguous" /\ a.count = claims[j]
  BY <1>1, <1>2, RequestFacts DEF JobRecords, RequestInv
<1>4. job[j].state = "outcome_ambiguous" /\ job' = [job EXCEPT ![j] = a]
  BY <1>1, <1>2 DEF Holds, ReconcileWithholds
<1> HIDE DEF a
<1>5. job' \in [Jobs -> JobRecords] /\ \A i \in Jobs : job'[i] = IF i = j THEN a ELSE job[i]
  BY <1>3, <1>4, JobWrite
<1>6. \A i \in Jobs : JobStep(i)
  <2>1. job[j].count = claims[j]
    BY <1>4 DEF IInv, JobInv
  <2> QED BY <1>3, <1>4, <1>5, <2>1 DEF JobStep, Same, Accepted, EventTypes
<1> QED BY <1>1, <1>5, <1>6, Types, RequestReturnStep

\* A reconciliation's e-mail is the one Resend remembers, or a new one.
LEMMA ReconcileSendStep ==
  ASSUME IInv, NEW q \in Requests, ReconcileSends(q)
  PROVE  IInv'
<1>1. request[q].pc = "send" /\ RequestInv(q)
      /\ UNCHANGED <<job, claims, authority, suppressed, run, receipt, indexed, handled>>
  BY RequestFacts DEF ReconcileSends
<1>2. PICK j \in Jobs : j = request[q].job
  BY <1>1 DEF RequestInv
<1>3. ResendTakes(j)
  BY <1>2 DEF ReconcileSends
<1>4. PICK m : m = MailAfter(j)
  OBVIOUS
<1>5. /\ mail' \in [Jobs -> Nat] /\ remembered' \subseteq Jobs
      /\ \A i \in Jobs : mail'[i] >= mail[i] /\ (i \in remembered' => mail'[i] >= 1)
      /\ m \in 1 .. mail'[j] /\ m \in Nat
  BY <1>3, <1>4, ResendEffect
<1> DEFINE x == [request[q] EXCEPT !.pc = "complete", !.message = m]
<1>6. request' = [request EXCEPT ![q] = x]
  BY <1>2, <1>4, Types DEF ReconcileSends
<1>7. /\ x \in RequestRecords /\ x.pc = "complete" /\ x.job = j /\ x.message = m
      /\ x.seen = request[q].seen
  BY <1>2, <1>5, RequestFacts DEF RequestRecords
<1> HIDE DEF x
<1>8. /\ request' \in [Requests -> RequestRecords]
      /\ \A t \in Requests : request'[t] = IF t = q THEN x ELSE request[t]
  BY <1>6, <1>7, RequestWrite
<1>9. RequestInv(q)'
  BY <1>1, <1>2, <1>5, <1>7, <1>8 DEF RequestInv
<1>10. \A t \in Requests : RequestMoves(t)
  BY <1>1, <1>2, <1>7, <1>8, <1>9 DEF RequestMoves
<1>11. \A r \in Runs : RunMoves(r)
  BY <1>1 DEF RunMoves
<1>12. TypeOK'
  BY <1>1, <1>5, <1>8, Types DEF TypeOK, RequestRecords
<1> QED BY <1>1, <1>5, <1>10, <1>11, <1>12, SameJobs, MovesStep

LEMMA ReconcileCompleteStep ==
  ASSUME IInv, NEW q \in Requests, ReconcileCompletes(q)
  PROVE  IInv'
<1>1. request[q].pc = "complete" /\ RequestInv(q) /\ Holds(q)
  BY RequestFacts DEF ReconcileCompletes
<1>2. PICK j \in Jobs : j = request[q].job
  BY <1>1 DEF RequestInv
<1> DEFINE m == request[q].message
           a == [request[q].seen EXCEPT !.state = "provider_accepted", !.message = m,
                                        !.claim = NoOne]
<1>3. /\ job' = [job EXCEPT ![j] = a] /\ indexed' = indexed \cup {<<j, m>>}
      /\ receipt' = [receipt EXCEPT ![q] = "accepted"] /\ RequestReturns(q)
      /\ UNCHANGED <<claims, authority, suppressed, run, provider, handled>>
  BY <1>2 DEF ReconcileCompletes
<1>4. /\ job[j].state = "outcome_ambiguous" /\ m \in 1 .. mail[j] /\ m \in Nat
      /\ request[q].seen.count = claims[j]
  BY <1>1, <1>2, MailFacts DEF Holds, RequestInv
<1>5. a \in JobRecords /\ a.state = "provider_accepted" /\ a.message = m /\ a.count = claims[j]
  BY <1>4, RequestFacts DEF JobRecords, JobStates, Accepted
<1> HIDE DEF a
<1>6. job' \in [Jobs -> JobRecords] /\ \A i \in Jobs : job'[i] = IF i = j THEN a ELSE job[i]
  BY <1>3, <1>5, JobWrite
<1>7. Evidence(j)'
  <2>1. mail' = mail /\ <<j, m>> \in indexed'
    BY <1>3 DEF provider
  <2> QED BY <1>4, <1>5, <1>6, <2>1 DEF Evidence, EventTypes
<1>8. Moved(j)
  BY <1>4, <1>5, <1>6, <1>7 DEF Moved
<1>9. \A i \in Jobs : JobStep(i)
  BY <1>6, <1>8 DEF JobStep, Same
<1>10. /\ indexed \subseteq indexed' /\ indexed' \subseteq Jobs \X Nat
       /\ receipt' \in [Requests -> {"none", "withheld", "accepted"}]
  BY <1>3, <1>4, Types
<1> QED BY <1>3, <1>6, <1>9, <1>10, RequestReturnStep

LEMMA RequestStepInv ==
  ASSUME IInv, NEW q \in Requests, RequestStep(q)
  PROVE  IInv'
  BY ReconcileClaimStep, ReconcileRecheckStep, ReconcileReleaseStep, ReconcileWithholdStep,
     ReconcileSendStep, ReconcileCompleteStep DEF RequestStep

-----------------------------------------------------------------------------
(* The webhook, and every step.                                             *)

LEMMA WebhookStep ==
  ASSUME IInv, NEW j \in Jobs, NEW m \in 1 .. MaxMails, NEW type \in EventTypes,
         WebhookRecords(j, m, type)
  PROVE  IInv'
<1>1. /\ job[j].state \in Accepted /\ job[j].message = m /\ <<j, m>> \in indexed
      /\ m \in 1 .. mail[j]
      /\ suppressed' = (suppressed \/ Suppresses(Evidenced(job[j].state, type)))
      /\ handled' = handled \cup {<<j, m, type>>}
      /\ UNCHANGED <<claims, authority, run, request, receipt, mail, remembered, indexed>>
  BY DEF WebhookRecords, staffVars, provider
<1>2. PICK state \in EventTypes : state = Evidenced(job[j].state, type)
  BY <1>1 DEF Evidenced, EventTypes
<1> DEFINE a == [job[j] EXCEPT !.state = state]
<1>3. job' = [job EXCEPT ![j] = a]
  BY <1>2, Types DEF WebhookRecords
<1>4. a \in JobRecords /\ a.state = state /\ a.count = job[j].count /\ a.message = m
  <2>1. state \in JobStates /\ job[j] \in JobRecords
    BY <1>2, Types DEF JobStates, Terminal
  <2>2. /\ a \in JobRecords /\ a.state = state /\ a.count = job[j].count
        /\ a.message = job[j].message
    BY <2>1, StateForm
  <2> QED BY <1>1, <2>2
<1> HIDE DEF a
<1>5. job' \in [Jobs -> JobRecords] /\ \A i \in Jobs : job'[i] = IF i = j THEN a ELSE job[i]
  BY <1>3, <1>4, JobWrite
<1>6. job[j].count = claims[j] /\ Evidence(j)
  BY <1>1 DEF IInv, JobInv, Accepted, EventTypes
<1>7. <<j, m, state>> \in handled'
  BY <1>1, <1>2, <1>6 DEF Evidenced, Evidence, EventTypes, Accepted
<1>8. (suppressed => suppressed') /\ suppressed' \in BOOLEAN
      /\ (state \in {"bounced", "complained"} => suppressed')
  BY <1>1, <1>2 DEF Suppresses
<1>9. Evidence(j)'
  BY <1>1, <1>4, <1>5, <1>7, <1>8 DEF Evidence
<1>10. Moved(j)
  BY <1>1, <1>4, <1>5, <1>6, <1>9 DEF Moved
<1>11. \A i \in Jobs : JobStep(i)
  BY <1>5, <1>10 DEF JobStep, Same
<1>12. m \in Nat
  BY LimitsAssumption
<1>13. handled \subseteq handled' /\ handled' \subseteq Jobs \X Nat \X EventTypes
  BY <1>1, <1>12, Types
<1>14. TypeOK'
  BY <1>1, <1>5, <1>8, <1>13, Types DEF TypeOK
<1>15. (\A r \in Runs : RunMoves(r)) /\ (\A q \in Requests : RequestMoves(q))
  BY <1>1 DEF RunMoves, RequestMoves
<1> QED BY <1>1, <1>8, <1>11, <1>13, <1>14, <1>15, MailFacts, MovesStep

LEMMA AutopilotStep == IInv /\ [Next]_vars => IInv'
<1> SUFFICES ASSUME IInv, [Next]_vars PROVE IInv'
  OBVIOUS
<1>1. CASE UNCHANGED vars
  <2>1. /\ UNCHANGED <<job, claims, authority, suppressed, run, request, receipt, mail,
                        remembered, indexed, handled>>
    BY <1>1 DEF vars
  <2>2. /\ run' \in [Runs -> RunRecords] /\ request' \in [Requests -> RequestRecords]
        /\ (\A r \in Runs : RunMoves(r)) /\ (\A q \in Requests : RequestMoves(q))
    BY <2>1, Types DEF RunMoves, RequestMoves, RunRecords, RequestRecords
  <2> QED BY <2>1, <2>2, SameJobs, Types, RecordsStep
<1>2. CASE Next
  BY <1>2, EnvironmentStep, WebhookStep, RunStepInv, RequestStepInv DEF Next
<1> QED BY <1>1, <1>2

LEMMA AutopilotInvariant == Spec => []IInv
  BY AutopilotInit, AutopilotStep, PTL DEF Spec

-----------------------------------------------------------------------------
(* The theorems.                                                            *)

\* Every record, the provider's and the invocations' state have their types.
THEOREM AutopilotTypeCorrect == Spec => []TypeOK
<1>1. IInv => TypeOK
  BY DEF IInv
<1> QED BY <1>1, AutopilotInvariant, PTL

\* One sender a job, and none beside a reconciliation, however many invocations
\* of the schedule overlap (dispatchRevenueAutopilotJob, reconcileRevenueAutopilotJob).
THEOREM AutopilotOneSender == Spec => []OneSender
<1>1. IInv => OneSender
  BY DEF IInv
<1> QED BY <1>1, AutopilotInvariant, PTL

\* The tenant's limit bounds the attempts of a job (claimRevenueAutopilotJob).
THEOREM AutopilotAttempts == Spec => []AttemptsAreBounded
<1>1. IInv => AttemptsAreBounded
  BY DEF IInv, JobInv, AttemptsAreBounded
<1> QED BY <1>1, AutopilotInvariant, PTL

\* What a record says of its e-mail is proved (planRevenueAutopilotProviderAcceptance,
\* recordRevenueAutopilotProviderEvent).
THEOREM AutopilotEvidence == Spec => []EvidenceIsProved
<1>1. IInv => EvidenceIsProved
  BY DEF IInv, JobInv, Evidence, EvidenceIsProved
<1> QED BY <1>1, AutopilotInvariant, PTL

\* A job that has ended stays so: only the writers of a sending or ambiguous
\* record, a stop and the webhook touch a record.
LEMMA EndedStep ==
  ASSUME IInv, [Next]_vars, NEW j \in Jobs, job[j].state \in Terminal
  PROVE  /\ job'[j].state \in Terminal
         /\ job[j].state \in {"bounced", "complained"} => job'[j].state \in {job[j].state, "stopped"}
<1> DEFINE Stays == job'[j].state \in {job[j].state, "stopped"}
<1>1. CASE UNCHANGED job
  BY <1>1
<1>2. CASE \E i \in Jobs : Create(i) \/ StaffStops(i)
  <2>1. PICK i \in Jobs : \E a : /\ job' = [job EXCEPT ![i] = a]
                                 /\ i = j => a.state \in {job[j].state, "stopped"}
    <3>1. ASSUME NEW i \in Jobs, Create(i)
          PROVE  i # j /\ job' = [job EXCEPT ![i] = [job[i] EXCEPT !.state = "scheduled"]]
      BY <3>1, Types DEF Create, Terminal, EventTypes
    <3>2. ASSUME NEW i \in Jobs, StaffStops(i)
          PROVE  /\ job' = [job EXCEPT ![i] = StopMerged(job[i], job[i])]
                 /\ StopMerged(job[i], job[i]).state \in {job[i].state, "stopped"}
      BY <3>2, Types, StopForm DEF StaffStops
    <3> QED BY <1>2, <3>1, <3>2
  <2> QED BY <2>1, Types DEF Terminal
<1>3. ASSUME NEW i \in Jobs, NEW m \in 1 .. MaxMails, NEW type \in EventTypes,
             WebhookRecords(i, m, type)
      PROVE  /\ job'[j].state \in Terminal
             /\ job[j].state \in {"bounced", "complained"} => job'[j].state = job[j].state
  <2>1. job' = [job EXCEPT ![i] = [job[i] EXCEPT !.state = Evidenced(job[i].state, type)]]
    BY <1>3, Types DEF WebhookRecords
  <2>2. /\ job'[j].state \in {job[j].state, Evidenced(job[j].state, type)}
    BY <2>1, Types DEF JobRecords
  <2> QED BY <2>2 DEF Evidenced, Terminal, EventTypes
<1>4. ASSUME NEW r \in Runs, RunStep(r) PROVE Stays /\ job'[j].state \in Terminal
  <2>1. CASE ScheduleStops(r)
    <3>1. PICK i \in Jobs : i = run[r].job
      BY <2>1, RunFacts DEF ScheduleStops
    <3>2. /\ job' = [job EXCEPT ![i] = StopMerged(run[r].seen, job[i])]
          /\ StopMerged(run[r].seen, job[i]).state \in {job[i].state, "stopped"}
      BY <2>1, <3>1, Types, StopForm DEF ScheduleStops
    <3> QED BY <3>2, Types DEF Terminal
  <2>2. CASE DispatchStops(r) \/ RecheckStops(r)
    <3>1. PICK i \in Jobs : i = run[r].job
      BY <2>2, RunFacts DEF DispatchStops, RecheckStops, Sender
    <3>2. job' = [job EXCEPT ![i] = [run[r].seen EXCEPT !.state = "stopped"]]
      BY <2>2, <3>1 DEF DispatchStops, RecheckStops
    <3>3. [run[r].seen EXCEPT !.state = "stopped"].state = "stopped"
      BY RunFacts DEF JobRecords
    <3> QED BY <3>2, <3>3, Types DEF Terminal
  <2>3. CASE DispatchClaims(r) \/ RecordAcceptance(r) \/ RecordFailure(r)
    <3>1. \E a : job' = [job EXCEPT ![run[r].job] = a]
      BY <2>3 DEF DispatchClaims, RecordAcceptance, RecordFailure
    <3>2. job[run[r].job].state \notin Terminal
      BY <2>3 DEF DispatchClaims, RecordAcceptance, RecordFailure, Claimable, Unsent, Owns,
                  Terminal, EventTypes
    <3> QED BY <3>1, <3>2, Types
  <2> QED BY <1>1, <1>4, <2>1, <2>2, <2>3 DEF RunStep, RunReads, DispatchPasses, RecheckFails,
             RecheckClears, DispatchSends, RunEnds
<1>5. ASSUME NEW q \in Requests, RequestStep(q) PROVE job'[j].state = job[j].state
  <2>1. CASE \E i \in Jobs : ReconcileClaims(q, i)
    BY <2>1, Types DEF ReconcileClaims, Terminal, EventTypes
  <2>2. CASE ReconcileReleases(q)
    BY <1>1, <2>2, Types DEF ReconcileReleases, JobRecords
  <2>3. CASE ReconcileWithholds(q) \/ ReconcileCompletes(q)
    <3>1. \E a : job' = [job EXCEPT ![request[q].job] = a]
      BY <2>3 DEF ReconcileWithholds, ReconcileCompletes
    <3>2. job[request[q].job].state \notin Terminal
      BY <2>3 DEF ReconcileWithholds, ReconcileCompletes, Holds, Terminal, EventTypes
    <3> QED BY <3>1, <3>2, Types
  <2> QED BY <1>1, <1>5, <2>1, <2>2, <2>3 DEF RequestStep, ReconcileRechecks, ReconcileSends,
             RequestEnds
<1>6. CASE AuthorityChanges \/ \E i \in Jobs : KeyForgotten(i)
  BY <1>1, <1>6 DEF AuthorityChanges, KeyForgotten
<1> QED BY <1>1, <1>2, <1>3, <1>4, <1>5, <1>6 DEF Next, vars

\* Nothing reopens an ended job, and a bounce or complaint is never overwritten
\* by a delivery.
THEOREM AutopilotEndedIsFinal == Spec => EndedIsFinal
<1> DEFINE Final == \A j \in Jobs : /\ job[j].state \in Terminal => job'[j].state \in Terminal
                                    /\ job[j].state \in {"bounced", "complained"}
                                         => job'[j].state \in {job[j].state, "stopped"}
<1>1. IInv /\ [Next]_vars => [Final]_vars
  <2> SUFFICES ASSUME IInv, [Next]_vars PROVE Final
    OBVIOUS
  <2> SUFFICES ASSUME NEW j \in Jobs
               PROVE  /\ job[j].state \in Terminal => job'[j].state \in Terminal
                      /\ job[j].state \in {"bounced", "complained"}
                           => job'[j].state \in {job[j].state, "stopped"}
    OBVIOUS
  <2>1. job[j].state \in {"bounced", "complained"} => job[j].state \in Terminal
    BY DEF Terminal, EventTypes
  <2> QED BY <2>1, EndedStep
<1>2. Spec => [][Final]_vars
  BY <1>1, AutopilotInvariant, PTL DEF Spec
<1> QED BY <1>2 DEF EndedIsFinal

=============================================================================
